SPECIFICATION RadioSpec
CONSTANTS MaxVol = 2 MaxChan = 2 DefaultVol = 1 DefaultChan = 1
INVARIANTS RadioTypeOK ChipInStep
PROPERTY SavedSurvives
