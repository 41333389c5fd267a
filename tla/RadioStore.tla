---------------------------- MODULE RadioStore ----------------------------
(* The radio's settings in three places: radio_data in RAM, the registers of *)
(* the radio chip, and the record in flash sector 29 (Radio.c, Flash.c and   *)
(* the menu fields that change them).  The menu task is the only one that    *)
(* changes any of them.  Power may fail at any moment, also between the IAP  *)
(* commands of one Save_RData and in the middle of one.                      *)
EXTENDS Naturals

CONSTANTS MaxVol, MaxChan,        \* the largest volume and channel
          DefaultVol, DefaultChan \* radio_data as APP_Task fills it in

ASSUME RadioStoreAssumption ==
    /\ MaxVol \in 0..15 /\ MaxChan \in 0..1023
    /\ DefaultVol \in 0..MaxVol /\ DefaultChan \in 0..MaxChan

\* A volume (8 bits) and a channel (16 bits) of erased flash; also what is in
\* a register of the chip before it is written.
NoVol  == 255
NoChan == 65535

Record == [vol : 0..MaxVol, chan : 0..MaxChan]
Stored == [id : BOOLEAN, vol : (0..MaxVol) \cup {NoVol}, chan : (0..MaxChan) \cup {NoChan}]
None   == [vol |-> NoVol, chan |-> NoChan]

Settings == {"vol", "chan"}
Default == [vol |-> DefaultVol, chan |-> DefaultChan]
Erased  == [id |-> FALSE, vol |-> NoVol, chan |-> NoChan]

VARIABLES
    on,      \* the application runs
    ram,     \* *radio_data
    chip,    \* volume and channel in the chip's registers
    flash,   \* the record at SECTOR_POS
    saving,  \* the next IAP command of Save_RData, or "no"
    copy,    \* save_data, the record being saved
    saved,   \* the record of the last Save_RData that returned CMD_SUCCESS,
             \* as long as no later one has erased it; else None
    behind   \* fields that the chip has not been told: since start-up the last
             \* write to their register failed, or they were deleted after it

radioVars == <<on, ram, chip, flash, saving, copy, saved, behind>>
-----------------------------------------------------------------------------
\* Mutant of Valid: no sanity checks on the values.
HasId(f) == f.id

\* Get_RData accepts the record: the identifier is there, and the values are
\* in range, which 0xFF and 0xFFFF are not.
Valid(f) == f.id /\ f.vol <= 15 /\ f.chan <= 1023

Loaded(f) == IF Valid(f) THEN [vol |-> f.vol, chan |-> f.chan] ELSE Default

\* Mutant of Registers: the values the application passed in.
RegistersOfDefault(r, n) ==
    [chan |-> IF n >= 2 THEN Default.chan ELSE NoChan, vol |-> IF n >= 3 THEN Default.vol ELSE NoVol]

\* The chip after the first n of the writes to registers 2, 3 and 5.
Registers(r, n) ==
    [chan |-> IF n >= 2 THEN r.chan ELSE NoChan, vol |-> IF n >= 3 THEN r.vol ELSE NoVol]

\* Init_Radio: the first write that fails is the last.
Boot ==
    /\ ~on /\ on' = TRUE
    /\ ram' = Loaded(flash)
    /\ \E n \in 0..3 : /\ chip' = Registers(Loaded(flash), n)
                       /\ behind' = IF n < 2 THEN Settings ELSE IF n < 3 THEN {"vol"} ELSE {}
    /\ UNCHANGED <<flash, saving, copy, saved>>
-----------------------------------------------------------------------------
Idle == on /\ saving = "no"

\* Menu_Field_step and Menu_Field_shift: RAM first, then the register; a
\* failed write is not undone.
Change(new) ==
    /\ Idle /\ new \in Record /\ ram' = new
    /\ UNCHANGED <<on, flash, saving, copy, saved>>

StepVolume ==
    \E vol \in {ram.vol + 1, ram.vol - 1} :
        /\ Change([ram EXCEPT !.vol = vol])
        /\ \/ chip' = [chip EXCEPT !.vol = vol] /\ behind' = behind \ {"vol"}
           \/ UNCHANGED chip /\ behind' = behind \cup {"vol"}

ShiftChannel ==
    \E chan \in {ram.chan + 1, ram.chan - 1} :
        /\ Change([ram EXCEPT !.chan = chan])
        /\ \/ chip' = [chip EXCEPT !.chan = chan] /\ behind' = behind \ {"chan"}
           \/ UNCHANGED chip /\ behind' = behind \cup {"chan"}

\* Save_RData starts: the whole record is copied.
SaveRData(r) ==
    /\ Idle /\ copy' = r /\ saving' = "erase"
    /\ UNCHANGED <<on, chip, flash, saved>>

SaveMenu == SaveRData(ram) /\ UNCHANGED <<ram, behind>>

\* _Freq_Del and _Vol_Del set a field of radio_data to 0 and save all of it.
Delete(setting) ==
    LET new == [ram EXCEPT ![setting] = 0]
    IN  SaveRData(new) /\ ram' = new /\ behind' = behind \cup {setting}

DeleteFreq == Delete("chan")
DeleteVol  == Delete("vol")
-----------------------------------------------------------------------------
Whole(r) == [id |-> TRUE, vol |-> r.vol, chan |-> r.chan]

\* Flash while or after a record is written over erased flash: a prefix of it.
Prefixes(r) == {Erased, [Erased EXCEPT !.id = TRUE], [Whole(r) EXCEPT !.chan = NoChan], Whole(r)}

\* An IAP command that is part of a save; an error ends Save_RData, whose
\* result no caller looks at.
Iap(command, next) ==
    /\ on /\ saving = command /\ saving' \in {next, "no"}
    /\ UNCHANGED <<on, ram, chip, copy, behind>>

Erase == /\ Iap("erase", "copy")
         /\ \/ flash' = Erased /\ saved' = None
            \/ saving' = "no" /\ UNCHANGED <<flash, saved>>

Copy == /\ Iap("copy", "compare")
        /\ flash' \in Prefixes(copy)
        /\ UNCHANGED saved

\* Mutant of Compare: the record is taken to be written.
CompareNothing == Iap("compare", "no") /\ saved' = copy /\ UNCHANGED flash

Compare == /\ Iap("compare", "no")
           /\ saved' = IF flash = Whole(copy) THEN copy ELSE saved
           /\ UNCHANGED flash

\* Power fails; an IAP command under way leaves what it has done so far: an
\* erasure leaves any values, but no identifier where there was none.
PowerLoss ==
    /\ on /\ on' = FALSE /\ saving' = "no"
    /\ \/ saving = "copy" /\ flash' \in Prefixes(copy) /\ UNCHANGED saved
       \/ saving = "erase" /\ flash' \in {f \in Stored : f.id => flash.id} /\ saved' = None
       \/ UNCHANGED <<flash, saved>>
    /\ UNCHANGED <<ram, chip, copy, behind>>
-----------------------------------------------------------------------------
RadioInit == /\ on = FALSE /\ ram = Default /\ chip = None /\ flash = Erased
        /\ saving = "no" /\ copy = Default /\ saved = None
        /\ behind = {}

RadioNext == \/ Boot \/ StepVolume \/ ShiftChannel \/ SaveMenu \/ DeleteFreq \/ DeleteVol
        \/ Erase \/ Copy \/ Compare \/ PowerLoss

RadioSpec == RadioInit /\ [][RadioNext]_radioVars
-----------------------------------------------------------------------------
\* RAM always holds a volume and a channel in range, also when it was loaded
\* from what a power failure left in flash.
RadioTypeOK ==
    /\ on \in BOOLEAN /\ ram \in Record /\ copy \in Record
    /\ chip \in [vol : (0..MaxVol) \cup {NoVol}, chan : (0..MaxChan) \cup {NoChan}]
    /\ flash \in Stored /\ saved \in Record \cup {None}
    /\ saving \in {"no", "erase", "copy", "compare"} /\ behind \subseteq Settings

\* What Save_RData reported as saved is what the next start loads, whatever
\* saves failed or were cut short before.
SavedSurvives == [][Boot /\ saved # None => ram' = saved]_radioVars

\* The chip has the volume and the station that the display and the telemetry
\* report, each unless the last write to its register failed or it was deleted
\* since: what happens to the other does not matter, and one write that succeeds
\* makes up for all that went wrong before.
ChipInStep == on => \A setting \in Settings \ behind : chip[setting] = ram[setting]
=============================================================================
