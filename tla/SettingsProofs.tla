--------------------------- MODULE SettingsProofs ---------------------------
(* What the user sets.  The radio: what was saved is loaded, the values in   *)
(* RAM stay in range, and the chip keeps up, for every range of volumes and  *)
(* channels within the limits that Get_RData checks.  The date editor, for   *)
(* any range of years and any dates at which it is opened: between two keys  *)
(* every integer field displays what the date holds, and the date exists.    *)
EXTENDS RadioStore, DateEditor, TLAPS

(* A record reported as saved is whole in flash; a Save_RData that has erased *)
(* the sector has nothing saved until it has compared.                        *)
Kept == /\ saved # None => flash = Whole(saved)
        /\ saving \in {"copy", "compare"} => saved = None

RadioInv == RadioTypeOK /\ Kept /\ ChipInStep

LEMMA Ranges ==
    /\ 0 \in 0..MaxVol /\ 0 \in 0..MaxChan
    /\ \A v \in 0..MaxVol : v \in Nat /\ v <= 15
    /\ \A c \in 0..MaxChan : c \in Nat /\ c <= 1023
    /\ Default \in Record /\ None \notin Record
BY RadioStoreAssumption DEF RadioStoreAssumption, Default, Record, None, NoVol, NoChan

\* Whatever is in flash, what is loaded is in range.
LEMMA LoadedInRange ==
    ASSUME NEW f \in Stored
    PROVE  Loaded(f) \in Record
BY Ranges DEF Loaded, Valid, Stored, Record, NoVol, NoChan

LEMMA LoadedWhole ==
    ASSUME NEW r \in Record
    PROVE  Loaded(Whole(r)) = r
<1>1. Valid(Whole(r))
  BY Ranges DEF Valid, Whole, Record
<1> QED
  BY <1>1 DEF Loaded, Whole, Record

LEMMA PrefixStored ==
    ASSUME NEW r \in Record
    PROVE  Erased \in Stored /\ Whole(r) \in Stored /\ Prefixes(r) \subseteq Stored
<1>1. Erased \in Stored
  BY DEF Erased, Stored
<1>2. Whole(r) \in Stored
  BY DEF Whole, Record, Stored
<1>3. [Erased EXCEPT !.id = TRUE] \in Stored /\ [Whole(r) EXCEPT !.chan = NoChan] \in Stored
  BY DEF Erased, Whole, Record, Stored
<1> QED
  BY <1>1, <1>2, <1>3 DEF Prefixes

LEMMA RegistersOk ==
    ASSUME NEW r \in Record, NEW n \in 0..3
    PROVE  /\ Registers(r, n) \in [vol : (0..MaxVol) \cup {NoVol},
                                   chan : (0..MaxChan) \cup {NoChan}]
           /\ n = 3 => Registers(r, n) = r
           /\ n = 2 => Registers(r, n).chan = r.chan
BY DEF Registers, Record

LEMMA RadioInitially == RadioInit => RadioInv
<1> SUFFICES ASSUME RadioInit PROVE RadioInv
  OBVIOUS
<1>1. RadioTypeOK
  <2>1. Default \in Record /\ Erased \in Stored
    BY Ranges, PrefixStored
  <2>2. None \in [vol : (0..MaxVol) \cup {NoVol}, chan : (0..MaxChan) \cup {NoChan}]
    BY DEF None
  <2> QED
    BY <2>1, <2>2 DEF RadioInit, RadioTypeOK
<1>2. Kept /\ ChipInStep
  BY DEF RadioInit, Kept, ChipInStep
<1> QED
  BY <1>1, <1>2 DEF RadioInv

\* What ChipInStep says of each field.
VolInStep  == on /\ "vol" \notin behind => chip.vol = ram.vol
ChanInStep == on /\ "chan" \notin behind => chip.chan = ram.chan

LEMMA ByField ==
    /\ ChipInStep <=> VolInStep /\ ChanInStep
    /\ ChipInStep' <=> VolInStep' /\ ChanInStep'
<1>1. "vol" \in Settings /\ "chan" \in Settings /\ \A s \in Settings : s = "vol" \/ s = "chan"
  BY DEF Settings
<1> QED
  BY <1>1 DEF ChipInStep, VolInStep, ChanInStep

LEMMA BootKeeps == RadioInv /\ Boot => RadioInv'
<1> SUFFICES ASSUME RadioInv, Boot PROVE RadioInv'
  OBVIOUS
<1>0. PICK n \in 0..3 : /\ chip' = Registers(Loaded(flash), n)
                        /\ behind' = IF n < 2 THEN Settings ELSE IF n < 3 THEN {"vol"} ELSE {}
  BY Zenon DEF Boot
<1>1. Loaded(flash) \in Record /\ ram' = Loaded(flash)
  BY LoadedInRange DEF RadioInv, RadioTypeOK, Boot
<1>2. chip' \in [vol : (0..MaxVol) \cup {NoVol}, chan : (0..MaxChan) \cup {NoChan}]
  BY <1>0, <1>1, RegistersOk
<1>3. CASE n < 2
  <2>1. behind' = Settings
    BY <1>0, <1>3
  <2> QED
    BY <1>1, <1>2, <2>1, ByField
       DEF Boot, RadioInv, RadioTypeOK, Kept, VolInStep, ChanInStep, Settings
<1>4. CASE n = 2
  <2>1. behind' = {"vol"} /\ chip'.chan = ram'.chan
    BY <1>0, <1>1, <1>4, RegistersOk
  <2> QED
    BY <1>1, <1>2, <2>1, ByField
       DEF Boot, RadioInv, RadioTypeOK, Kept, VolInStep, ChanInStep, Settings
<1>5. CASE n = 3
  <2>1. behind' = {} /\ chip' = ram'
    BY <1>0, <1>1, <1>5, RegistersOk
  <2> QED
    BY <1>1, <1>2, <2>1, ByField
       DEF Boot, RadioInv, RadioTypeOK, Kept, VolInStep, ChanInStep, Settings
<1> QED
  BY <1>0, <1>3, <1>4, <1>5

LEMMA ChangeKeeps == RadioInv /\ (StepVolume \/ ShiftChannel) => RadioInv'
<1> SUFFICES ASSUME RadioInv, StepVolume \/ ShiftChannel PROVE RadioInv'
  OBVIOUS
<1>1. /\ ram \in Record /\ behind \subseteq Settings /\ VolInStep /\ ChanInStep
      /\ chip \in [vol : (0..MaxVol) \cup {NoVol}, chan : (0..MaxChan) \cup {NoChan}]
  BY ByField DEF RadioInv, RadioTypeOK
<1>2. ASSUME NEW new, Change(new), behind' \subseteq Settings, VolInStep', ChanInStep',
             chip' \in [vol : (0..MaxVol) \cup {NoVol}, chan : (0..MaxChan) \cup {NoChan}]
      PROVE  RadioInv'
  BY <1>2, ByField DEF Change, RadioInv, RadioTypeOK, Kept
<1>3. CASE StepVolume
  <2>1. PICK vol \in {ram.vol + 1, ram.vol - 1} :
           /\ Change([ram EXCEPT !.vol = vol])
           /\ \/ chip' = [chip EXCEPT !.vol = vol] /\ behind' = behind \ {"vol"}
              \/ UNCHANGED chip /\ behind' = behind \cup {"vol"}
    BY <1>3, Zenon DEF StepVolume
  <2>2. vol \in 0..MaxVol /\ ram' = [ram EXCEPT !.vol = vol] /\ on' = on
    BY <1>1, <2>1 DEF Change, Record
  <2>3. ram'.vol = vol /\ ram'.chan = ram.chan
    BY <1>1, <2>2 DEF Record
  <2>4. CASE chip' = [chip EXCEPT !.vol = vol] /\ behind' = behind \ {"vol"}
    BY <1>1, <1>2, <2>1, <2>2, <2>3, <2>4 DEF VolInStep, ChanInStep, Settings
  <2>5. CASE UNCHANGED chip /\ behind' = behind \cup {"vol"}
    BY <1>1, <1>2, <2>1, <2>2, <2>3, <2>5 DEF VolInStep, ChanInStep, Settings
  <2> QED
    BY <2>1, <2>4, <2>5
<1>4. CASE ShiftChannel
  <2>1. PICK chan \in {ram.chan + 1, ram.chan - 1} :
           /\ Change([ram EXCEPT !.chan = chan])
           /\ \/ chip' = [chip EXCEPT !.chan = chan] /\ behind' = behind \ {"chan"}
              \/ UNCHANGED chip /\ behind' = behind \cup {"chan"}
    BY <1>4, Zenon DEF ShiftChannel
  <2>2. chan \in 0..MaxChan /\ ram' = [ram EXCEPT !.chan = chan] /\ on' = on
    BY <1>1, <2>1 DEF Change, Record
  <2>3. ram'.chan = chan /\ ram'.vol = ram.vol
    BY <1>1, <2>2 DEF Record
  <2>4. CASE chip' = [chip EXCEPT !.chan = chan] /\ behind' = behind \ {"chan"}
    BY <1>1, <1>2, <2>1, <2>2, <2>3, <2>4 DEF VolInStep, ChanInStep, Settings
  <2>5. CASE UNCHANGED chip /\ behind' = behind \cup {"chan"}
    BY <1>1, <1>2, <2>1, <2>2, <2>3, <2>5 DEF VolInStep, ChanInStep, Settings
  <2> QED
    BY <2>1, <2>4, <2>5
<1> QED
  BY <1>3, <1>4

LEMMA SaveKeeps == RadioInv /\ (SaveMenu \/ DeleteFreq \/ DeleteVol) => RadioInv'
<1> SUFFICES ASSUME RadioInv, SaveMenu \/ DeleteFreq \/ DeleteVol PROVE RadioInv'
  OBVIOUS
<1>1. ram \in Record /\ behind \subseteq Settings /\ VolInStep /\ ChanInStep
  BY ByField DEF RadioInv, RadioTypeOK
<1>2. ASSUME NEW r \in Record, SaveRData(r), ram' \in Record, behind' \subseteq Settings,
             VolInStep', ChanInStep'
      PROVE  RadioInv'
  BY <1>2, ByField DEF SaveRData, Idle, RadioInv, RadioTypeOK, Kept
<1>3. CASE SaveMenu
  BY <1>1, <1>2, <1>3 DEF SaveMenu, SaveRData, VolInStep, ChanInStep
<1>4. CASE DeleteFreq
  <2>1. [ram EXCEPT !["chan"] = 0] \in Record /\ [ram EXCEPT !["chan"] = 0].vol = ram.vol
    BY <1>1, Ranges DEF Record
  <2>2. /\ SaveRData([ram EXCEPT !["chan"] = 0]) /\ ram' = [ram EXCEPT !["chan"] = 0]
        /\ behind' = behind \cup {"chan"} /\ on' = on /\ chip' = chip
    BY <1>4 DEF DeleteFreq, Delete, SaveRData
  <2> QED
    BY <1>1, <1>2, <2>1, <2>2 DEF VolInStep, ChanInStep, Settings
<1>5. CASE DeleteVol
  <2>1. [ram EXCEPT !["vol"] = 0] \in Record /\ [ram EXCEPT !["vol"] = 0].chan = ram.chan
    BY <1>1, Ranges DEF Record
  <2>2. /\ SaveRData([ram EXCEPT !["vol"] = 0]) /\ ram' = [ram EXCEPT !["vol"] = 0]
        /\ behind' = behind \cup {"vol"} /\ on' = on /\ chip' = chip
    BY <1>5 DEF DeleteVol, Delete, SaveRData
  <2> QED
    BY <1>1, <1>2, <2>1, <2>2 DEF VolInStep, ChanInStep, Settings
<1> QED
  BY <1>3, <1>4, <1>5

LEMMA FlashKeeps == RadioInv /\ (Erase \/ Copy \/ Compare \/ PowerLoss) => RadioInv'
<1> SUFFICES ASSUME RadioInv, Erase \/ Copy \/ Compare \/ PowerLoss PROVE RadioInv'
  OBVIOUS
<1>0. copy \in Record /\ Erased \in Stored /\ Prefixes(copy) \subseteq Stored
  BY PrefixStored DEF RadioInv, RadioTypeOK
<1> USE <1>0 DEF RadioInv, RadioTypeOK, Kept, ChipInStep, Iap
<1>1. CASE Erase
  BY <1>1 DEF Erase
<1>2. CASE Copy
  BY <1>2 DEF Copy
<1>3. CASE Compare
  BY <1>3 DEF Compare
<1>4. CASE PowerLoss
  BY <1>4 DEF PowerLoss
<1> QED
  BY <1>1, <1>2, <1>3, <1>4

LEMMA Inductive == RadioSpec => []RadioInv
<1>1. RadioInv /\ [RadioNext]_radioVars => RadioInv'
  <2> SUFFICES ASSUME RadioInv, [RadioNext]_radioVars PROVE RadioInv'
    OBVIOUS
  <2>1. CASE UNCHANGED radioVars
    BY <2>1 DEF RadioInv, RadioTypeOK, Kept, ChipInStep, radioVars
  <2> QED
    BY <2>1, BootKeeps, ChangeKeeps, SaveKeeps, FlashKeeps DEF RadioNext
<1> QED
  BY RadioInitially, <1>1, PTL DEF RadioSpec

(* radio_data is always in range, also when it is loaded from what a power   *)
(* failure left in flash.                                                    *)
THEOREM RadioTypeCorrect == RadioSpec => []RadioTypeOK
<1>1. RadioInv => RadioTypeOK
  BY DEF RadioInv
<1> QED
  BY Inductive, <1>1, PTL

(* Of each field, the chip plays what radio_data says unless the last write  *)
(* to its register failed or it was deleted since.                           *)
THEOREM ChipFollows == RadioSpec => []ChipInStep
<1>1. RadioInv => ChipInStep
  BY DEF RadioInv
<1> QED
  BY Inductive, <1>1, PTL

(* What Save_RData reported as saved is what the next start loads, whatever  *)
(* saves failed or were cut short by a power failure before.                 *)
THEOREM SavesSurvive == RadioSpec => SavedSurvives
<1>1. RadioInv /\ [RadioNext]_radioVars => [Boot /\ saved # None => ram' = saved]_radioVars
  <2> SUFFICES ASSUME RadioInv, Boot, saved # None PROVE ram' = saved
    OBVIOUS
  <2>1. saved \in Record /\ flash = Whole(saved)
    BY DEF RadioInv, RadioTypeOK, Kept
  <2> QED
    BY <2>1, LoadedWhole DEF Boot
<1> QED
  BY Inductive, <1>1, PTL DEF RadioSpec, SavedSurvives
-----------------------------------------------------------------------------
InStep == IF open
          THEN /\ Real(date) /\ display = date
               /\ lastDay \in 28..31
          ELSE date = Blank /\ display = Blank /\ lastDay = 0

Inv == /\ open \in BOOLEAN /\ Real(rtc)
       /\ field \in 1..4 /\ index \in 0..Last(field)
       /\ InStep
-----------------------------------------------------------------------------
\* The length of a month, and what it depends on.
LEMMA MonthLength == ASSUME NEW d PROVE MaxDom(d) \in 28..31
BY DEF MaxDom

LEMMA SameMonth ==
    ASSUME NEW d, NEW e, d["mon"] = e["mon"], d["year"] = e["year"]
    PROVE  MaxDom(d) = MaxDom(e)
BY DEF MaxDom

\* The names of the fields.
LEMMA ActiveIsField == field \in 1..4 => Active \in Fields
BY DEF Active, Order, Fields

LEMMA LastDigit == \A f \in 1..4 : Last(f) = (CASE f = 2 -> 1 [] f = 4 -> 3 [] OTHER -> 0)
BY DEF Last, Digits, Order

LEMMA FirstPlace == 0 \in 0..Last(1)
BY LastDigit

\* A real date has values of the kind that TypeOK asks for.
LEMMA RealIsDate == ASSUME NEW d, Real(d) PROVE d \in [Fields -> Nat]
BY DEF Real

\* A value within its limits is not clamped.
LEMMA ClampsNothing ==
    ASSUME NEW lo \in Int, NEW hi \in Int, NEW v \in lo..hi
    PROVE  Clamp(v, lo, hi) = v
BY DEF Clamp

LEMMA YearFits ==
    ASSUME NEW y \in FirstYear..LastYear PROVE Clamp(y + 1900, 0, 4095) - 1900 = y
<1>1. FirstYear \in Nat /\ LastYear \in FirstYear..2195
  BY DateEditorAssumption DEF DateEditorAssumption
<1>2. y \in Int /\ y + 1900 \in 0..4095
  BY <1>1
<1>3. Clamp(y + 1900, 0, 4095) = y + 1900
  BY <1>2, ClampsNothing
<1> QED
  BY <1>2, <1>3

\* The RTC driver leaves a real date as it is.
LEMMA SetsReal == ASSUME NEW d, Real(d), Set(d) PROVE rtc' = d
<1>1. /\ d["mday"] \in 1..MaxDom(d) /\ d["wday"] \in 0..6
      /\ d["mon"] \in 0..11 /\ d["year"] \in FirstYear..LastYear
  BY DEF Real
<1>2. MaxDom(d) \in Int
  BY MonthLength
<1>3. d \in [Fields -> Nat]
  BY DEF Real
<1>4. Clamp(d["mday"], 1, MaxDom(d)) = d["mday"]
  BY <1>1, <1>2, ClampsNothing
<1>5. Clamp(d["wday"], 0, 6) = d["wday"]
  BY <1>1, ClampsNothing
<1>6. Clamp(d["mon"], 0, 11) = d["mon"]
  BY <1>1, ClampsNothing
<1>7. Clamp(d["year"] + 1900, 0, 4095) - 1900 = d["year"]
  BY <1>1, YearFits
<1> DEFINE day   == Clamp(d["mday"], 1, MaxDom(d))
           wday  == Clamp(d["wday"], 0, 6)
           month == Clamp(d["mon"], 0, 11)
           year  == Clamp(d["year"] + 1900, 0, 4095) - 1900
<1>8. rtc' = [d EXCEPT !["mday"] = day, !["wday"] = wday, !["mon"] = month, !["year"] = year]
  BY ONLY Set(d) DEF Set
<1>9. day = d["mday"] /\ wday = d["wday"] /\ month = d["mon"] /\ year = d["year"]
  BY <1>4, <1>5, <1>6, <1>7
<1> HIDE DEF day, wday, month, year
<1> QED
  BY <1>3, <1>8, <1>9
-----------------------------------------------------------------------------
\* Where the cursor goes is a digit of a field.
LEMMA CursorStays ==
    ASSUME field \in 1..4, index \in 0..Last(field), NEW right \in BOOLEAN
    PROVE  /\ Moved(field, index, right)[1] \in 1..4
           /\ Moved(field, index, right)[2] \in 0..Last(Moved(field, index, right)[1])
<1>1. \A f \in 1..4 : Last(f) = (CASE f = 2 -> 1 [] f = 4 -> 3 [] OTHER -> 0)
  BY LastDigit
<1>2. NextField(field, right) \in 1..4
  BY DEF NextField
<1>3. NextDigit(field, index, right) \in 0..Last(field)
  BY <1>1 DEF NextDigit
<1> QED
  BY <1>1, <1>2, <1>3 DEF Moved

\* A key that steps the active field leaves an existing date, and every field
\* displays it.
LEMMA StepKeeps ==
    ASSUME Inv, NEW up \in BOOLEAN, Step(up)
    PROVE  Real(date)' /\ display' = date'
<1> DEFINE v == Stepped(up)
           d == [date EXCEPT ![Active] = v]
<1>1. open /\ Real(date) /\ display = date /\ lastDay \in 28..31 /\ date \in [Fields -> Nat]
  BY DEF Inv, InStep, Step, Real
<1>2. Active \in Fields
  BY ActiveIsField DEF Inv
<1>3. v \in Lowest(Active)..Highest(Active) /\ Limited(d)
  BY DEF Step
<1>4. v \in Nat
  BY <1>1, <1>2, <1>3, DateEditorAssumption DEF DateEditorAssumption, Lowest, Highest, Fields
<1>5. d \in [Fields -> Nat]
  BY <1>1, <1>2, <1>4
<1>6. /\ d["wday"] \in 0..6 /\ d["mon"] \in 0..11
      /\ d["year"] \in FirstYear..LastYear /\ d["mday"] \in 1..31
  BY <1>1, <1>2, <1>3, MonthLength DEF Real, Lowest, Highest, Fields
<1> HIDE DEF v, d
<1> DEFINE day == IF d["mday"] > MaxDom(d) THEN MaxDom(d) ELSE d["mday"]
<1>7. MaxDom(d) \in 28..31
  BY MonthLength
<1>8. day \in 1..MaxDom(d) /\ day \in Nat
  BY <1>6, <1>7
<1>9. date' = [d EXCEPT !["mday"] = day]
  BY <1>3 DEF Limited
<1>10. MaxDom(date') = MaxDom(d)
  BY <1>5, <1>9, SameMonth DEF Fields
<1>11. Real(date)'
  BY <1>5, <1>6, <1>8, <1>9, <1>10 DEF Real, Fields
<1>12. display' = date'
  BY <1>1, <1>2, <1>3, <1>4, <1>5, <1>8, <1>9 DEF Limited, Fields, d
<1> QED
  BY <1>11, <1>12
-----------------------------------------------------------------------------
\* The day after a date that exists exists.
LEMMA NextDayIsReal == ASSUME Inv, NextDay PROVE Real(rtc)'
<1>1. /\ Real(rtc) /\ rtc \in [Fields -> Nat]
      /\ rtc["mday"] \in 1..MaxDom(rtc) /\ rtc["wday"] \in 0..6
      /\ rtc["mon"] \in 0..11 /\ rtc["year"] \in FirstYear..LastYear /\ rtc["year"] < LastYear
  BY DEF Inv, Real, NextDay
<1>2. MaxDom(rtc) \in 28..31 /\ MaxDom(rtc') \in 28..31
  BY MonthLength
<1>3. FirstYear \in Nat /\ LastYear \in Nat
  BY DateEditorAssumption DEF DateEditorAssumption
<1>4. (rtc["wday"] + 1) % 7 \in 0..6
  BY <1>1
<1>5. CASE rtc["mday"] < MaxDom(rtc)
  <2>1. rtc' = [rtc EXCEPT !["wday"] = (@ + 1) % 7, !["mday"] = @ + 1]
    BY <1>1, <1>5 DEF NextDay, Fields
  <2>2. MaxDom(rtc') = MaxDom(rtc)
    BY <1>1, <2>1, SameMonth DEF Fields
  <2> QED
    BY <1>1, <1>2, <1>4, <1>5, <2>1, <2>2 DEF Real, Fields
<1>6. CASE ~(rtc["mday"] < MaxDom(rtc)) /\ rtc["mon"] < 11
  <2>1. rtc' = [rtc EXCEPT !["wday"] = (@ + 1) % 7, !["mday"] = 1, !["mon"] = @ + 1]
    BY <1>1, <1>6 DEF NextDay, Fields
  <2> QED
    BY <1>1, <1>2, <1>4, <1>6, <2>1 DEF Real, Fields
<1>7. CASE ~(rtc["mday"] < MaxDom(rtc)) /\ ~(rtc["mon"] < 11)
  <2>1. rtc' = [rtc EXCEPT !["wday"] = (@ + 1) % 7, !["mday"] = 1, !["mon"] = 0,
                           !["year"] = @ + 1]
    BY <1>1, <1>7 DEF NextDay, Fields
  <2> QED
    BY <1>1, <1>2, <1>3, <1>4, <2>1 DEF Real, Fields
<1> QED
  BY <1>5, <1>6, <1>7
-----------------------------------------------------------------------------
LEMMA InitInv == Init => Inv
<1> SUFFICES ASSUME Init PROVE Inv
  OBVIOUS
<1>1. Real(rtc)
  BY DateEditorAssumption DEF DateEditorAssumption, Init
<1>2. field = 1 /\ index = 0
  BY DEF Init
<1>3. InStep /\ open \in BOOLEAN
  BY DEF Init, InStep
<1>4. index \in 0..Last(field)
  BY <1>2, FirstPlace
<1> QED
  BY <1>1, <1>2, <1>3, <1>4 DEF Inv

LEMMA ShiftKeeps ==
    ASSUME Inv, NEW right \in BOOLEAN, Shift(right)
    PROVE  Real(date)' /\ display' = date'
<1>1. Real(date) /\ display = date /\ date \in [Fields -> Nat] /\ Active \in Fields
  BY ActiveIsField DEF Inv, InStep, Shift, Real
<1>2. date' = date
  BY <1>1 DEF Shift
<1> QED
  BY <1>1, <1>2 DEF Shift

\* The editor is closed with nothing in it.
LEMMA Closes ==
    ASSUME Close PROVE open' \in BOOLEAN /\ field' \in 1..4 /\ (index \in 0..Last(field))' /\ InStep'
<1>1. open' = FALSE /\ date' = Blank /\ display' = Blank /\ lastDay' = 0
  BY DEF Close
<1>2. field' = 1 /\ index' = 0
  BY DEF Close
<1>3. InStep'
  BY <1>1 DEF InStep, Blank
<1>4. (index \in 0..Last(field))'
  BY <1>2, FirstPlace DEF Last, Order, Digits
<1>5. open' \in BOOLEAN
  BY <1>1
<1>6. field' \in 1..4
  BY <1>2
<1> QED
  BY <1>3, <1>4, <1>5, <1>6, Zenon

LEMMA StepInv == Inv /\ [Next]_vars => Inv'
<1> SUFFICES ASSUME Inv, [Next]_vars PROVE Inv'
  OBVIOUS
<1> USE DEF Inv
<1>1. CASE Open
  <2>1. Real(rtc) /\ MaxDom(rtc) \in 28..31
    BY MonthLength
  <2> QED
    BY <1>1, <2>1, LastDigit DEF Open, InStep
<1>2. CASE Save
  <2>1. open /\ Real(date) /\ display = date /\ display \in [Fields -> Nat]
    BY <1>2 DEF Save, Close, InStep, Real
  <2>2. [f \in Fields |-> display[f]] = display
    BY <2>1
  <2>3. rtc' = display
    BY <1>2, <2>1, <2>2, SetsReal DEF Save
  <2> QED
    BY <1>2, <2>1, <2>3, Closes DEF Save
<1>3. CASE Cancel
  BY <1>3, Closes DEF Cancel
<1>4. CASE Sync
  <2>1. PICK d \in Starts : Set(d)
    BY <1>4 DEF Sync
  <2>2. rtc' = d /\ Real(d)
    BY <2>1, SetsReal, DateEditorAssumption DEF DateEditorAssumption
  <2> QED
    BY <1>4, <2>2 DEF Sync, editor, InStep
<1>5. CASE NextDay
  BY <1>5, NextDayIsReal DEF NextDay, editor, InStep
<1>6. ASSUME NEW up \in BOOLEAN, Step(up) PROVE Inv'
  <2>1. Real(date)' /\ display' = date'
    BY <1>6, StepKeeps
  <2> QED
    BY <1>6, <2>1 DEF Step, InStep
<1>7. ASSUME NEW right \in BOOLEAN, Shift(right) PROVE Inv'
  <2>1. Real(date)' /\ display' = date'
    BY <1>7, ShiftKeeps
  <2>2. field' \in 1..4 /\ (index \in 0..Last(field))'
    BY <1>7, CursorStays DEF Shift
  <2> QED
    BY <1>7, <2>1, <2>2 DEF Shift, InStep
<1>8. CASE UNCHANGED vars
  BY <1>8 DEF vars, editor, InStep
<1> QED
  BY <1>1, <1>2, <1>3, <1>4, <1>5, <1>6, <1>7, <1>8 DEF Next

LEMMA Invariance == Spec => []Inv
<1>1. Init => Inv
  BY InitInv
<1>2. Inv /\ [Next]_vars => Inv'
  BY StepInv
<1> QED
  BY <1>1, <1>2, PTL DEF Spec
-----------------------------------------------------------------------------
\* What the screen shows while the invariant holds is the date itself.
LEMMA ShownIsDate == Inv /\ open => Shown = date /\ Real(date)
<1> SUFFICES ASSUME Inv, open PROVE Shown = date /\ Real(date)
  OBVIOUS
<1>1. Real(date) /\ display = date /\ date \in [Fields -> Nat] /\ Active \in Fields
  BY ActiveIsField DEF Inv, InStep, Real
<1> QED
  BY <1>1 DEF Shown

\* The variables of the editor are well typed: DateField.c and IntField.c.
THEOREM TypeCorrect == Spec => []TypeOK
<1>1. Inv => TypeOK
  <2> SUFFICES ASSUME Inv PROVE TypeOK
    OBVIOUS
  <2>1. Blank \in [Fields -> Nat] /\ rtc \in [Fields -> Nat]
    BY DEF Blank, Inv, Real
  <2>2. date \in [Fields -> Nat] /\ display \in [Fields -> Nat] /\ lastDay \in 0..31
    BY <2>1 DEF Inv, InStep, Real
  <2> QED
    BY <2>1, <2>2 DEF TypeOK, Inv
<1> QED
  BY <1>1, Invariance, PTL

\* Whatever keys are pressed, in whatever order, date_render shows a date that
\* exists (date_step, DateField.c).
THEOREM ShownDatesExist == Spec => []ShownIsReal
<1>1. Inv => ShownIsReal
  BY ShownIsDate DEF ShownIsReal
<1> QED
  BY <1>1, Invariance, PTL

\* date_save hands the RTC the date that date_render showed, and RTC_SetTimeDate
\* writes it unchanged.
THEOREM SavesWhatItShows == Spec => SavedAsShown
<1>1. Inv /\ [Next]_vars => [Save => rtc' = Shown]_vars
  <2> SUFFICES ASSUME Inv, Save PROVE rtc' = Shown
    OBVIOUS
  <2>1. open /\ Shown = date /\ Real(date)
    BY ShownIsDate DEF Save, Close
  <2>2. display = date /\ display \in [Fields -> Nat]
    BY <2>1 DEF Inv, InStep, Real
  <2>3. [f \in Fields |-> display[f]] = display
    BY <2>2
  <2> QED
    BY <2>1, <2>2, <2>3, SetsReal DEF Save
<1> QED
  BY <1>1, Invariance, PTL DEF Spec, SavedAsShown
-----------------------------------------------------------------------------
\* date_shift and int_shift on a cursor that is on a digit.
LEMMA MovedRight ==
    ASSUME NEW f \in 1..4, NEW i \in 0..Last(f), NEW right \in BOOLEAN, right
    PROVE  Moved(f, i, right) = IF i = Last(f) THEN <<NextField(f, right), 0>> ELSE <<f, i + 1>>
<1>1. Last(f) \in Nat /\ i \in Nat /\ i <= Last(f)
  BY LastDigit
<1>2. NextDigit(f, i, right) = IF i = Last(f) THEN 0 ELSE i + 1
  BY <1>1 DEF NextDigit
<1>3. CASE i = Last(f)
  <2>1. Leaves(f, i, right)
    BY <1>2, <1>3 DEF Leaves
  <2> QED
    BY <1>3, <2>1 DEF Moved
<1>4. CASE i # Last(f)
  <2>1. ~Leaves(f, i, right)
    <3>1. NextDigit(f, i, right) = i + 1
      BY <1>2, <1>4, Zenon
    <3>2. i + 1 # 0
      BY <1>1
    <3> QED
      BY <3>1, <3>2, Zenon DEF Leaves
  <2> QED
    BY <1>2, <1>4, <2>1 DEF Moved
<1> QED
  BY <1>3, <1>4

LEMMA MovedLeft ==
    ASSUME NEW f \in 1..4, NEW i \in 0..Last(f), NEW right \in BOOLEAN, ~right
    PROVE  Moved(f, i, right) = IF i = 0 THEN <<NextField(f, right), Last(NextField(f, right))>>
                                         ELSE <<f, i - 1>>
<1>1. Last(f) \in Nat /\ i \in Nat /\ i <= Last(f)
  BY LastDigit
<1>2. NextDigit(f, i, right) = IF i = 0 THEN Last(f) ELSE i - 1
  BY <1>1 DEF NextDigit
<1> QED
  BY <1>1, <1>2 DEF Moved, Leaves

LEMMA NextFieldBack ==
    ASSUME NEW f \in 1..4, NEW right \in BOOLEAN, NEW back \in BOOLEAN, back # right
    PROVE  NextField(f, right) \in 1..4 /\ NextField(NextField(f, right), back) = f
BY DEF NextField

LEMMA ShiftBack ==
    ASSUME NEW f \in 1..4, NEW i \in 0..Last(f),
           NEW right \in BOOLEAN, NEW back \in BOOLEAN, back # right
    PROVE  Moved(Moved(f, i, right)[1], Moved(f, i, right)[2], back) = <<f, i>>
<1> DEFINE g == NextField(f, right)
<1>1. \A h \in 1..4 : Last(h) \in Nat
  BY LastDigit
<1>2. g \in 1..4 /\ NextField(g, back) = f
  BY NextFieldBack
<1>3. 0 \in 0..Last(g) /\ Last(g) \in 0..Last(g)
  BY <1>1, <1>2
<1>4. CASE right
  <2>1. CASE i = Last(f)
    <3>1. Moved(f, i, right) = <<g, 0>>
      BY <1>4, <2>1, MovedRight
    <3>2. Moved(g, 0, back) = <<f, i>>
      <4> HIDE DEF g
      <4> QED
        BY <1>2, <1>3, <1>4, <2>1, MovedLeft
    <3> QED
      BY <3>1, <3>2
  <2>2. CASE i # Last(f)
    <3>1. i + 1 \in 0..Last(f) /\ i + 1 # 0 /\ (i + 1) - 1 = i
      BY <1>1, <2>2
    <3>2. Moved(f, i, right) = <<f, i + 1>>
      BY <1>4, <2>2, MovedRight
    <3>3. Moved(f, i + 1, back) = <<f, i>>
      BY <1>4, <3>1, MovedLeft
    <3> QED
      BY <3>2, <3>3
  <2> QED
    BY <2>1, <2>2
<1>5. CASE ~right
  <2>1. CASE i = 0
    <3>1. Moved(f, i, right) = <<g, Last(g)>>
      BY <1>5, <2>1, MovedLeft
    <3>2. Moved(g, Last(g), back) = <<f, i>>
      <4> HIDE DEF g
      <4> QED
        BY <1>2, <1>3, <1>5, <2>1, MovedRight
    <3> QED
      BY <3>1, <3>2
  <2>2. CASE i # 0
    <3>1. i - 1 \in 0..Last(f) /\ i - 1 # Last(f)
      BY <1>1, <2>2
    <3>2. Moved(f, i, right) = <<f, i - 1>>
      BY <1>5, <2>2, MovedLeft
    <3>3. Moved(f, i - 1, back) = <<f, i>>
      BY <1>1, <1>5, <3>1, MovedRight
    <3> QED
      BY <3>2, <3>3
  <2> QED
    BY <2>1, <2>2
<1> QED
  BY <1>4, <1>5

\* RIGHT and LEFT undo each other wherever the keys have led the cursor: no digit
\* is entered from one side only.
THEOREM ShiftsUndo == Spec => []ShiftsAreInverse
<1>1. Inv => ShiftsAreInverse
  <2> SUFFICES ASSUME Inv, NEW right \in BOOLEAN
               PROVE  LET there == Moved(field, index, right)
                      IN  Moved(there[1], there[2], ~right) = <<field, index>>
    BY Zenon DEF ShiftsAreInverse
  <2>1. field \in 1..4 /\ index \in 0..Last(field)
    BY DEF Inv
  <2>2. (~right) \in BOOLEAN /\ (~right) # right
    OBVIOUS
  <2> QED
    BY Zenon, <2>1, <2>2, ShiftBack
<1> QED
  BY <1>1, Invariance, PTL
=============================================================================
