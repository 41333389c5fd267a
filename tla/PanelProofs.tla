----------------------------- MODULE PanelProofs -----------------------------
(* What Panel shows is proved for every length of the display queue.         *)
(*                                                                           *)
(* The argument: what a screen draws is looked at as a whole, from the LCD   *)
(* as it will be when all that was sent has been carried out.  Sending one   *)
(* item more, and carrying one out, does not change what will be drawn in    *)
(* the end (SendStep and ManagerStep of DisplayProofs).                      *)
EXTENDS Panel, DisplayProofs

LEMMA EntryFacts ==
    /\ Len(Entries) = 6 /\ Chosen = {"Calendar", "Clock", "DelFreq", "DelVolume", "Sync", "Connect"}
    /\ \A e \in Chosen : e \in CharNames /\ Names[e] \in 10..13
    /\ \A i \in 0..5 : /\ EntryAt(i) \in Chosen
                       /\ After(i) = (i + 1) % 6 /\ After(i) \in 0..5
<1>1. Len(Entries) = 6 /\ DOMAIN Entries = 1..6
  BY DEF Entries
<1>2. Chosen = {"Calendar", "Clock", "DelFreq", "DelVolume", "Sync", "Connect"}
  <2>1. \A i \in 1..6 : i = 1 \/ i = 2 \/ i = 3 \/ i = 4 \/ i = 5 \/ i = 6
    OBVIOUS
  <2>2. /\ Entries[1] = "Calendar" /\ Entries[2] = "Clock" /\ Entries[3] = "DelFreq"
        /\ Entries[4] = "DelVolume" /\ Entries[5] = "Sync" /\ Entries[6] = "Connect"
    BY DEF Entries
  <2>3. 1 \in 1..6 /\ 2 \in 1..6 /\ 3 \in 1..6 /\ 4 \in 1..6 /\ 5 \in 1..6 /\ 6 \in 1..6
    OBVIOUS
  <2>4. Chosen = {Entries[i] : i \in 1..6}
    BY <1>1 DEF Chosen
  <2>5. \A x : x \in Chosen <=> x \in {"Calendar", "Clock", "DelFreq", "DelVolume", "Sync", "Connect"}
    <3>1. \A x : x \in Chosen <=> \E i \in 1..6 : x = Entries[i]
      BY <2>4
    <3>2. ASSUME NEW x, x \in Chosen
          PROVE  x \in {"Calendar", "Clock", "DelFreq", "DelVolume", "Sync", "Connect"}
      <4>1. PICK i \in 1..6 : x = Entries[i]
        BY <3>1, <3>2
      <4>2. x = Entries[1] \/ x = Entries[2] \/ x = Entries[3] \/ x = Entries[4] \/ x = Entries[5] \/ x = Entries[6]
        BY <2>1, <4>1, Zenon
      <4> QED
        BY <2>2, <4>2, Zenon
    <3>3. ASSUME NEW x, x \in {"Calendar", "Clock", "DelFreq", "DelVolume", "Sync", "Connect"}
          PROVE  x \in Chosen
      BY <2>2, <2>3, <3>1, <3>3, Zenon
    <3> QED
      BY <3>2, <3>3
  <2> QED
    BY <2>5
<1>3. \A e \in Chosen : e \in CharNames /\ Names[e] \in 10..13
  <2>1. /\ Names["Calendar"] = 13 /\ Names["Clock"] = 10 /\ Names["DelFreq"] = 10
        /\ Names["DelVolume"] = 11 /\ Names["Sync"] = 10 /\ Names["Connect"] = 12
    BY DEF Names
  <2>2. \A e \in Chosen : Names[e] \in {10, 11, 12, 13}
    BY <1>2, <2>1, Zenon
  <2>3. \A n \in {10, 11, 12, 13} : n \in 10..13
    OBVIOUS
  <2>4. \A e \in Chosen : e \in CharNames
    BY <1>2 DEF CharNames
  <2> QED
    BY <2>2, <2>3, <2>4
<1>4. \A i \in 0..5 : EntryAt(i) \in Chosen
  BY <1>1 DEF EntryAt, Chosen
<1>5. \A i \in 0..5 : After(i) = (i + 1) % 6 /\ After(i) \in 0..5
  BY <1>1 DEF After
<1> QED
  BY <1>1, <1>2, <1>3, <1>4, <1>5
-----------------------------------------------------------------------------
\* What each screen draws, on whatever the LCD shows.
LEMMA SetupDrawn ==
    ASSUME NEW l \in LCDs, NEW b \in BOOLEAN, NEW m, m = Drawn(l, LcdSetup(b))
    PROVE  m \in LCDs /\ m.blink = b /\ m.cells = Cleared /\ LcdSetup(b) \in Seq(Items)
<1> DEFINE items == LcdSetup(b)
           a == AfterItems(l, items)
<1>1. Len(items) = 2 /\ items[1] = WRITE_CMD(b) /\ items[2] = CLEAR /\ items \in Seq(Items)
  BY ItemTypes DEF LcdSetup
<1> HIDE DEF items
<1>2. a[0] = l /\ a[1] = Obey(a[0], items[1]) /\ a[2] = Obey(a[1], items[2])
  <2>1. a[0] = l /\ \A i \in 1..Len(items) : a[i] = Obey(a[i - 1], items[i])
    <3>1. Len(items) \in Nat
      BY <1>1
    <3> QED
      BY <3>1, AfterEach
  <2> HIDE DEF a
  <2> QED
    BY <1>1, <2>1
<1>3. m = a[2]
  BY <1>1 DEF Drawn, items
<1> HIDE DEF a
<1>4. a[1] \in LCDs /\ a[1].blink = b
  BY <1>1, <1>2, ObeyBlink
<1>5. m \in LCDs /\ m.cells = Cleared /\ m.blink = b
  BY <1>1, <1>2, <1>3, <1>4, ObeyClear
<1> QED
  BY <1>1, <1>5 DEF items

LEMMA MainTextTypes ==
    \A w : \A t \in MainTexts(w) : t \in Seq(Chars)
<1> SUFFICES ASSUME NEW w, NEW t \in MainTexts(w) PROVE t \in Seq(Chars)
  OBVIOUS
<1>1. {"main", "unspecified"} \subseteq CharKinds /\ "none" \in CharNames
  BY DEF CharKinds, CharNames
<1>2. PICK kind \in CharKinds, n \in Nat : t = Text(kind, "none", n)
  BY <1>1, LeftoversAssumption DEF MainTexts, MainText, Unspecified
<1> QED
  BY <1>1, <1>2, TextType

LEMMA MainDrawn ==
    ASSUME NEW l \in LCDs, NEW w, NEW t \in MainTexts(w), NEW m, m = Drawn(l, MainRender(t))
    PROVE  /\ m \in LCDs /\ MainRender(t) \in Seq(Items)
           /\ OnlyTexts(m, {t}) /\ (t = MainText => Visible(m, 0, 0, t))
<1> DEFINE items == MainRender(t)
           a == AfterItems(l, items)
<1>0. t \in Seq(Chars) /\ "main" \in CharKinds /\ "none" \in CharNames /\ MainText = Text("main", "none", 32)
  BY MainTextTypes DEF CharKinds, CharNames, MainText
<1>1. /\ Len(items) = 3 /\ items[1] = CLEAR /\ items[2] = CURSOR_SET(0, 0)
      /\ items[3] = WRITE_STR(t) /\ items \in Seq(Items)
  <2>1. CLEAR \in Items /\ CURSOR_SET(0, 0) \in Items /\ WRITE_STR(t) \in Items
    BY <1>0, ItemTypes
  <2> QED
    BY <2>1 DEF MainRender
<1> HIDE DEF items
<1>2. a[0] = l /\ a[1] = Obey(a[0], items[1]) /\ a[2] = Obey(a[1], items[2]) /\ a[3] = Obey(a[2], items[3])
  <2>1. a[0] = l /\ \A i \in 1..Len(items) : a[i] = Obey(a[i - 1], items[i])
    <3>1. Len(items) \in Nat
      BY <1>1
    <3> QED
      BY <3>1, AfterEach
  <2> HIDE DEF a
  <2> QED
    BY <1>1, <2>1
<1>3. m = a[3]
  BY <1>1 DEF Drawn, items
<1> HIDE DEF a
<1>4. a[1] \in LCDs /\ OnlyTexts(a[1], {})
  BY <1>1, <1>2, ObeyClear
<1>5. a[2] \in LCDs /\ a[2].cells = a[1].cells /\ a[2].cursor = <<0, 0>>
  BY <1>1, <1>2, <1>4, ObeyCursor
<1>6. OnlyTexts(a[2], {})
  BY <1>4, <1>5 DEF OnlyTexts
<1>7. m = WriteString(a[2], t)
  BY <1>1, <1>2, <1>3, ObeyText
<1>8. m \in LCDs
  BY <1>0, <1>5, <1>7, WriteStringType
<1>9. ASSUME t = MainText PROVE Visible(m, 0, 0, t)
  <2>1. 0 \in 0..1 /\ 0 \in 0..15 /\ 32 \in Nat /\ HasRoom(0, 0, 32)
    BY DEF HasRoom
  <2>2. WrittenAt(a[2], 0, 0, 32, t, m)
    BY <1>0, <1>5, <1>7, <1>9, <2>1, TextWritten
  <2> QED
    BY <2>2 DEF WrittenAt
<1>10. OnlyTexts(m, {t})
  <2>1. {} \cup {t} = {t}
    OBVIOUS
  <2> QED
    BY <1>0, <1>5, <1>6, <1>7, <2>1, WrittenTexts
<1> QED
  BY <1>1, <1>8, <1>9, <1>10 DEF items

\* The texts of the list, and where they go.
LEMMA ListTexts ==
    ASSUME NEW e \in Chosen, NEW kind \in {"selected", "unselected"}, NEW t,
           t = Text(kind, e, 2 + Names[e])
    PROVE  /\ t \in Seq(Chars) /\ kind \in CharKinds /\ e \in CharNames /\ 2 + Names[e] \in 12..15
<1>1. e \in CharNames /\ Names[e] \in 10..13
  BY EntryFacts
<1>2. 2 + Names[e] \in 12..15 /\ 2 + Names[e] \in Nat
  BY <1>1
<1>3. kind \in CharKinds
  BY DEF CharKinds
<1> QED
  BY <1>1, <1>2, <1>3, TextType

LEMMA SpinnerDrawn ==
    ASSUME NEW l \in LCDs, NEW i \in 0..5, NEW m, m = Drawn(l, SpinnerRender(i))
    PROVE  /\ m \in LCDs /\ SpinnerRender(i) \in Seq(Items) /\ m.blink = l.blink
           /\ Visible(m, 0, 1, Selected(i)) /\ Visible(m, 1, 1, Unselected(After(i)))
           /\ OnlyTexts(m, {Selected(i), Unselected(After(i))})
<1> DEFINE items == SpinnerRender(i)
           a == AfterItems(l, items)
           e == EntryAt(i)
           f == EntryAt(After(i))
           p == 2 + Names[e]
           q == 2 + Names[f]
           s == Selected(i)
           u == Unselected(After(i))
<1>0. e \in Chosen /\ f \in Chosen
  BY EntryFacts
<1>1. s = Text("selected", e, p) /\ u = Text("unselected", f, q)
  BY DEF Selected, Unselected
<1> HIDE DEF e, f
<1>2. /\ s \in Seq(Chars) /\ "selected" \in CharKinds /\ e \in CharNames /\ p \in 12..15
      /\ u \in Seq(Chars) /\ "unselected" \in CharKinds /\ f \in CharNames /\ q \in 12..15
  <2> HIDE DEF s, u
  <2> QED
    BY <1>0, <1>1, ListTexts
<1>3. /\ Len(items) = 5 /\ items[1] = CLEAR /\ items[2] = CURSOR_SET(0, 1) /\ items[3] = WRITE_STR(s)
      /\ items[4] = CURSOR_SET(1, 1) /\ items[5] = WRITE_STR(u) /\ items \in Seq(Items)
  <2>1. /\ CLEAR \in Items /\ CURSOR_SET(0, 1) \in Items /\ WRITE_STR(s) \in Items
        /\ CURSOR_SET(1, 1) \in Items /\ WRITE_STR(u) \in Items
    BY <1>2, ItemTypes
  <2> QED
    BY <2>1 DEF SpinnerRender
<1> HIDE DEF items, s, u, p, q
<1>4. /\ a[0] = l /\ a[1] = Obey(a[0], items[1]) /\ a[2] = Obey(a[1], items[2])
      /\ a[3] = Obey(a[2], items[3]) /\ a[4] = Obey(a[3], items[4]) /\ a[5] = Obey(a[4], items[5])
  <2>1. a[0] = l /\ \A n \in 1..Len(items) : a[n] = Obey(a[n - 1], items[n])
    <3>1. Len(items) \in Nat
      BY <1>3
    <3> QED
      BY <3>1, AfterEach
  <2> HIDE DEF a
  <2> QED
    BY <1>3, <2>1
<1>5. m = a[5]
  BY <1>3 DEF Drawn, items
<1> HIDE DEF a
<1>6. a[1] \in LCDs /\ OnlyTexts(a[1], {}) /\ a[1].blink = l.blink
  BY <1>3, <1>4, ObeyClear
<1>7. a[2] \in LCDs /\ a[2].cells = a[1].cells /\ a[2].cursor = <<0, 1>> /\ a[2].blink = l.blink
  BY <1>3, <1>4, <1>6, ObeyCursor
<1>8. a[3] = WriteString(a[2], s)
  BY <1>3, <1>4, ObeyText
<1>9. a[3] \in LCDs /\ a[3].blink = l.blink /\ Visible(a[3], 0, 1, s)
  <2>1. 0 \in 0..1 /\ 1 \in 0..15 /\ p \in Nat /\ HasRoom(0, 1, p)
    BY <1>2 DEF HasRoom
  <2>2. WrittenAt(a[2], 0, 1, p, s, a[3])
    BY <1>1, <1>2, <1>7, <1>8, <2>1, TextWritten
  <2> QED
    BY <1>7, <2>2 DEF WrittenAt
<1>10. OnlyTexts(a[3], {s})
  <2>1. OnlyTexts(a[2], {}) /\ {} \cup {s} = {s}
    BY <1>6, <1>7 DEF OnlyTexts
  <2> QED
    BY <1>2, <1>7, <1>8, <2>1, WrittenTexts
<1>11. a[4] \in LCDs /\ a[4].cells = a[3].cells /\ a[4].cursor = <<1, 1>> /\ a[4].blink = l.blink
  BY <1>3, <1>4, <1>9, ObeyCursor
<1>12. m = WriteString(a[4], u)
  BY <1>3, <1>4, <1>5, ObeyText
<1>13. /\ m \in LCDs /\ m.blink = l.blink /\ Visible(m, 1, 1, u)
       /\ \A c \in Cells : ~Covers(1, 1, q, c) => m.cells[c] = a[4].cells[c]
  <2>1. 1 \in 0..1 /\ 1 \in 0..15 /\ q \in Nat /\ HasRoom(1, 1, q)
    BY <1>2 DEF HasRoom
  <2>2. WrittenAt(a[4], 1, 1, q, u, m)
    BY <1>1, <1>2, <1>11, <1>12, <2>1, TextWritten
  <2> QED
    BY <1>11, <2>2 DEF WrittenAt
<1>14. Visible(m, 0, 1, s)
  <2>1. 0 \in 0..1 /\ 1 \in 0..15 /\ p \in Nat /\ HasRoom(0, 1, p)
    BY <1>2 DEF HasRoom
  <2>2. \A c \in Cells : Covers(0, 1, p, c) => ~Covers(1, 1, q, c)
    <3>1. \A c \in Cells : At(c) \in Int
      BY DEF At, Cells, MAX_ROWS, MAX_COLUMNS
    <3> QED
      BY <1>2, <3>1 DEF Covers
  <2>3. \A c \in Cells : Covers(0, 1, p, c) => m.cells[c] = a[3].cells[c]
    BY <1>11, <1>13, <2>2
  <2> QED
    BY <1>1, <1>2, <1>9, <2>1, <2>3, StaysVisible
<1>15. OnlyTexts(m, {s, u})
  <2>1. OnlyTexts(a[4], {s}) /\ {s} \cup {u} = {s, u}
    BY <1>10, <1>11 DEF OnlyTexts
  <2> QED
    BY <1>2, <1>11, <1>12, <2>1, WrittenTexts
<1> QED
  BY <1>3, <1>13, <1>14, <1>15 DEF items, s, u

LEMMA StrFieldDrawn ==
    ASSUME NEW l \in LCDs, NEW e \in {"DelFreq", "DelVolume"}, NEW i \in 0..1,
           NEW m, m = Drawn(l, StrFieldRender(e, i))
    PROVE  /\ m \in LCDs /\ StrFieldRender(e, i) \in Seq(Items) /\ m.blink = l.blink
           /\ Visible(m, 0, 0, Question(e)) /\ Visible(m, 1, 3, Yes) /\ Visible(m, 1, 12, No)
           /\ OnlyTexts(m, {Question(e), Yes, No})
           /\ m.cells[m.cursor] = IF i = 0 THEN Yes[1] ELSE No[1]
<1> DEFINE items == StrFieldRender(e, i)
           a == AfterItems(l, items)
           q == IF e = "DelFreq" THEN 16 ELSE 15
           s == Question(e)
           x == ActionPos(i)
<1>1. /\ s = Text("question", e, q) /\ Yes = Text("answer", "Yes", 3) /\ No = Text("answer", "No", 2)
      /\ q \in 15..16 /\ ActionPos(0) = <<1, 3>> /\ ActionPos(1) = <<1, 12>>
      /\ x[1] = 1 /\ x[2] = (IF i = 0 THEN 3 ELSE 12)
  BY DEF Question, Yes, No, ActionPos
<1>2. /\ "question" \in CharKinds /\ "answer" \in CharKinds /\ e \in CharNames
      /\ "Yes" \in CharNames /\ "No" \in CharNames
  BY DEF CharKinds, CharNames
<1> HIDE DEF q, s, x
<1>3. s \in Seq(Chars) /\ Yes \in Seq(Chars) /\ No \in Seq(Chars)
  <2>1. q \in Nat /\ 3 \in Nat /\ 2 \in Nat
    BY <1>1
  <2> QED
    BY <1>1, <1>2, <2>1, TextType
<1>4. /\ Len(items) = 8 /\ items[1] = CLEAR /\ items[2] = CURSOR_SET(0, 0) /\ items[3] = WRITE_STR(s)
      /\ items[4] = CURSOR_SET(1, 3) /\ items[5] = WRITE_STR(Yes) /\ items[6] = CURSOR_SET(1, 12)
      /\ items[7] = WRITE_STR(No) /\ items[8] = CURSOR_SET(x[1], x[2]) /\ items \in Seq(Items)
  <2>1. CursorAt(ActionPos(0)) = CURSOR_SET(1, 3) /\ CursorAt(ActionPos(1)) = CURSOR_SET(1, 12)
        /\ CursorAt(ActionPos(i)) = CURSOR_SET(x[1], x[2])
    BY <1>1 DEF CursorAt, x
  <2>2. x[1] \in Nat /\ x[2] \in Nat
    BY <1>1
  <2>3. /\ CLEAR \in Items /\ CURSOR_SET(0, 0) \in Items /\ WRITE_STR(s) \in Items
        /\ CURSOR_SET(1, 3) \in Items /\ WRITE_STR(Yes) \in Items /\ CURSOR_SET(1, 12) \in Items
        /\ WRITE_STR(No) \in Items /\ CURSOR_SET(x[1], x[2]) \in Items
    BY <1>3, <2>2, ItemTypes
  <2>4. items = <<CLEAR, CURSOR_SET(0, 0), WRITE_STR(s), CURSOR_SET(1, 3), WRITE_STR(Yes),
                  CURSOR_SET(1, 12), WRITE_STR(No), CURSOR_SET(x[1], x[2])>>
    BY <2>1 DEF StrFieldRender, s
  <2> HIDE DEF items
  <2> QED
    BY <2>3, <2>4
<1> HIDE DEF items
<1>5. /\ a[0] = l /\ a[1] = Obey(a[0], items[1]) /\ a[2] = Obey(a[1], items[2])
      /\ a[3] = Obey(a[2], items[3]) /\ a[4] = Obey(a[3], items[4]) /\ a[5] = Obey(a[4], items[5])
      /\ a[6] = Obey(a[5], items[6]) /\ a[7] = Obey(a[6], items[7]) /\ a[8] = Obey(a[7], items[8])
  <2>1. a[0] = l /\ \A n \in 1..Len(items) : a[n] = Obey(a[n - 1], items[n])
    <3>1. Len(items) \in Nat
      BY <1>4
    <3> QED
      BY <3>1, AfterEach
  <2> HIDE DEF a
  <2> QED
    BY <1>4, <2>1
<1>6. m = a[8]
  BY <1>4 DEF Drawn, items
<1> HIDE DEF a
<1>7. a[1] \in LCDs /\ OnlyTexts(a[1], {}) /\ a[1].blink = l.blink
  BY <1>4, <1>5, ObeyClear
<1>8. a[2] \in LCDs /\ a[2].cells = a[1].cells /\ a[2].cursor = <<0, 0>> /\ a[2].blink = l.blink
  BY <1>4, <1>5, <1>7, ObeyCursor
<1>9. a[3] = WriteString(a[2], s) /\ WrittenAt(a[2], 0, 0, q, s, a[3])
  <2>1. 0 \in 0..1 /\ 0 \in 0..15 /\ q \in Nat /\ HasRoom(0, 0, q)
    BY <1>1 DEF HasRoom
  <2>2. a[3] = WriteString(a[2], s)
    BY <1>4, <1>5, ObeyText
  <2> QED
    BY <1>1, <1>2, <1>8, <2>1, <2>2, TextWritten
<1>10. a[4] \in LCDs /\ a[4].cells = a[3].cells /\ a[4].cursor = <<1, 3>> /\ a[4].blink = l.blink
  <2>1. a[3] \in LCDs /\ a[3].blink = l.blink /\ 1 \in 0..1 /\ 3 \in 0..15
    BY <1>8, <1>9 DEF WrittenAt
  <2>2. a[4] = Obey(a[3], CURSOR_SET(1, 3))
    BY <1>4, <1>5
  <2> QED
    BY ONLY <2>1, <2>2, ObeyCursor
<1>11. a[5] = WriteString(a[4], Yes) /\ WrittenAt(a[4], 1, 3, 3, Yes, a[5])
  <2>1. 1 \in 0..1 /\ 3 \in 0..15 /\ 3 \in Nat /\ HasRoom(1, 3, 3)
    BY DEF HasRoom
  <2>2. a[5] = WriteString(a[4], Yes)
    BY <1>4, <1>5, ObeyText
  <2> QED
    BY <1>1, <1>2, <1>10, <2>1, <2>2, TextWritten
<1>12. a[6] \in LCDs /\ a[6].cells = a[5].cells /\ a[6].cursor = <<1, 12>> /\ a[6].blink = l.blink
  <2>1. a[5] \in LCDs /\ a[5].blink = l.blink /\ 1 \in 0..1 /\ 12 \in 0..15
    BY <1>10, <1>11 DEF WrittenAt
  <2>2. a[6] = Obey(a[5], CURSOR_SET(1, 12))
    BY <1>4, <1>5
  <2> QED
    BY ONLY <2>1, <2>2, ObeyCursor
<1>13. a[7] = WriteString(a[6], No) /\ WrittenAt(a[6], 1, 12, 2, No, a[7])
  <2>1. 1 \in 0..1 /\ 12 \in 0..15 /\ 2 \in Nat /\ HasRoom(1, 12, 2)
    BY DEF HasRoom
  <2>2. a[7] = WriteString(a[6], No)
    BY <1>4, <1>5, ObeyText
  <2> QED
    BY <1>1, <1>2, <1>12, <2>1, <2>2, TextWritten
<1>14. m \in LCDs /\ m.cells = a[7].cells /\ m.cursor = <<1, IF i = 0 THEN 3 ELSE 12>> /\ m.blink = l.blink
  <2>1. x[1] = 1 /\ 1 \in 0..1 /\ x[2] \in 0..15 /\ m = Obey(a[7], CURSOR_SET(1, x[2]))
    BY <1>1, <1>4, <1>5, <1>6
  <2>2. a[7] \in LCDs /\ a[7].blink = l.blink
    BY <1>12, <1>13 DEF WrittenAt
  <2> QED
    BY <1>1, <2>1, <2>2, ObeyCursor
<1>15. \A c \in Cells : /\ Covers(0, 0, q, c) => ~Covers(1, 3, 3, c) /\ ~Covers(1, 12, 2, c)
                        /\ Covers(1, 3, 3, c) => ~Covers(1, 12, 2, c)
  <2>1. \A c \in Cells : At(c) \in Int
    BY DEF At, Cells, MAX_ROWS, MAX_COLUMNS
  <2> QED
    BY <1>1, <2>1 DEF Covers
<1>16. Visible(m, 0, 0, s)
  <2>1. 0 \in 0..1 /\ 0 \in 0..15 /\ q \in Nat /\ HasRoom(0, 0, q)
    BY <1>1 DEF HasRoom
  <2>2. \A c \in Cells : Covers(0, 0, q, c) => m.cells[c] = a[3].cells[c]
    BY <1>10, <1>11, <1>12, <1>13, <1>14, <1>15 DEF WrittenAt
  <2>3. Visible(a[3], 0, 0, s)
    BY <1>9 DEF WrittenAt
  <2> QED
    BY <1>1, <1>2, <2>1, <2>2, <2>3, StaysVisible
<1>17. Visible(m, 1, 3, Yes)
  <2>1. 1 \in 0..1 /\ 3 \in 0..15 /\ 3 \in Nat /\ HasRoom(1, 3, 3)
    BY DEF HasRoom
  <2>2. \A c \in Cells : Covers(1, 3, 3, c) => m.cells[c] = a[5].cells[c]
    BY <1>12, <1>13, <1>14, <1>15 DEF WrittenAt
  <2>3. Visible(a[5], 1, 3, Text("answer", "Yes", 3))
    BY <1>1, <1>11 DEF WrittenAt
  <2>4. Visible(m, 1, 3, Text("answer", "Yes", 3))
    BY ONLY <1>2, <2>1, <2>2, <2>3, StaysVisible
  <2> QED
    BY <1>1, <2>4
<1>18. Visible(m, 1, 12, No)
  BY <1>13, <1>14 DEF WrittenAt, Visible
<1>19. OnlyTexts(m, {s, Yes, No})
  <2>1. OnlyTexts(a[2], {}) /\ {} \cup {s} = {s}
    BY <1>7, <1>8 DEF OnlyTexts
  <2>2. OnlyTexts(a[3], {s})
    BY <1>3, <1>8, <1>9, <2>1, WrittenTexts
  <2>3. OnlyTexts(a[4], {s}) /\ {s} \cup {Yes} = {s, Yes}
    BY <1>10, <2>2 DEF OnlyTexts
  <2>4. OnlyTexts(a[5], {s, Yes})
    BY <1>3, <1>10, <1>11, <2>3, WrittenTexts
  <2>5. OnlyTexts(a[6], {s, Yes}) /\ {s, Yes} \cup {No} = {s, Yes, No}
    BY <1>12, <2>4 DEF OnlyTexts
  <2>6. OnlyTexts(a[7], {s, Yes, No})
    BY <1>3, <1>12, <1>13, <2>5, WrittenTexts
  <2> QED
    BY <1>14, <2>6 DEF OnlyTexts
<1>20. m.cells[<<1, 3>>] = Yes[1] /\ m.cells[<<1, 12>>] = No[1]
  <2>1. 1 \in DOMAIN Yes /\ 1 \in DOMAIN No
    <3>1. DOMAIN Yes = 1..3 /\ DOMAIN No = 1..2
      BY DEF Yes, No, Text
    <3> QED
      BY <3>1
  <2>2. /\ <<(1 * 16 + 3 + 1 - 1) \div 16, (1 * 16 + 3 + 1 - 1) % 16>> = <<1, 3>>
        /\ <<(1 * 16 + 12 + 1 - 1) \div 16, (1 * 16 + 12 + 1 - 1) % 16>> = <<1, 12>>
        /\ MAX_COLUMNS + 1 = 16
    BY DEF MAX_COLUMNS
  <2> QED
    BY <1>17, <1>18, <2>1, <2>2 DEF Visible
<1>21. m.cells[m.cursor] = IF i = 0 THEN Yes[1] ELSE No[1]
  BY <1>14, <1>20
<1> QED
  BY <1>4, <1>14, <1>16, <1>17, <1>18, <1>19, <1>21 DEF items, s

LEMMA DateDrawn ==
    ASSUME NEW l \in LCDs, NEW e \in {"Calendar", "Clock"}, NEW i \in 0..15,
           OnlyTexts(l, {Date(e)}), NEW m, m = Drawn(l, DateRender(e, i))
    PROVE  /\ m \in LCDs /\ DateRender(e, i) \in Seq(Items) /\ m.blink = l.blink
           /\ Visible(m, 0, DateColumn(e), Date(e)) /\ OnlyTexts(m, {Date(e)})
           /\ m.cursor = <<0, i>>
<1> DEFINE items == DateRender(e, i)
           a == AfterItems(l, items)
           n == IF e = "Calendar" THEN 15 ELSE 8
           k == DateColumn(e)
           s == Date(e)
<1>1. s = Text("date", e, n) /\ n \in Nat /\ k \in 0..15 /\ HasRoom(0, k, n) /\ k \in Nat
  BY DEF Date, DateColumn, HasRoom
<1>2. "date" \in CharKinds /\ e \in CharNames
  BY DEF CharKinds, CharNames
<1> HIDE DEF n, k, s
<1>3. s \in Seq(Chars)
  BY <1>1, <1>2, TextType
<1>4. /\ Len(items) = 3 /\ items[1] = CURSOR_SET(0, k) /\ items[2] = WRITE_STR(s)
      /\ items[3] = CURSOR_SET(0, i) /\ items \in Seq(Items)
  <2>1. CURSOR_SET(0, k) \in Items /\ WRITE_STR(s) \in Items /\ CURSOR_SET(0, i) \in Items
    BY <1>1, <1>3, ItemTypes
  <2>2. items = <<CURSOR_SET(0, k), WRITE_STR(s), CURSOR_SET(0, i)>>
    BY DEF DateRender, k, s
  <2> HIDE DEF items
  <2> QED
    BY <2>1, <2>2
<1> HIDE DEF items
<1>5. a[0] = l /\ a[1] = Obey(a[0], items[1]) /\ a[2] = Obey(a[1], items[2]) /\ a[3] = Obey(a[2], items[3])
  <2>1. a[0] = l /\ \A j \in 1..Len(items) : a[j] = Obey(a[j - 1], items[j])
    <3>1. Len(items) \in Nat
      BY <1>4
    <3> QED
      BY <3>1, AfterEach
  <2> HIDE DEF a
  <2> QED
    BY <1>4, <2>1
<1>6. m = a[3]
  BY <1>4 DEF Drawn, items
<1> HIDE DEF a
<1>7. a[1] \in LCDs /\ a[1].cells = l.cells /\ a[1].cursor = <<0, k>> /\ a[1].blink = l.blink
  <2>1. a[1] = Obey(l, CURSOR_SET(0, k)) /\ 0 \in 0..1
    BY <1>4, <1>5
  <2>2. k \in 0..15
    BY <1>1
  <2>3. l \in LCDs
    OBVIOUS
  <2> QED
    BY ONLY <2>1, <2>2, <2>3, ObeyCursor
<1>8. a[2] = WriteString(a[1], s) /\ WrittenAt(a[1], 0, k, n, s, a[2])
  <2>1. a[2] = WriteString(a[1], s) /\ 0 \in 0..1
    BY <1>4, <1>5, ObeyText
  <2> QED
    BY <1>1, <1>2, <1>7, <2>1, TextWritten
<1>9. m \in LCDs /\ m.cells = a[2].cells /\ m.cursor = <<0, i>> /\ m.blink = l.blink
  <2>1. a[2] \in LCDs /\ a[2].blink = l.blink /\ m = Obey(a[2], CURSOR_SET(0, i)) /\ 0 \in 0..1
    BY <1>4, <1>5, <1>6, <1>7, <1>8 DEF WrittenAt
  <2> QED
    BY <2>1, ObeyCursor
<1>10. Visible(m, 0, k, s)
  BY <1>8, <1>9 DEF WrittenAt, Visible
<1>11. OnlyTexts(m, {s})
  <2>1. OnlyTexts(a[1], {s}) /\ {s} \cup {s} = {s}
    BY <1>7 DEF OnlyTexts, s
  <2>2. OnlyTexts(a[2], {s})
    <3>1. a[1] \in LCDs /\ a[2] = WriteString(a[1], s)
      BY <1>7, <1>8
    <3>2. OnlyTexts(WriteString(a[1], s), {s} \cup {s})
      BY ONLY <1>3, <2>1, <3>1, WrittenTexts
    <3> QED
      BY ONLY <2>1, <3>1, <3>2
  <2> QED
    BY <1>9, <2>2 DEF OnlyTexts
<1> QED
  BY <1>4, <1>9, <1>10, <1>11 DEF items, k, s

\* One text on an empty screen: it is there.
LEMMA OneTextDrawn ==
    ASSUME NEW l \in LCDs, NEW t \in Seq(Chars), NEW kind \in CharKinds, kind # "blank", NEW name \in CharNames,
           \/ \E n \in 1..32 : t = Text(kind, name, n)
           \/ \E n \in 1..16, k \in 0..16 : t = TwoLines(kind, name, n, k),
           NEW m, m = Drawn(l, <<CLEAR, WRITE_STR(t)>>)
    PROVE  /\ m \in LCDs /\ <<CLEAR, WRITE_STR(t)>> \in Seq(Items)
           /\ OnlyTexts(m, {t}) /\ m.cells # Cleared
<1>1. PICK c \in LCDs : /\ c.cells = Cleared /\ c.cursor = <<0, 0>>
                        /\ m = WriteString(c, t) /\ OnlyTexts(m, {t})
  BY DrawnOne
<1>2. m \in LCDs
  BY <1>1, WriteStringType
<1>3. <<CLEAR, WRITE_STR(t)>> \in Seq(Items)
  <2>1. CLEAR \in Items /\ WRITE_STR(t) \in Items
    BY ItemTypes
  <2> QED
    BY <2>1
<1>4. \E d \in Cells : m.cells[d] = <<kind, name, 1>>
  <2>1. CASE \E n \in 1..32 : t = Text(kind, name, n)
    <3>1. PICK n \in 1..32 : t = Text(kind, name, n)
      BY <2>1
    <3>2. n \in Nat /\ HasRoom(0, 0, n) /\ 0 \in 0..1 /\ 0 \in 0..15 /\ 1 \in 1..n
      BY DEF HasRoom
    <3>3. WrittenAt(c, 0, 0, n, Text(kind, name, n), m)
      BY <1>1, <3>1, <3>2, TextWritten
    <3>4. DOMAIN Text(kind, name, n) = 1..n /\ Text(kind, name, n)[1] = <<kind, name, 1>>
      BY <3>2, TextType
    <3>5. \A i \in 1..n : LET p == 0 * 16 + 0 + i - 1
                          IN  m.cells[<<p \div 16, p % 16>>] = Text(kind, name, n)[i]
      <4>1. Visible(m, 0, 0, Text(kind, name, n))
        BY <3>3 DEF WrittenAt
      <4>2. MAX_COLUMNS + 1 = 16
        BY DEF MAX_COLUMNS
      <4> QED
        BY <3>4, <4>1, <4>2 DEF Visible
    <3>6. (0 * 16 + 0 + 1 - 1) \div 16 = 0 /\ (0 * 16 + 0 + 1 - 1) % 16 = 0
      OBVIOUS
    <3>7. m.cells[<<0, 0>>] = <<kind, name, 1>>
      BY <3>2, <3>4, <3>5, <3>6
    <3>8. <<0, 0>> \in Cells
      BY DEF Cells, MAX_ROWS, MAX_COLUMNS
    <3> QED
      BY <3>7, <3>8
  <2>2. CASE \E n \in 1..16, k \in 0..16 : t = TwoLines(kind, name, n, k)
    <3>1. PICK n \in 1..16, k \in 0..16 : t = TwoLines(kind, name, n, k)
      BY <2>2
    <3>2. LinesAt(c, kind, name, n, k, t)
      BY <1>1, <3>1, TwoLinesWritten
    <3>3. 1 \in 1..(n + 1 + k) /\ 1 # n + 1
      OBVIOUS
    <3> QED
      BY <1>1, <3>2, <3>3 DEF LinesAt
  <2> QED
    BY <2>1, <2>2
<1>5. m.cells # Cleared
  <2>1. PICK d \in Cells : m.cells[d] = <<kind, name, 1>>
    BY <1>4
  <2>2. Cleared[d] = Blank /\ Blank # <<kind, name, 1>>
    BY DEF Cleared, Blank
  <2> QED
    BY <2>1, <2>2
<1> QED
  BY <1>1, <1>2, <1>3, <1>5
-----------------------------------------------------------------------------
\* The LCD as it will be when the menu task, too, has sent what it has to send.
Ahead == Drawn(CaughtUp, todo)

\* What a screen that was opened leaves of the LCD for its first drawing.
Ready(l) ==
    CASE screen = "main"        -> TRUE
      [] screen = "maintenance" -> ~l.blink
      [] screen = "confirm"     -> l.blink /\ l.cells = Cleared
      [] screen = "editor"      -> l.blink /\ l.cells = Cleared
      [] OTHER                  -> FALSE
Drawing == IF render THEN Ready(Ahead) ELSE Shows(Ahead)

IndexOK == index \in CASE screen = "maintenance" -> 0..(Len(Entries) - 1)
                       [] screen = "confirm" -> 0..1
                       [] screen = "editor" -> Digits(entry)
                       [] OTHER -> {0}
\* Each screen is entered for its own entries only.
Entered == /\ screen = "confirm" => entry \in {"DelFreq", "DelVolume"} /\ effect = "none"
           /\ screen = "editor" => entry \in {"Calendar", "Clock"}
           /\ screen \in {"call", "result"} => entry \in {"Sync", "Connect"} /\ ~render

Screens == {"main", "maintenance", "confirm", "editor", "call", "result"}

PanelInv ==
    /\ DisplayInv
    /\ screen \in Screens /\ entry \in Chosen /\ render \in BOOLEAN /\ todo \in Seq(Items)
    /\ wide \in BOOLEAN /\ IndexOK /\ Entered /\ Drawing

\* As long as nothing is sent or carried out.
LEMMA Steady ==
    ASSUME PanelInv, UNCHANGED displayVars
    PROVE  DisplayInv' /\ CaughtUp' = CaughtUp /\ CaughtUp \in LCDs /\ Ahead' = Drawn(CaughtUp, todo')
<1>1. UNCHANGED <<disp_queue, hand, heap, lcd>>
  BY DEF displayVars
<1>2. CaughtUp' = CaughtUp
  BY <1>1 DEF CaughtUp
<1>3. DisplayInv'
  BY <1>1 DEF PanelInv, DisplayInv, NoLeak, Between
<1> QED
  BY <1>2, <1>3, DisplayTypes DEF PanelInv, Ahead

LEMMA PanelStarts == Init => PanelInv
<1> SUFFICES ASSUME Init PROVE PanelInv
  OBVIOUS
<1>1. Power \in LCDs
  BY BlankType DEF Power, LCDs, Cleared, MAX_ROWS
<1>2. Text("started", "none", 6) \in Seq(Chars)
  <2>1. "started" \in CharKinds /\ "none" \in CharNames
    BY DEF CharKinds, CharNames
  <2> QED
    BY <2>1, TextType
<1>3. lcd \in LCDs
  BY <1>1, <1>2, WriteStringType DEF Init
<1>4. DisplayInv
  BY <1>3, DisplayStarts DEF Init
<1>5. todo \in Seq(Items)
  BY <1>3, SetupDrawn DEF Init
<1>6. /\ screen = "main" /\ entry = "Calendar" /\ index = 0 /\ render = TRUE
  BY DEF Init
<1>7. screen \in Screens /\ entry \in Chosen /\ render \in BOOLEAN
  BY <1>6, EntryFacts DEF Screens
<1>8. IndexOK /\ Entered /\ Drawing
  BY <1>6 DEF IndexOK, Entered, Drawing, Ready
<1>9. wide \in BOOLEAN
  BY DEF Init
<1> QED
  BY <1>4, <1>5, <1>7, <1>8, <1>9 DEF PanelInv

LEMMA ToMainStep ==
    ASSUME PanelInv, UNCHANGED displayVars, wide' \in BOOLEAN, ToMain
    PROVE  PanelInv'
<1>1. PICK t \in MainTexts(wide') : todo' = MainRender(t)
  BY DEF ToMain, DrawsMain
<1>2. DisplayInv' /\ CaughtUp \in LCDs /\ Ahead' = Drawn(CaughtUp, MainRender(t))
  BY <1>1, Steady
<1>3. screen' = "main" /\ index' = 0 /\ render' = FALSE /\ entry' = entry
  BY DEF ToMain
<1>4. /\ MainRender(t) \in Seq(Items)
      /\ OnlyTexts(Ahead', {t}) /\ (t = MainText => Visible(Ahead', 0, 0, t))
  BY <1>2, MainDrawn
<1>5. IndexOK' /\ Entered' /\ Drawing'
  BY <1>1, <1>3, <1>4 DEF IndexOK, Entered, Drawing, Shows
<1> QED
  BY <1>1, <1>2, <1>3, <1>4, <1>5 DEF PanelInv, Screens

LEMMA OpensStep ==
    ASSUME PanelInv, UNCHANGED displayVars, wide' \in BOOLEAN, effect' = "none",
           NEW s \in {"maintenance", "confirm", "editor"}, NEW e \in Chosen, NEW i,
           s = "maintenance" => i = 0,
           s = "confirm" => e \in {"DelFreq", "DelVolume"} /\ i = 0,
           s = "editor" => e \in {"Calendar", "Clock"} /\ i \in Digits(e),
           NEW b \in BOOLEAN, b <=> s # "maintenance",
           Opens(s, e, i, LcdSetup(b))
    PROVE  PanelInv'
<1>1. screen' = s /\ entry' = e /\ index' = i /\ render' = TRUE /\ todo' = LcdSetup(b)
  BY DEF Opens
<1>2. DisplayInv' /\ CaughtUp \in LCDs /\ Ahead' = Drawn(CaughtUp, LcdSetup(b))
  BY <1>1, Steady
<1>3. LcdSetup(b) \in Seq(Items) /\ Ahead'.blink = b /\ Ahead'.cells = Cleared
  BY <1>2, SetupDrawn
<1>4. IndexOK'
  <2>1. Len(Entries) = 6
    BY EntryFacts
  <2> QED
    BY <1>1, <2>1 DEF IndexOK
<1>5. Entered'
  BY <1>1 DEF Entered
<1>6. Drawing'
  BY <1>1, <1>3 DEF Drawing, Ready
<1> QED
  BY <1>1, <1>2, <1>3, <1>4, <1>5, <1>6 DEF PanelInv, Screens
-----------------------------------------------------------------------------
LEMMA NothingToSend == todo = << >> => Ahead = CaughtUp
BY DrawnEmpty DEF Ahead

LEMMA IdleStep ==
    ASSUME PanelInv, UNCHANGED displayVars, wide' \in BOOLEAN, Idle,
           screen = "confirm" => effect' = "none", screen = "main" => wide' = wide
    PROVE  PanelInv'
<1>1. UNCHANGED <<screen, entry, index, render, todo>>
  BY DEF Idle
<1>2. DisplayInv' /\ Ahead' = Ahead
  BY <1>1, Steady DEF Ahead
<1>3. IndexOK' /\ Entered'
  BY <1>1 DEF PanelInv, IndexOK, Entered
<1>4. Drawing'
  <2>1. CASE wide' = wide
    BY <1>1, <1>2, <2>1 DEF PanelInv, Drawing, Ready, Shows
  <2>2. CASE screen # "main"
    <3>1. screen \in {"maintenance", "confirm", "editor", "call", "result"}
      BY <2>2 DEF PanelInv, Screens
    <3>2. Ready(Ahead)' <=> Ready(Ahead)
      BY <1>1, <1>2, <3>1 DEF Ready
    <3>3. Shows(Ahead)' <=> Shows(Ahead)
      BY <1>1, <1>2, <3>1 DEF Shows
    <3> QED
      BY <1>1, <3>2, <3>3 DEF PanelInv, Drawing
  <2> QED
    BY <2>1, <2>2
<1> QED
  BY <1>1, <1>2, <1>3, <1>4 DEF PanelInv

\* One lemma for each screen and what a key does on it.
LEMMA MainStep ==
    ASSUME PanelInv, UNCHANGED displayVars, wide' \in BOOLEAN, NEW k, MainKey(k)
    PROVE  PanelInv'
<1>1. CASE k = "ENTER"
  <2>1. Opens("maintenance", entry, 0, LcdSetup(FALSE)) /\ effect' = "none" /\ entry \in Chosen
    BY <1>1 DEF MainKey, PanelInv
  <2> QED
    BY <2>1, OpensStep
<1>2. CASE k # "ENTER"
  <2>1. ToMain
    BY <1>2 DEF MainKey
  <2> QED
    BY <2>1, ToMainStep
<1> QED
  BY <1>1, <1>2

LEMMA ListStep ==
    ASSUME PanelInv, UNCHANGED displayVars, wide' \in BOOLEAN, todo = << >>, screen = "maintenance",
           NEW i \in 0..5, index' = i, Draws(SpinnerRender(i))
    PROVE  PanelInv'
<1>1. screen' = "maintenance" /\ entry' = entry /\ index' = i /\ render' = FALSE /\ todo' = SpinnerRender(i)
  BY DEF Draws
<1>2. DisplayInv' /\ CaughtUp \in LCDs /\ Ahead' = Drawn(CaughtUp, SpinnerRender(i))
  BY <1>1, Steady
<1>3. ~CaughtUp.blink
  BY NothingToSend DEF PanelInv, Drawing, Ready, Shows
<1>4. /\ SpinnerRender(i) \in Seq(Items) /\ ~Ahead'.blink
      /\ Visible(Ahead', 0, 1, Selected(i)) /\ Visible(Ahead', 1, 1, Unselected(After(i)))
      /\ OnlyTexts(Ahead', {Selected(i), Unselected(After(i))})
  BY <1>2, <1>3, SpinnerDrawn
<1>5. After(i) = (i + 1) % Len(Entries) /\ Len(Entries) = 6
  BY EntryFacts
<1>6. IndexOK' /\ Entered'
  BY <1>1, <1>5 DEF IndexOK, Entered
<1>7. Drawing'
  BY <1>1, <1>4, <1>5 DEF Drawing, Shows
<1> QED
  BY <1>1, <1>2, <1>4, <1>6, <1>7 DEF PanelInv, Screens

LEMMA ChooseStep ==
    ASSUME PanelInv, UNCHANGED displayVars, wide' \in BOOLEAN, effect' = "none", NEW e \in Chosen, Choose(e)
    PROVE  PanelInv'
<1>1. CASE e \in {"Calendar", "Clock"}
  <2>1. PICK c \in Digits(e) : Opens("editor", e, c, LcdSetup(TRUE))
    BY <1>1 DEF Choose
  <2> QED
    BY <1>1, <2>1, OpensStep
<1>2. CASE e \in {"DelFreq", "DelVolume"}
  <2>1. Opens("confirm", e, 0, LcdSetup(TRUE))
    BY <1>2 DEF Choose
  <2> QED
    BY <1>2, <2>1, OpensStep
<1>3. CASE e \in {"Sync", "Connect"}
  <2>1. /\ screen' = "call" /\ entry' = e /\ index' = 0 /\ render' = FALSE
        /\ todo' = <<CLEAR, WRITE_STR(Begins(e))>>
    BY <1>3 DEF Choose
  <2>2. DisplayInv' /\ CaughtUp \in LCDs /\ Ahead' = Drawn(CaughtUp, <<CLEAR, WRITE_STR(Begins(e))>>)
    BY <2>1, Steady
  <2>3. /\ "begins" \in CharKinds /\ "begins" # "blank" /\ e \in CharNames
        /\ 12 \in 1..16 /\ 6 \in 0..16 /\ 24 \in 1..32 /\ 12 \in Nat /\ 6 \in Nat /\ 24 \in Nat
    BY EntryFacts DEF CharKinds
  <2>4. /\ OnlyTexts(Ahead', {Begins(e)}) /\ Ahead'.cells # Cleared
        /\ <<CLEAR, WRITE_STR(Begins(e))>> \in Seq(Items)
    <3>1. CASE e = "Sync"
      <4>1. Begins(e) = TwoLines("begins", e, 12, 6)
        BY <3>1 DEF Begins
      <4>2. Begins(e) \in Seq(Chars)
        BY <2>3, <4>1, TwoLinesType
      <4> QED
        BY <2>2, <2>3, <4>1, <4>2, OneTextDrawn
    <3>2. CASE e = "Connect"
      <4>1. Begins(e) = Text("begins", e, 24)
        BY <3>2 DEF Begins
      <4>2. Begins(e) \in Seq(Chars)
        BY <2>3, <4>1, TextType
      <4> QED
        BY <2>2, <2>3, <4>1, <4>2, OneTextDrawn
    <3> QED
      BY <1>3, <3>1, <3>2
  <2>5. IndexOK' /\ Entered' /\ Drawing'
    BY <1>3, <2>1, <2>4 DEF IndexOK, Entered, Drawing, Shows
  <2> QED
    BY <2>1, <2>2, <2>4, <2>5 DEF PanelInv, Screens
<1> QED
  BY <1>1, <1>2, <1>3, EntryFacts

LEMMA MaintenanceStep ==
    ASSUME PanelInv, UNCHANGED displayVars, wide' \in BOOLEAN, todo = << >>, NEW k, MaintenanceKey(k)
    PROVE  PanelInv'
<1>1. screen = "maintenance" /\ effect' = "none" /\ index \in 0..5 /\ Len(Entries) = 6
  BY EntryFacts DEF MaintenanceKey, PanelInv, IndexOK
<1>2. CASE k \in {"UP", "DOWN", "LEFT", "RIGHT"}
  <2>1. index' = Turned(k) /\ Draws(SpinnerRender(Turned(k)))
    BY <1>2 DEF MaintenanceKey
  <2>2. Turned(k) \in 0..5
    BY <1>1, EntryFacts DEF Turned
  <2> QED
    BY <1>1, <2>1, <2>2, ListStep
<1>3. CASE k \in {"ENTER", "CENTER"}
  <2>1. Choose(EntryAt(index)) /\ EntryAt(index) \in Chosen
    BY <1>1, <1>3, EntryFacts DEF MaintenanceKey
  <2> QED
    BY <1>1, <2>1, ChooseStep
<1>4. CASE k = "BACK"
  <2>1. ToMain
    BY <1>4 DEF MaintenanceKey
  <2> QED
    BY <2>1, ToMainStep
<1>5. CASE k \notin {"UP", "DOWN", "LEFT", "RIGHT", "ENTER", "CENTER", "BACK"}
  <2>1. IF render THEN Draws(SpinnerRender(index)) /\ index' = index ELSE Idle
    BY <1>5 DEF MaintenanceKey
  <2>2. CASE render
    BY <1>1, <2>1, <2>2, ListStep
  <2>3. CASE ~render
    <3>1. Idle
      BY <2>1, <2>3
    <3> QED
      BY <1>1, <3>1, IdleStep
  <2> QED
    BY <2>2, <2>3
<1> QED
  BY <1>2, <1>3, <1>4, <1>5

LEMMA ConfirmDraws ==
    ASSUME PanelInv, UNCHANGED displayVars, wide' \in BOOLEAN, todo = << >>, screen = "confirm", effect' = "none",
           NEW i \in 0..1, index' = i, Draws(StrFieldRender(entry, i))
    PROVE  PanelInv'
<1>1. screen' = "confirm" /\ entry' = entry /\ index' = i /\ render' = FALSE /\ todo' = StrFieldRender(entry, i)
  BY DEF Draws
<1>2. DisplayInv' /\ CaughtUp \in LCDs /\ Ahead' = Drawn(CaughtUp, StrFieldRender(entry, i))
  BY <1>1, Steady
<1>3. CaughtUp.blink /\ entry \in {"DelFreq", "DelVolume"}
  BY NothingToSend DEF PanelInv, Drawing, Ready, Shows, Entered
<1>4. /\ StrFieldRender(entry, i) \in Seq(Items) /\ Ahead'.blink
      /\ Visible(Ahead', 0, 0, Question(entry)) /\ Visible(Ahead', 1, 3, Yes) /\ Visible(Ahead', 1, 12, No)
      /\ OnlyTexts(Ahead', {Question(entry), Yes, No})
      /\ Ahead'.cells[Ahead'.cursor] = IF i = 0 THEN Yes[1] ELSE No[1]
  <2> DEFINE m == Ahead'
             l == CaughtUp
             e == entry
  <2>1. l \in LCDs /\ e \in {"DelFreq", "DelVolume"} /\ m = Drawn(l, StrFieldRender(e, i)) /\ l.blink = TRUE
    <3>1. \A b : l.blink = b => b \in BOOLEAN
      BY <1>2 DEF LCDs
    <3> QED
      BY <1>2, <1>3, <3>1
  <2> HIDE DEF m, l, e
  <2>2. m.blink = l.blink /\ StrFieldRender(e, i) \in Seq(Items)
    BY <2>1, StrFieldDrawn
  <2>3. Visible(m, 0, 0, Question(e)) /\ Visible(m, 1, 3, Yes) /\ Visible(m, 1, 12, No)
    BY <2>1, StrFieldDrawn
  <2>4. OnlyTexts(m, {Question(e), Yes, No})
    BY <2>1, StrFieldDrawn
  <2>5. m.cells[m.cursor] = IF i = 0 THEN Yes[1] ELSE No[1]
    BY <2>1, StrFieldDrawn
  <2> QED
    BY <2>1, <2>2, <2>3, <2>4, <2>5 DEF m, e
<1>5. IndexOK' /\ Entered'
  BY <1>1, <1>3 DEF IndexOK, Entered
<1>6. Drawing'
  BY <1>1, <1>4 DEF Drawing, Shows
<1> QED
  BY <1>1, <1>2, <1>4, <1>5, <1>6 DEF PanelInv, Screens

LEMMA ConfirmStep ==
    ASSUME PanelInv, UNCHANGED displayVars, wide' \in BOOLEAN, todo = << >>, NEW k, ConfirmKey(k)
    PROVE  PanelInv'
<1>1. screen = "confirm" /\ index \in 0..1
  BY DEF ConfirmKey, PanelInv, IndexOK
<1>2. CASE k \in {"LEFT", "RIGHT"}
  <2>1. index' = Shifted(k) /\ Draws(StrFieldRender(entry, Shifted(k))) /\ effect' = "none"
    BY <1>2 DEF ConfirmKey
  <2>2. Shifted(k) \in 0..1
    BY <1>1 DEF Shifted
  <2> QED
    BY <1>1, <2>1, <2>2, ConfirmDraws
<1>3. CASE k \in {"UP", "DOWN"}
  <2>1. index' = index /\ Draws(StrFieldRender(entry, index)) /\ effect' = "none"
    BY <1>3 DEF ConfirmKey
  <2> QED
    BY <1>1, <2>1, ConfirmDraws
<1>4. CASE k \in {"ENTER", "CENTER", "BACK"}
  <2>1. ToMain
    BY <1>4 DEF ConfirmKey
  <2> QED
    BY <2>1, ToMainStep
<1>5. CASE k \notin {"UP", "DOWN", "LEFT", "RIGHT", "ENTER", "CENTER", "BACK"}
  <2>1. /\ IF render THEN Draws(StrFieldRender(entry, index)) /\ index' = index ELSE Idle
        /\ effect' = "none"
    BY <1>5 DEF ConfirmKey
  <2>2. CASE render
    BY <1>1, <2>1, <2>2, ConfirmDraws
  <2>3. CASE ~render
    BY <1>1, <2>1, <2>3, IdleStep
  <2> QED
    BY <2>2, <2>3
<1> QED
  BY <1>2, <1>3, <1>4, <1>5

LEMMA EditorDraws ==
    ASSUME PanelInv, UNCHANGED displayVars, wide' \in BOOLEAN, todo = << >>, screen = "editor",
           NEW i \in Digits(entry), index' = i, Draws(DateRender(entry, i))
    PROVE  PanelInv'
<1>1. screen' = "editor" /\ entry' = entry /\ index' = i /\ render' = FALSE /\ todo' = DateRender(entry, i)
  BY DEF Draws
<1>2. DisplayInv' /\ CaughtUp \in LCDs /\ Ahead' = Drawn(CaughtUp, DateRender(entry, i))
  BY <1>1, Steady
<1>3. entry \in {"Calendar", "Clock"} /\ i \in 0..15
  <2>1. entry \in {"Calendar", "Clock"}
    BY DEF PanelInv, Entered
  <2>2. Digits(entry) \subseteq 0..15
    BY DEF Digits
  <2> QED
    BY <2>1, <2>2
<1>4. CaughtUp.blink /\ OnlyTexts(CaughtUp, {Date(entry)})
  <2>1. CASE render
    <3>1. CaughtUp.blink /\ CaughtUp.cells = Cleared
      BY <2>1, NothingToSend DEF PanelInv, Drawing, Ready
    <3> QED
      BY <3>1 DEF OnlyTexts, Cleared
  <2>2. CASE ~render
    BY <2>2, NothingToSend DEF PanelInv, Drawing, Shows
  <2> QED
    BY <2>1, <2>2
<1>5. /\ DateRender(entry, i) \in Seq(Items) /\ Ahead'.blink
      /\ Visible(Ahead', 0, DateColumn(entry), Date(entry)) /\ OnlyTexts(Ahead', {Date(entry)})
      /\ Ahead'.cursor = <<0, i>>
  BY <1>2, <1>3, <1>4, DateDrawn
<1>6. IndexOK' /\ Entered'
  BY <1>1, <1>3 DEF IndexOK, Entered
<1>7. Drawing'
  BY <1>1, <1>5 DEF Drawing, Shows
<1> QED
  BY <1>1, <1>2, <1>5, <1>6, <1>7 DEF PanelInv, Screens

LEMMA EditorStep ==
    ASSUME PanelInv, UNCHANGED displayVars, wide' \in BOOLEAN, todo = << >>, NEW k, EditorKey(k)
    PROVE  PanelInv'
<1>1. screen = "editor" /\ index \in Digits(entry)
  BY DEF EditorKey, PanelInv, IndexOK
<1>2. CASE k \in {"UP", "DOWN", "LEFT", "RIGHT"}
  <2>1. PICK c \in Digits(entry) : index' = c /\ Draws(DateRender(entry, c))
    BY <1>2 DEF EditorKey
  <2> QED
    BY <1>1, <2>1, EditorDraws
<1>3. CASE k \in {"ENTER", "CENTER", "BACK"}
  <2>1. ToMain
    BY <1>3 DEF EditorKey
  <2> QED
    BY <2>1, ToMainStep
<1>4. CASE k \notin {"UP", "DOWN", "LEFT", "RIGHT", "ENTER", "CENTER", "BACK"}
  <2>1. IF render THEN Draws(DateRender(entry, index)) /\ index' = index ELSE Idle
    BY <1>4 DEF EditorKey
  <2>2. CASE render
    BY <1>1, <2>1, <2>2, EditorDraws
  <2>3. CASE ~render
    BY <1>1, <2>1, <2>3, IdleStep
  <2> QED
    BY <2>2, <2>3
<1> QED
  BY <1>2, <1>3, <1>4

LEMMA CallStep ==
    ASSUME PanelInv, CallEnds
    PROVE  PanelInv'
<1>1. PICK ok \in BOOLEAN : todo' = <<CLEAR, WRITE_STR(Ends(entry, ok))>>
  BY DEF CallEnds
<1>2. /\ screen = "call" /\ screen' = "result" /\ entry' = entry /\ index' = index /\ render' = render
      /\ UNCHANGED displayVars /\ wide' = wide
  BY DEF CallEnds
<1>3. /\ entry \in {"Sync", "Connect"} /\ ~render /\ index = 0 /\ entry \in CharNames
  BY <1>2, EntryFacts DEF PanelInv, Entered, IndexOK
<1>4. DisplayInv' /\ CaughtUp \in LCDs /\ Ahead' = Drawn(CaughtUp, <<CLEAR, WRITE_STR(Ends(entry, ok))>>)
  BY <1>1, <1>2, Steady
<1>5. /\ OnlyTexts(Ahead', {Ends(entry, ok)}) /\ Ahead'.cells # Cleared
      /\ <<CLEAR, WRITE_STR(Ends(entry, ok))>> \in Seq(Items)
  <2> DEFINE kind == IF ok THEN "done" ELSE "failed"
             n == IF entry = "Sync" THEN IF ok THEN 17 ELSE 31 ELSE IF ok THEN 20 ELSE 25
  <2>1. kind \in CharKinds /\ kind # "blank" /\ n \in 1..32 /\ n \in Nat
    BY DEF CharKinds
  <2>2. Ends(entry, ok) = Text(kind, entry, n)
    BY DEF Ends
  <2> HIDE DEF kind, n
  <2>3. Ends(entry, ok) \in Seq(Chars)
    BY <1>3, <2>1, <2>2, TextType
  <2> QED
    BY <1>3, <1>4, <2>1, <2>2, <2>3, OneTextDrawn
<1>6. IndexOK' /\ Entered'
  BY <1>2, <1>3 DEF IndexOK, Entered
<1>7. Drawing'
  BY <1>2, <1>3, <1>5 DEF Drawing, Shows
<1> QED
  BY <1>1, <1>2, <1>3, <1>4, <1>5, <1>6, <1>7 DEF PanelInv, Screens
-----------------------------------------------------------------------------
\* An item that is sent, and one that is carried out.
LEMMA EmitStep ==
    ASSUME PanelInv, Emit
    PROVE  PanelInv'
<1>1. /\ todo # << >> /\ Send(Head(todo)) /\ todo' = Tail(todo)
      /\ UNCHANGED <<screen, entry, index, render, effect, wide>>
  BY DEF Emit
<1>2. todo \in Seq(Items) /\ Head(todo) \in Items /\ Tail(todo) \in Seq(Items)
  BY <1>1, HeadTailProperties DEF PanelInv
<1>3. DisplayInv' /\ CaughtUp' = Obey(CaughtUp, Head(todo))
  BY <1>1, <1>2, SendStep DEF PanelInv
<1>4. Ahead' = Ahead
  BY <1>1, <1>2, <1>3, DrawnHead DEF Ahead
<1>5. IndexOK' /\ Entered' /\ Drawing'
  BY <1>1, <1>4 DEF PanelInv, IndexOK, Entered, Drawing, Ready, Shows
<1> QED
  BY <1>1, <1>2, <1>3, <1>5 DEF PanelInv

LEMMA DisplayStep ==
    ASSUME PanelInv, Display
    PROVE  PanelInv'
<1>1. Manager /\ UNCHANGED <<screen, entry, index, render, todo, effect, wide>>
  BY DEF Display, menuVars
<1>2. DisplayInv' /\ CaughtUp' = CaughtUp
  BY <1>1, ManagerStep DEF PanelInv
<1>3. Ahead' = Ahead
  BY <1>1, <1>2 DEF Ahead
<1>4. IndexOK' /\ Entered' /\ Drawing'
  BY <1>1, <1>3 DEF PanelInv, IndexOK, Entered, Drawing, Ready, Shows
<1> QED
  BY <1>1, <1>2, <1>4 DEF PanelInv

LEMMA PanelNext == PanelInv /\ [Next]_vars => PanelInv'
<1> SUFFICES ASSUME PanelInv, [Next]_vars PROVE PanelInv'
  OBVIOUS
<1>1. CASE Turn
  <2>1. todo = << >> /\ UNCHANGED displayVars
    BY <1>1 DEF Turn
  <2>2. PICK k : Tunes(k) /\ (MainKey(k) \/ MaintenanceKey(k) \/ ConfirmKey(k) \/ EditorKey(k))
    BY <1>1 DEF Turn
  <2>3. wide' \in BOOLEAN
    BY <2>2 DEF Tunes, PanelInv
  <2> QED
    BY <2>1, <2>2, <2>3, MainStep, MaintenanceStep, ConfirmStep, EditorStep
<1>2. CASE CallEnds
  BY <1>2, CallStep
<1>3. CASE PauseEnds
  BY <1>3, ToMainStep DEF PauseEnds, PanelInv
<1>4. CASE Emit
  BY <1>4, EmitStep
<1>5. CASE Display
  BY <1>5, DisplayStep
<1>6. CASE UNCHANGED vars
  <2>1. UNCHANGED displayVars /\ Idle /\ effect' = effect /\ wide' = wide
    BY <1>6 DEF vars, menuVars, Idle
  <2>2. (screen = "confirm" => effect = "none") /\ wide \in BOOLEAN
    BY DEF PanelInv, Entered
  <2> QED
    BY <2>1, <2>2, IdleStep
<1> QED
  BY <1>1, <1>2, <1>3, <1>4, <1>5, <1>6 DEF Next, Menu

LEMMA PanelSafe == Spec => []PanelInv
BY PanelStarts, PanelNext, PTL DEF Spec
-----------------------------------------------------------------------------
\* Every variable of the menu and of the display task holds a value of its kind,
\* and the display queue is never longer than DISPLAY_MAX_QUEUE (display.c:96).
THEOREM TypeCorrect == Spec => []TypeOK
<1>1. PanelInv => TypeOK
  BY DisplayTypes DEF PanelInv, TypeOK, IndexOK, Screens
<1> QED
  BY <1>1, PanelSafe, PTL

\* What DISPLAY_Send allocates is freed, once (display.c:93-101, 126-160): the heap
\* holds the blocks of the items that wait or are being carried out, and no other.
THEOREM NothingLeaks == Spec => []NoLeak
<1>1. PanelInv => NoLeak
  BY DEF PanelInv, DisplayInv
<1> QED
  BY <1>1, PanelSafe, PTL

\* A screen that is drawn is what the LCD will show when the display task has
\* caught up: the entry that is selected and its successor, the answer under the
\* cursor, the date, and nothing of the screen before (Menu.c, Spinner.c,
\* StrField.c).
THEOREM ScreenShown == Spec => []ScreenIsShown
<1>1. PanelInv => ScreenIsShown
  BY NothingToSend DEF PanelInv, Drawing, ScreenIsShown
<1> QED
  BY <1>1, PanelSafe, PTL

\* Only the confirmation deletes, and what it asked for: under its cursor on Yes, or
\* in its first turn, when the LCD is blank (Menu.c:52, StrField.c:58-78).
THEOREM DeletesAsShown == Spec => DeletedAsShown
<1> DEFINE Asked == Visible(CaughtUp, 0, 0, Question(effect')) /\ CaughtUp.cells[CaughtUp.cursor] = Yes[1]
           Step  == effect' # effect /\ effect' \in {"DelFreq", "DelVolume"} =>
                       /\ screen = "confirm" /\ entry = effect'
                       /\ Asked \/ (render /\ CaughtUp.cells = Cleared)
<1>1. PanelInv /\ [Next]_vars => [Step]_vars
  <2> SUFFICES ASSUME PanelInv, [Next]_vars, effect' # effect, effect' \in {"DelFreq", "DelVolume"}
               PROVE  /\ screen = "confirm" /\ entry = effect'
                      /\ Asked \/ (render /\ CaughtUp.cells = Cleared)
    OBVIOUS
  <2>1. Turn
    <3>1. CASE CallEnds
      <4>1. screen = "call" /\ effect' \in {entry, "none"}
        BY <3>1 DEF CallEnds
      <4> QED
        BY <4>1 DEF PanelInv, Entered
    <3>2. ~PauseEnds
      BY DEF PauseEnds
    <3>3. ~Emit /\ ~Display /\ vars' # vars
      BY DEF Emit, Display, vars, menuVars
    <3> QED
      BY <3>1, <3>2, <3>3 DEF Next, Menu
  <2>2. PICK k : MainKey(k) \/ MaintenanceKey(k) \/ ConfirmKey(k) \/ EditorKey(k)
    BY <2>1 DEF Turn
  <2>3. ConfirmKey(k)
    <3>1. ~MainKey(k)
      BY DEF MainKey
    <3>2. ~MaintenanceKey(k)
      BY DEF MaintenanceKey
    <3>3. ~EditorKey(k)
      BY DEF EditorKey, PanelInv, Entered
    <3> QED
      BY <2>2, <3>1, <3>2, <3>3
  <2>4. screen = "confirm" /\ index = 0 /\ effect' = entry
    BY <2>3 DEF ConfirmKey, Answer
  <2>5. Ahead = CaughtUp
    BY <2>1, NothingToSend DEF Turn
  <2>6. render => CaughtUp.cells = Cleared
    BY <2>4, <2>5 DEF PanelInv, Drawing, Ready
  <2>7. ~render => Asked
    <3>1. ~render => /\ Visible(CaughtUp, 0, 0, Question(entry))
                     /\ CaughtUp.cells[CaughtUp.cursor] = Yes[1]
      BY <2>4, <2>5 DEF PanelInv, Drawing, Shows
    <3> QED
      BY <2>4, <3>1
  <2>8. render \in BOOLEAN
    BY DEF PanelInv
  <2> QED
    BY <2>4, <2>6, <2>7, <2>8
<1> QED
  BY <1>1, PanelSafe, PTL DEF Spec, DeletedAsShown
-----------------------------------------------------------------------------
\* What the menu task has begun to write, wherever it is by now.
Unwritten == hand \o disp_queue \o todo

LEMMA UnwrittenType == PanelInv => Unwritten \in Seq(Items)
<1> SUFFICES ASSUME PanelInv PROVE Unwritten \in Seq(Items)
  OBVIOUS
<1>1. hand \in Seq(Items) /\ disp_queue \in Seq(Items) /\ todo \in Seq(Items)
  BY DEF PanelInv, DisplayInv
<1> QED
  BY <1>1, ConcatProperties DEF Unwritten

\* The abstract specification has the operators of Lcd.
LEMMA SameLcd ==
    /\ Direct!Items = Items /\ Direct!LCDs = LCDs
    /\ \A l, item : Direct!Obey(l, item) = Obey(l, item)
<1>1. Direct!Items = Items
  BY DEF Direct!Items, Items, Direct!Chars, Chars, Direct!CharKinds, CharKinds, Direct!CharNames, CharNames
<1>2. Direct!Chars = Chars
  BY DEF Direct!Chars, Chars, Direct!CharKinds, CharKinds, Direct!CharNames, CharNames
<1>3. Direct!Cells = Cells /\ Direct!MAX_ROWS = MAX_ROWS /\ Direct!MAX_COLUMNS = MAX_COLUMNS
  BY DEF Direct!Cells, Cells, Direct!MAX_ROWS, MAX_ROWS, Direct!MAX_COLUMNS, MAX_COLUMNS
<1>4. Direct!LCDs = LCDs
  BY <1>2, <1>3 DEF Direct!LCDs, LCDs
<1>5. \A t : Direct!Feed(t) = Feed(t)
  BY Zenon DEF Direct!Feed, Feed
<1>6. \A l, feed, i : Direct!Place(l, feed, i) = Place(l, feed, i)
  BY <1>3 DEF Direct!Place, Place
<1>7. ASSUME NEW l, NEW t PROVE Direct!WriteString(l, t) = WriteString(l, t)
  <2> DEFINE places(feed) == [i \in DOMAIN t \ {feed} |-> Place(l, feed, i)]
             direct(feed) == [i \in DOMAIN t \ {feed} |-> Direct!Place(l, feed, i)]
             Written(p, end, cells) ==
                [l EXCEPT !.cells = [c \in cells |->
                             IF {t[i] : i \in {k \in DOMAIN p : p[k] = c}} = {} THEN @[c]
                             ELSE CHOOSE x \in {t[i] : i \in {k \in DOMAIN p : p[k] = c}} : TRUE],
                          !.cursor = <<end[1], end[2] + 1>>]
  <2>1. WriteString(l, t) = Written(places(Feed(t)), Place(l, Feed(t), Len(t)), Cells)
    BY Zenon DEF WriteString
  <2>2. Direct!WriteString(l, t)
          = Written(direct(Direct!Feed(t)), Direct!Place(l, Direct!Feed(t), Len(t)), Direct!Cells)
    BY Zenon DEF Direct!WriteString
  <2>3. \A feed : direct(feed) = places(feed)
    BY <1>6
  <2> HIDE DEF Written, places, direct
  <2> QED
    BY <1>3, <1>5, <1>6, <2>1, <2>2, <2>3
<1>8. \A l, r, k : Direct!SetCursor(l, r, k) = SetCursor(l, r, k)
  BY <1>3 DEF Direct!SetCursor, SetCursor
<1>9. \A l : Direct!Clear(l) = Clear(l)
  BY <1>3 DEF Direct!Clear, Clear, Direct!Cleared, Cleared, Direct!Blank, Blank
<1>10. ASSUME NEW l, NEW item PROVE Direct!Obey(l, item) = Obey(l, item)
  BY <1>7, <1>8, <1>9 DEF Direct!Obey, Obey
<1> QED
  BY <1>1, <1>4, <1>10

LEMMA LongerPrefix ==
    ASSUME NEW s \in Seq(Items), NEW u \in Seq(Items)
    PROVE  Direct!IsPrefix(s, s \o u)
<1>1. Len(s \o u) = Len(s) + Len(u) /\ Len(s) \in Nat /\ Len(u) \in Nat /\ s \o u \in Seq(Items)
  BY ConcatProperties, LenProperties
<1>2. SubSeq(s, 1, Len(s)) = SubSeq(s \o u, 1, Len(s))
  OBVIOUS
<1> QED
  BY <1>1, <1>2 DEF Direct!IsPrefix

\* A key, a call that ends, or a pause: more is to be written, and the LCD is as it was.
LEMMA PlanStep ==
    ASSUME PanelInv, PanelInv', UNCHANGED displayVars, todo = << >>
    PROVE  Direct!Plan
<1>1. UNCHANGED <<disp_queue, hand, lcd>>
  BY DEF displayVars
<1>2. Between \in Seq(Items) /\ todo' \in Seq(Items)
  BY DisplayTypes DEF PanelInv
<1>3. Unwritten = Between /\ Unwritten' = Between \o todo'
  <2>1. \A s \in Seq(Items) : s \o << >> = s
    OBVIOUS
  <2> QED
    BY <1>1, <1>2, <2>1 DEF Unwritten, Between
<1>4. Direct!IsPrefix(Unwritten, Unwritten')
  BY <1>2, <1>3, LongerPrefix
<1> QED
  BY <1>1, <1>4 DEF Direct!Plan, Unwritten

\* Sending and receiving hand an item on.
LEMMA HandedOn ==
    ASSUME PanelInv, Emit \/ (Receive /\ UNCHANGED menuVars)
    PROVE  Unwritten' = Unwritten /\ lcd' = lcd
<1>1. CASE Emit
  <2>1. /\ todo # << >> /\ disp_queue' = Append(disp_queue, Head(todo)) /\ todo' = Tail(todo)
        /\ hand' = hand /\ lcd' = lcd
    BY <1>1 DEF Emit, Send
  <2>2. \A h, d, t \in Seq(Items) : t # << >> => (h \o Append(d, Head(t))) \o Tail(t) = (h \o d) \o t
    <3> SUFFICES ASSUME NEW h \in Seq(Items), NEW d \in Seq(Items), NEW t \in Seq(Items), t # << >>
                 PROVE  (h \o Append(d, Head(t))) \o Tail(t) = (h \o d) \o t
      OBVIOUS
    <3>1. Head(t) \in Items /\ Tail(t) \in Seq(Items) /\ t = <<Head(t)>> \o Tail(t)
      OBVIOUS
    <3> DEFINE x == Head(t)
               u == Tail(t)
    <3>2. x \in Items /\ u \in Seq(Items) /\ t = <<x>> \o u
      BY <3>1
    <3> HIDE DEF x, u
    <3>3. <<x>> \in Seq(Items) /\ Append(d, x) = d \o <<x>>
      BY <3>2
    <3>4. h \o (d \o <<x>>) = (h \o d) \o <<x>> /\ h \o d \in Seq(Items)
      BY <3>3, ConcatAssociative, ConcatProperties
    <3>5. ((h \o d) \o <<x>>) \o u = (h \o d) \o (<<x>> \o u)
      BY <3>2, <3>3, <3>4, ConcatAssociative
    <3> QED
      BY <3>2, <3>3, <3>4, <3>5 DEF x, u
  <2> QED
    BY <2>1, <2>2 DEF Unwritten, PanelInv, DisplayInv
<1>2. CASE Receive /\ UNCHANGED menuVars
  <2>1. /\ hand = << >> /\ disp_queue # << >> /\ hand' = <<Head(disp_queue)>>
        /\ disp_queue' = Tail(disp_queue) /\ lcd' = lcd /\ todo' = todo
    BY <1>2 DEF Receive, menuVars
  <2>2. \A d \in Seq(Items) : d # << >> => <<Head(d)>> \o Tail(d) = << >> \o d
    OBVIOUS
  <2> QED
    BY <2>1, <2>2 DEF Unwritten, PanelInv, DisplayInv
<1> QED
  BY <1>1, <1>2

\* Carrying an item out is a write.
LEMMA WriteStep ==
    ASSUME PanelInv, Carry, UNCHANGED menuVars
    PROVE  Direct!Write
<1>1. hand # << >> /\ lcd' = Obey(lcd, Head(hand)) /\ hand' = << >> /\ UNCHANGED <<disp_queue, todo>>
  BY DEF Carry, menuVars
<1>2. PICK x \in Items : hand = <<x>>
  <2>1. Len(hand) \in Nat /\ Len(hand) <= 1 /\ hand \in Seq(Items)
    BY LenProperties DEF PanelInv, DisplayInv
  <2>2. Len(hand) # 0
    BY <1>1, <2>1, EmptySeq
  <2>3. \A n \in Nat : n <= 1 /\ n # 0 => n = 1
    OBVIOUS
  <2>4. Len(hand) = 1
    BY <2>1, <2>2, <2>3, Zenon
  <2> QED
    BY <2>1, <2>4
<1>3. \A d, t \in Seq(Items) : LET u == (<<x>> \o d) \o t
         IN u # << >> /\ Head(u) = x /\ Tail(u) = (<< >> \o d) \o t
  OBVIOUS
<1>4. Unwritten # << >> /\ Head(Unwritten) = x /\ Unwritten' = Tail(Unwritten)
  BY <1>1, <1>2, <1>3 DEF Unwritten, PanelInv, DisplayInv
<1>5. lcd' = Direct!Obey(lcd, Head(Unwritten))
  BY <1>1, <1>2, <1>4, SameLcd
<1> QED
  BY <1>4, <1>5 DEF Direct!Write, Unwritten

\* Whatever the queue holds back and the two tasks interleave, the LCD is written
\* as by one task that had it to itself: nothing is lost, doubled or overtaken
\* (DISPLAY_Send and DISPLAY_Manager, display.c:93-160).
THEOREM InOrder == Spec => WritesInOrder
<1>1. PanelInv => Direct!DirectInit
  BY UnwrittenType, SameLcd DEF Direct!DirectInit, Unwritten, PanelInv, DisplayInv
<1>2. PanelInv /\ PanelInv' /\ [Next]_vars => [Direct!DirectNext]_<<lcd, Unwritten>>
  <2> SUFFICES ASSUME PanelInv, PanelInv', [Next]_vars
               PROVE  Direct!Write \/ Direct!Plan \/ UNCHANGED <<lcd, Unwritten>>
    BY DEF Direct!DirectNext
  <2>1. CASE Turn \/ CallEnds \/ PauseEnds
    BY <2>1, PlanStep DEF Turn, CallEnds, PauseEnds
  <2>2. CASE Emit
    BY <2>2, HandedOn
  <2>3. CASE Display
    BY <2>3, HandedOn, WriteStep DEF Display, Manager
  <2>4. CASE UNCHANGED vars
    BY <2>4 DEF vars, displayVars, menuVars, Unwritten
  <2> QED
    BY <2>1, <2>2, <2>3, <2>4 DEF Next, Menu
<1> QED
  BY <1>1, <1>2, PanelStarts, PanelSafe, PTL DEF Spec, WritesInOrder, Direct!DirectSpec, Unwritten
=============================================================================
