--------------------------- MODULE DisplayProofs ---------------------------
(* What the display shows, for every length of its queue, every item, and    *)
(* whatever the two tasks do in between: the lemmas that PanelProofs and     *)
(* StartupProofs stand on.                                                   *)
(*                                                                           *)
(* AfterItems is a recursive function.  That one more item continues it, and *)
(* that the first item can be taken off it, is proved by induction over the  *)
(* number of items, in the form of SetInduction: no set of numbers that is   *)
(* closed in this way leaves one out, since < is well-founded.               *)
EXTENDS Display, SequenceTheorems, FiniteSetTheorems, FunctionTheorems,
        WellFoundedInduction, TLAPS

\* A set of numbers that has 0, and with each number the next, has them all.
LEMMA SetInduction ==
    ASSUME NEW S \in SUBSET Nat, 0 \in S, \A n \in S : n + 1 \in S
    PROVE  S = Nat
<1> DEFINE R == OpToRel(<, Nat)
           T == Nat \ S
<1>1. \A x, y \in Nat : x < y => <<x, y>> \in R
  BY DEF OpToRel
<1>2. IsWellFoundedOn(R, Nat)
  BY NatLessThanWellFounded
<1>3. SUFFICES ASSUME T # {} PROVE FALSE
  OBVIOUS
<1>4. PICK x \in T : \A y \in T : ~(<<y, x>> \in R)
  <2>1. T \subseteq Nat
    OBVIOUS
  <2> HIDE DEF T, R
  <2> QED
    BY <1>2, <1>3, <2>1, WFMin
<1>5. x \in Nat /\ x # 0
  OBVIOUS
<1>6. x - 1 \in T
  BY <1>5
<1>7. x - 1 < x /\ x - 1 \in Nat
  BY <1>5
<1> HIDE DEF T, R
<1> QED
  BY <1>1, <1>4, <1>5, <1>6, <1>7

\* A function on 0..n that begins with l and goes on with what each item does.
IsRun(f, l, items, n) == f = [i \in 0..n |-> IF i = 0 THEN l ELSE Obey(f[i - 1], items[i])]

LEMMA RunExists ==
    ASSUME NEW l, NEW items
    PROVE  \A n \in Nat : \E f : IsRun(f, l, items, n)
<1> DEFINE S == {n \in Nat : \E f : IsRun(f, l, items, n)}
<1>1. 0 \in S
  <2> DEFINE f == [i \in 0..0 |-> l]
  <2>1. IsRun(f, l, items, 0)
    BY DEF IsRun
  <2> QED
    BY <2>1
<1>2. ASSUME NEW n \in S PROVE n + 1 \in S
  <2>1. PICK f : IsRun(f, l, items, n)
    OBVIOUS
  <2>2. DEFINE g == [i \in 0..(n + 1) |-> IF i = n + 1 THEN Obey(f[n], items[n + 1]) ELSE f[i]]
  <2>3. \A i \in 0..n : g[i] = f[i]
    OBVIOUS
  <2>4. \A i \in 0..n : f[i] = IF i = 0 THEN l ELSE Obey(f[i - 1], items[i])
    BY <2>1 DEF IsRun
  <2>5. \A i \in 0..(n + 1) : g[i] = IF i = 0 THEN l ELSE Obey(g[i - 1], items[i])
    <3>1. CASE TRUE
      <4> TAKE i \in 0..(n + 1)
      <4>1. CASE i = n + 1
        BY <4>1, <2>3
      <4>2. CASE i # n + 1
        <5>1. i \in 0..n /\ (i # 0 => i - 1 \in 0..n)
          BY <4>2
        <5> HIDE DEF g
        <5> QED
          BY <5>1, <2>3, <2>4
      <4> QED
        BY <4>1, <4>2
    <3> QED
      BY <3>1
  <2>6. IsRun(g, l, items, n + 1)
    <3>1. g = [i \in 0..(n + 1) |-> g[i]]
      OBVIOUS
    <3> HIDE DEF g
    <3> QED
      BY <2>5, <3>1 DEF IsRun
  <2> QED
    BY <2>6
<1>3. S = Nat
  <2> HIDE DEF S
  <2>1. S \in SUBSET Nat
    BY DEF S
  <2> QED
    BY <1>1, <1>2, <2>1, SetInduction
<1> QED
  BY <1>3

LEMMA AfterEach ==
    ASSUME NEW l, NEW items, Len(items) \in Nat
    PROVE  /\ AfterItems(l, items)[0] = l
           /\ \A n \in 1..Len(items) :
                 AfterItems(l, items)[n] = Obey(AfterItems(l, items)[n - 1], items[n])
<1> DEFINE a == AfterItems(l, items)
<1>1. IsRun(a, l, items, Len(items))
  BY RunExists DEF AfterItems, IsRun
<1> HIDE DEF a
<1>2. \A i \in 0..Len(items) : a[i] = IF i = 0 THEN l ELSE Obey(a[i - 1], items[i])
  BY <1>1 DEF IsRun
<1> QED
  BY <1>2 DEF a


LEMMA DrawnEmpty == \A l : Drawn(l, << >>) = l
BY AfterEach DEF Drawn

\* The last item is obeyed last.
LEMMA DrawnAppend ==
    ASSUME NEW X, NEW s \in Seq(X), NEW x \in X, NEW l
    PROVE  Drawn(l, Append(s, x)) = Obey(Drawn(l, s), x)
<1> DEFINE t == Append(s, x)
           a == AfterItems(l, s)
           b == AfterItems(l, t)
           n == Len(s)
           S == {i \in Nat : i <= n => b[i] = a[i]}
<1>1. n \in Nat /\ t \in Seq(X) /\ Len(t) = n + 1 /\ t[n + 1] = x /\ \A i \in 1..n : t[i] = s[i]
  BY AppendProperties
<1>2. a[0] = l /\ \A i \in 1..n : a[i] = Obey(a[i - 1], s[i])
  BY <1>1, AfterEach
<1>3. b[0] = l /\ \A i \in 1..(n + 1) : b[i] = Obey(b[i - 1], t[i])
  <2> HIDE DEF t, n
  <2> QED
    BY <1>1, AfterEach
<1>4. S = Nat
  <2>1. 0 \in S
    BY <1>2, <1>3
  <2>2. ASSUME NEW i \in S PROVE i + 1 \in S
    <3>1. CASE i + 1 <= n
      <4>1. i + 1 \in 1..n /\ i + 1 \in 1..(n + 1) /\ (i + 1) - 1 = i
        BY <1>1, <3>1
      <4>2. b[i] = a[i]
        BY <1>1, <3>1
      <4>3. b[i + 1] = a[i + 1]
        <5> HIDE DEF a, b, n, t
        <5> QED
          BY <1>1, <1>2, <1>3, <4>1, <4>2
      <4> QED
        BY <4>3
    <3> QED
      BY <3>1
  <2>3. S \in SUBSET Nat
    OBVIOUS
  <2> HIDE DEF S
  <2> QED
    BY <2>1, <2>2, <2>3, SetInduction
<1>5. b[n] = a[n]
  <2>1. n \in S
    BY <1>1, <1>4
  <2> QED
    BY <1>1, <2>1
<1>6. b[n + 1] = Obey(b[n], x)
  <2>1. n + 1 \in 1..(n + 1) /\ (n + 1) - 1 = n
    BY <1>1
  <2> HIDE DEF b, t, n
  <2> QED
    BY <1>1, <1>3, <2>1
<1> QED
  BY <1>1, <1>5, <1>6 DEF Drawn

\* The first item is obeyed first.
LEMMA DrawnHead ==
    ASSUME NEW X, NEW s \in Seq(X), s # << >>, NEW l
    PROVE  Drawn(l, s) = Drawn(Obey(l, Head(s)), Tail(s))
<1> DEFINE t == Tail(s)
           a == AfterItems(l, s)
           b == AfterItems(Obey(l, Head(s)), t)
           n == Len(t)
           S == {i \in Nat : i <= n => b[i] = a[i + 1]}
<1>1. n \in Nat /\ Len(s) = n + 1 /\ \A i \in 1..n : t[i] = s[i + 1]
  BY HeadTailProperties
<1>2. a[0] = l /\ \A i \in 1..(n + 1) : a[i] = Obey(a[i - 1], s[i])
  BY <1>1, AfterEach
<1>3. b[0] = Obey(l, s[1]) /\ \A i \in 1..n : b[i] = Obey(b[i - 1], t[i])
  <2>1. Head(s) = s[1]
    BY HeadTailProperties
  <2>2. Len(t) \in Nat /\ Len(t) = n
    BY <1>1
  <2> HIDE DEF t, n
  <2> QED
    BY <2>1, <2>2, AfterEach
<1>4. S = Nat
  <2>1. 0 \in S
    <3>1. a[1] = Obey(a[0], s[1])
      <4>1. 1 \in 1..(n + 1) /\ 1 - 1 = 0
        BY <1>1
      <4> HIDE DEF a, n
      <4> QED
        BY <1>2, <4>1
    <3> QED
      BY <1>2, <1>3, <3>1
  <2>2. ASSUME NEW i \in S PROVE i + 1 \in S
    <3>1. CASE i + 1 <= n
      <4>1. i + 1 \in 1..n /\ i + 2 \in 1..(n + 1) /\ (i + 1) - 1 = i /\ (i + 2) - 1 = i + 1 /\ (i + 1) + 1 = i + 2
        BY <1>1, <3>1
      <4>2. b[i] = a[i + 1]
        BY <1>1, <3>1
      <4>3. b[i + 1] = a[i + 2]
        <5> HIDE DEF a, b, n, t
        <5> QED
          BY <1>1, <1>2, <1>3, <4>1, <4>2
      <4> HIDE DEF a, b, n
      <4> QED
        BY <4>1, <4>3
    <3> QED
      BY <3>1
  <2>3. S \in SUBSET Nat
    OBVIOUS
  <2> HIDE DEF S
  <2> QED
    BY <2>1, <2>2, <2>3, SetInduction
<1>5. b[n] = a[n + 1]
  <2>1. n \in S
    BY <1>1, <1>4
  <2> QED
    BY <1>1, <2>1
<1> QED
  BY <1>1, <1>5 DEF Drawn

-----------------------------------------------------------------------------
LEMMA BlankType == Blank \in Chars
BY DEF Blank, Chars, CharKinds, CharNames

\* The line feed of a text is a place in it, or behind it.
LEMMA FeedType ==
    ASSUME NEW text \in Seq(Chars)
    PROVE  Feed(text) \in 1..(Len(text) + 1)
<1> DEFINE feeds == {i \in DOMAIN text : text[i][3] = 0}
<1>1. Len(text) \in Nat /\ DOMAIN text = 1..Len(text)
  BY LenProperties
<1>2. CASE feeds = {}
  BY <1>1, <1>2 DEF Feed
<1>3. CASE feeds # {}
  <2>1. Feed(text) \in feeds
    BY <1>3 DEF Feed
  <2> QED
    BY <1>1, <2>1
<1> QED
  BY <1>2, <1>3

\* Where a text is written, and where the cursor is then.
LEMMA PlaceType ==
    ASSUME NEW l \in LCDs, NEW feed \in Nat, NEW i \in Nat
    PROVE  \E r \in 0..MAX_ROWS, k \in Int : Place(l, feed, i) = <<r, k>> /\ k + 1 \in Nat
<1>1. l.cursor[1] \in 0..1 /\ l.cursor[2] \in Nat
  BY DEF LCDs, MAX_ROWS
<1> QED
  BY <1>1 DEF Place, MAX_ROWS, MAX_COLUMNS

\* A text changes the cells that its characters go to, and moves the cursor.
LEMMA WriteStringType ==
    ASSUME NEW l \in LCDs, NEW text \in Seq(Chars)
    PROVE  /\ WriteString(l, text) \in LCDs
           /\ WriteString(l, text).blink = l.blink
           /\ \A c \in Cells : \/ WriteString(l, text).cells[c] = l.cells[c]
                               \/ \E i \in DOMAIN text : WriteString(l, text).cells[c] = text[i]
<1> DEFINE feed    == Feed(text)
           places  == [i \in DOMAIN text \ {feed} |-> Place(l, feed, i)]
           end     == Place(l, feed, Len(text))
           Char(c) == {text[i] : i \in {k \in DOMAIN places : places[k] = c}}
           new     == [c \in Cells |-> IF Char(c) = {} THEN l.cells[c] ELSE CHOOSE x \in Char(c) : TRUE]
<1>1. Len(text) \in Nat /\ feed \in Nat /\ \A i \in DOMAIN text : text[i] \in Chars
  BY FeedType, LenProperties
<1>2. PICK r \in 0..MAX_ROWS, k \in Int : end = <<r, k>> /\ k + 1 \in Nat
  BY <1>1, PlaceType
<1>3. ASSUME NEW c \in Cells
      PROVE  new[c] = l.cells[c] \/ \E i \in DOMAIN text : new[c] = text[i]
  <2>1. CASE Char(c) = {}
    BY <2>1
  <2>2. CASE Char(c) # {}
    <3>1. new[c] \in Char(c)
      <4>1. \E x \in Char(c) : TRUE
        BY <2>2
      <4>2. (CHOOSE x \in Char(c) : TRUE) \in Char(c)
        BY <4>1
      <4>3. new[c] = CHOOSE x \in Char(c) : TRUE
        BY <2>2
      <4> QED
        BY <4>2, <4>3
    <3> QED
      BY <3>1
  <2> QED
    BY <2>1, <2>2
<1>4. WriteString(l, text) = [l EXCEPT !.cells = new, !.cursor = <<end[1], end[2] + 1>>]
  BY DEF WriteString
<1>5. l = [cells |-> l.cells, cursor |-> l.cursor, blink |-> l.blink] /\ l.blink \in BOOLEAN
      /\ l.cells \in [Cells -> Chars]
  BY DEF LCDs
<1>6. new \in [Cells -> Chars]
  <2>1. \A c \in Cells : new[c] \in Chars
    <3> HIDE DEF new
    <3> QED
      BY <1>1, <1>3, <1>5
  <2> QED
    BY <2>1
<1> HIDE DEF new, end
<1>7. WriteString(l, text) = [cells |-> new, cursor |-> <<r, k + 1>>, blink |-> l.blink]
  BY <1>2, <1>4, <1>5
<1> QED
  BY <1>2, <1>3, <1>5, <1>6, <1>7 DEF LCDs

LEMMA ObeyType ==
    ASSUME NEW l \in LCDs, NEW item \in Items
    PROVE  Obey(l, item) \in LCDs
<1>0. l = [cells |-> l.cells, cursor |-> l.cursor, blink |-> l.blink] /\ l.blink \in BOOLEAN
      /\ l.cells \in [Cells -> Chars] /\ l.cursor \in (0..MAX_ROWS) \X Nat
  BY DEF LCDs
<1>1. CASE item \in [id : {"WRITE_STR"}, args : Seq(Chars)]
  <2>1. item.id = "WRITE_STR" /\ item.args \in Seq(Chars)
    BY <1>1
  <2>2. Obey(l, item) = WriteString(l, item.args)
    BY <2>1 DEF Obey
  <2> QED
    BY <2>1, <2>2, WriteStringType
<1>2. CASE item \in [id : {"CURSOR_SET"}, args : Nat \X Nat]
  <2>1. item.id = "CURSOR_SET" /\ item.args[1] \in Nat /\ item.args[2] \in Nat
    BY <1>2
  <2>2. Obey(l, item) = SetCursor(l, item.args[1], item.args[2])
    BY <2>1 DEF Obey
  <2>3. CASE item.args[1] > MAX_ROWS \/ item.args[2] > MAX_COLUMNS
    BY <2>2, <2>3 DEF SetCursor
  <2>4. CASE ~(item.args[1] > MAX_ROWS \/ item.args[2] > MAX_COLUMNS)
    <3>1. Obey(l, item) = [cells |-> l.cells, cursor |-> <<item.args[1], item.args[2]>>, blink |-> l.blink]
      BY <1>0, <2>2, <2>4 DEF SetCursor
    <3>2. item.args[1] \in 0..MAX_ROWS
      BY <2>1, <2>4 DEF MAX_ROWS
    <3> QED
      BY <1>0, <2>1, <3>1, <3>2 DEF LCDs
  <2> QED
    BY <2>3, <2>4
<1>3. CASE item \in [id : {"CLEAR"}, args : {<< >>}]
  <2>1. Obey(l, item) = [cells |-> Cleared, cursor |-> <<0, 0>>, blink |-> l.blink]
    BY <1>0, <1>3 DEF Obey, Clear
  <2>2. Cleared \in [Cells -> Chars]
    BY BlankType DEF Cleared
  <2> QED
    BY <1>0, <2>1, <2>2 DEF LCDs, MAX_ROWS
<1>4. CASE item \in [id : {"WRITE_CMD"}, args : {<<b>> : b \in BOOLEAN}]
  <2>1. item.id = "WRITE_CMD" /\ item.args[1] \in BOOLEAN
    BY <1>4
  <2>2. Obey(l, item) = [cells |-> l.cells, cursor |-> l.cursor, blink |-> item.args[1]]
    BY <1>0, <2>1 DEF Obey
  <2> QED
    BY <1>0, <2>1, <2>2 DEF LCDs
<1> QED
  BY <1>1, <1>2, <1>3, <1>4 DEF Items

LEMMA DrawnType ==
    ASSUME NEW l \in LCDs, NEW items \in Seq(Items)
    PROVE  Drawn(l, items) \in LCDs
<1> DEFINE a == AfterItems(l, items)
           n == Len(items)
           S == {i \in Nat : i <= n => a[i] \in LCDs}
<1>1. n \in Nat /\ \A i \in 1..n : items[i] \in Items
  BY LenProperties
<1>2. a[0] = l /\ \A i \in 1..n : a[i] = Obey(a[i - 1], items[i])
  BY <1>1, AfterEach
<1>3. S = Nat
  <2>1. 0 \in S
    BY <1>2
  <2>2. ASSUME NEW i \in S PROVE i + 1 \in S
    <3>1. CASE i + 1 <= n
      <4>1. i + 1 \in 1..n /\ (i + 1) - 1 = i /\ a[i] \in LCDs
        BY <1>1, <3>1
      <4> HIDE DEF a, n
      <4>2. a[i + 1] \in LCDs
        BY <1>1, <1>2, <4>1, ObeyType
      <4> QED
        BY <4>1, <4>2
    <3> QED
      BY <3>1
  <2>3. S \in SUBSET Nat
    OBVIOUS
  <2> HIDE DEF S
  <2> QED
    BY <2>1, <2>2, <2>3, SetInduction
<1>4. n \in S
  BY <1>1, <1>3
<1> QED
  BY <1>1, <1>4 DEF Drawn
-----------------------------------------------------------------------------
\* The blocks of one item more, at the end.
LEMMA BlocksAppend ==
    ASSUME NEW s \in Seq(Items), NEW x \in Items, IsFiniteSet(BlocksOf(s))
    PROVE  /\ IsFiniteSet(BlocksOf(Append(s, x)))
           /\ Cardinality(BlocksOf(Append(s, x))) = Cardinality(BlocksOf(s)) + Blocks(x)
<1> DEFINE n == Len(s)
           t == Append(s, x)
           one == BlocksOf(s) \cup {<<n + 1, 1>>}
<1>1. n \in Nat /\ t \in Seq(Items) /\ DOMAIN s = 1..n /\ DOMAIN t = 1..(n + 1) /\ t[n + 1] = x
      /\ \A i \in 1..n : t[i] = s[i]
  BY AppendProperties, LenProperties
<1>2. \A b : b \in BlocksOf(s) <=> b \in (1..n) \X {1, 2} /\ b[2] <= Blocks(s[b[1]])
  BY <1>1 DEF BlocksOf
<1>3. \A b : b \in BlocksOf(t) <=> b \in (1..(n + 1)) \X {1, 2} /\ b[2] <= Blocks(t[b[1]])
  BY <1>1 DEF BlocksOf
<1>4. Blocks(x) \in {1, 2}
  BY DEF Blocks
<1> HIDE DEF n, t
<1>5. BlocksOf(t) = IF Blocks(x) = 1 THEN one ELSE one \cup {<<n + 1, 2>>}
  <2>1. \A b \in (1..(n + 1)) \X {1, 2} :
           b \in (1..n) \X {1, 2} \/ b = <<n + 1, 1>> \/ b = <<n + 1, 2>>
    BY <1>1
  <2>2. \A b \in (1..n) \X {1, 2} : b \in BlocksOf(t) <=> b \in BlocksOf(s)
    BY <1>1, <1>2, <1>3
  <2>3. <<n + 1, 1>> \in BlocksOf(t) /\ (<<n + 1, 2>> \in BlocksOf(t) <=> Blocks(x) = 2)
    BY <1>1, <1>3, <1>4
  <2>4. \A b : b \in BlocksOf(s) => b \in (1..n) \X {1, 2}
    BY <1>2
  <2>5. \A b : b \in BlocksOf(t) => b \in (1..(n + 1)) \X {1, 2}
    BY <1>3
  <2> QED
    BY <1>4, <2>1, <2>2, <2>3, <2>4, <2>5
<1>6. <<n + 1, 1>> \notin BlocksOf(s) /\ <<n + 1, 2>> \notin one
  BY <1>1, <1>2
<1>7. IsFiniteSet(one) /\ Cardinality(one) = Cardinality(BlocksOf(s)) + 1
  BY <1>6, FS_AddElement
<1>8. IsFiniteSet(one \cup {<<n + 1, 2>>}) /\ Cardinality(one \cup {<<n + 1, 2>>}) = Cardinality(one) + 1
  <2> HIDE DEF one
  <2> QED
    BY <1>6, <1>7, FS_AddElement
<1>9. Cardinality(BlocksOf(s)) \in Nat
  BY FS_CardinalityType
<1> HIDE DEF one
<1> QED
  BY <1>4, <1>5, <1>7, <1>8, <1>9 DEF t

\* The blocks of a sequence are those of its first item and those of the others.
LEMMA BlocksHead ==
    ASSUME NEW s \in Seq(Items), s # << >>, IsFiniteSet(BlocksOf(s))
    PROVE  /\ IsFiniteSet(BlocksOf(Tail(s)))
           /\ Cardinality(BlocksOf(s)) = Cardinality(BlocksOf(Tail(s))) + Blocks(Head(s))
<1> DEFINE n == Len(s)
           t == Tail(s)
           A == BlocksOf(t)
           M == {b \in BlocksOf(s) : b[1] # 1}
           move == [b \in A |-> <<b[1] + 1, b[2]>>]
<1>1. n \in Nat \ {0} /\ Len(t) = n - 1 /\ t \in Seq(Items) /\ DOMAIN s = 1..n /\ DOMAIN t = 1..(n - 1)
      /\ Head(s) = s[1] /\ \A i \in 1..(n - 1) : t[i] = s[i + 1]
  BY HeadTailProperties, LenProperties
<1>2. \A b : b \in BlocksOf(s) <=> b \in (1..n) \X {1, 2} /\ b[2] <= Blocks(s[b[1]])
  BY <1>1 DEF BlocksOf
<1>3. \A b : b \in A <=> b \in (1..(n - 1)) \X {1, 2} /\ b[2] <= Blocks(t[b[1]])
  BY <1>1 DEF BlocksOf
<1>4. Blocks(s[1]) \in {1, 2}
  BY DEF Blocks
<1>5. IsFiniteSet(M) /\ IsFiniteSet(A) /\ Cardinality(A) = Cardinality(M)
  <2>1. IsFiniteSet(M)
    BY FS_Subset
  <2> HIDE DEF n, t, A
  <2>2. \A b \in A : move[b] \in M
    <3> TAKE b \in A
    <3>1. b \in (1..(n - 1)) \X {1, 2} /\ b[2] <= Blocks(t[b[1]])
      BY <1>3
    <3>2. move[b] = <<b[1] + 1, b[2]>>
      OBVIOUS
    <3>3. t[b[1]] = s[b[1] + 1] /\ b[1] + 1 \in 1..n /\ b[1] + 1 # 1
      BY <1>1, <3>1
    <3> QED
      BY <1>2, <3>1, <3>2, <3>3
  <2>3. \A b, c \in A : move[b] = move[c] => b = c
    <3> TAKE b, c \in A
    <3>1. b \in (1..(n - 1)) \X {1, 2} /\ c \in (1..(n - 1)) \X {1, 2}
      BY <1>3
    <3>2. b = <<b[1], b[2]>> /\ c = <<c[1], c[2]>> /\ b[1] \in Int /\ c[1] \in Int
      BY <1>1, <3>1
    <3>3. move[b] = <<b[1] + 1, b[2]>> /\ move[c] = <<c[1] + 1, c[2]>>
      OBVIOUS
    <3> QED
      BY <3>2, <3>3
  <2>4. \A m \in M : \E b \in A : move[b] = m
    <3> TAKE m \in M
    <3>1. m \in (1..n) \X {1, 2} /\ m[2] <= Blocks(s[m[1]]) /\ m[1] # 1
      BY <1>2
    <3>2. m[1] - 1 \in 1..(n - 1) /\ (m[1] - 1) + 1 = m[1] /\ m = <<m[1], m[2]>>
      BY <1>1, <3>1
    <3>3. t[m[1] - 1] = s[m[1]]
      BY <1>1, <3>2
    <3> DEFINE b == <<m[1] - 1, m[2]>>
    <3>4. b \in A /\ b[1] = m[1] - 1 /\ b[2] = m[2]
      BY <1>3, <3>1, <3>2, <3>3
    <3>5. move[b] = m
      BY <3>2, <3>4
    <3> QED
      BY <3>4, <3>5
  <2>5. move \in Bijection(A, M)
    <3>1. move \in [A -> M]
      BY <2>2
    <3> HIDE DEF move, M
    <3> QED
      BY <2>3, <2>4, <3>1, Fun_IsBij
  <2>6. ExistsBijection(A, M) /\ ExistsBijection(M, A)
    <3> HIDE DEF move, M
    <3> QED
      BY <2>5, Fun_ExistsBijSymmetric DEF ExistsBijection
  <2> HIDE DEF M
  <2>7. IsFiniteSet(A) /\ Cardinality(A) = Cardinality(M)
    BY <2>1, <2>6, FS_Bijection
  <2> QED
    BY <2>1, <2>7
<1> DEFINE one == M \cup {<<1, 1>>}
<1>6. BlocksOf(s) = IF Blocks(s[1]) = 1 THEN one ELSE one \cup {<<1, 2>>}
  <2>1. \A b \in BlocksOf(s) : b \in M \/ b = <<1, 1>> \/ b = <<1, 2>>
    BY <1>2
  <2>2. <<1, 1>> \in BlocksOf(s) /\ (<<1, 2>> \in BlocksOf(s) <=> Blocks(s[1]) = 2)
    BY <1>1, <1>2, <1>4
  <2>3. M \subseteq BlocksOf(s)
    OBVIOUS
  <2> HIDE DEF M
  <2> QED
    BY <1>4, <2>1, <2>2, <2>3
<1>7. <<1, 1>> \notin M /\ <<1, 2>> \notin one
  OBVIOUS
<1> HIDE DEF M
<1>8. IsFiniteSet(one) /\ Cardinality(one) = Cardinality(M) + 1
  BY <1>5, <1>7, FS_AddElement
<1> HIDE DEF one
<1>9. IsFiniteSet(one \cup {<<1, 2>>}) /\ Cardinality(one \cup {<<1, 2>>}) = Cardinality(one) + 1
  BY <1>7, <1>8, FS_AddElement
<1>10. Cardinality(M) \in Nat
  BY <1>5, FS_CardinalityType
<1> HIDE DEF A
<1>11. Cardinality(BlocksOf(s)) = Cardinality(A) + Blocks(s[1])
  BY <1>4, <1>5, <1>6, <1>8, <1>9, <1>10
<1> QED
  BY <1>1, <1>5, <1>11 DEF A
-----------------------------------------------------------------------------
\* Where the n-th cell of the screen is, counted row after row, and back.
At(c) == c[1] * 16 + c[2]

LEMMA CellOf ==
    ASSUME NEW n \in 0..31
    PROVE  /\ <<n \div (MAX_COLUMNS + 1), n % (MAX_COLUMNS + 1)>> =
                 IF n < 16 THEN <<0, n>> ELSE <<1, n - 16>>
           /\ <<n \div (MAX_COLUMNS + 1), n % (MAX_COLUMNS + 1)>> \in Cells
           /\ At(<<n \div (MAX_COLUMNS + 1), n % (MAX_COLUMNS + 1)>>) = n
<1>1. MAX_COLUMNS + 1 = 16
  BY DEF MAX_COLUMNS
<1>2. CASE n < 16
  <2>1. n \div 16 = 0 /\ n % 16 = n
    BY <1>2
  <2> QED
    BY <1>1, <1>2, <2>1 DEF Cells, At, MAX_ROWS, MAX_COLUMNS
<1>3. CASE n >= 16
  <2>1. n \div 16 = 1 /\ n % 16 = n - 16
    BY <1>3
  <2> QED
    BY <1>1, <1>3, <2>1 DEF Cells, At, MAX_ROWS, MAX_COLUMNS
<1> QED
  BY <1>2, <1>3

\* When no two characters go to the same cell, and all to the screen, each is in
\* its cell, and the other cells are as before.
LEMMA WriteExact ==
    ASSUME NEW l \in LCDs, NEW text \in Seq(Chars), NEW feed, feed = Feed(text),
           \A i \in (DOMAIN text) \ {feed} : Place(l, feed, i) \in Cells,
           \A i, j \in (DOMAIN text) \ {feed} : Place(l, feed, i) = Place(l, feed, j) => i = j
    PROVE  /\ \A i \in (DOMAIN text) \ {feed} : WriteString(l, text).cells[Place(l, feed, i)] = text[i]
           /\ \A c \in Cells : (\A i \in (DOMAIN text) \ {feed} : Place(l, feed, i) # c)
                                 => WriteString(l, text).cells[c] = l.cells[c]
<1> DEFINE D       == (DOMAIN text) \ {feed}
           places  == [i \in D |-> Place(l, feed, i)]
           Char(c) == {text[i] : i \in {k \in DOMAIN places : places[k] = c}}
           new     == [c \in Cells |-> IF Char(c) = {} THEN l.cells[c] ELSE CHOOSE x \in Char(c) : TRUE]
<1>1. WriteString(l, text).cells = new
  <2>1. l = [cells |-> l.cells, cursor |-> l.cursor, blink |-> l.blink]
    BY DEF LCDs
  <2>2. \A p : [l EXCEPT !.cells = new, !.cursor = p].cells = new
    BY <2>1
  <2> QED
    BY <2>2 DEF WriteString
<1>2. ASSUME NEW i \in D PROVE new[Place(l, feed, i)] = text[i]
  <2>1. Place(l, feed, i) \in Cells
    OBVIOUS
  <2>2. \A k \in D : places[k] = Place(l, feed, i) <=> k = i
    OBVIOUS
  <2>3. Char(Place(l, feed, i)) = {text[i]}
    <3> HIDE DEF D
    <3>1. DOMAIN places = D
      OBVIOUS
    <3> HIDE DEF places
    <3> QED
      BY <2>2, <3>1
  <2>4. (CHOOSE x \in {text[i]} : TRUE) = text[i]
    OBVIOUS
  <2> HIDE DEF Char, D
  <2> QED
    BY <2>1, <2>3, <2>4
<1>3. ASSUME NEW c \in Cells, \A i \in D : Place(l, feed, i) # c
      PROVE  new[c] = l.cells[c]
  <2>1. Char(c) = {}
    BY <1>3
  <2> HIDE DEF Char, D
  <2> QED
    BY <2>1
<1> HIDE DEF new
<1> QED
  BY <1>1, <1>2, <1>3

\* A text without a line feed.
LEMMA TextType ==
    ASSUME NEW kind \in CharKinds, NEW name \in CharNames, NEW n \in Nat
    PROVE  /\ Text(kind, name, n) \in Seq(Chars) /\ DOMAIN Text(kind, name, n) = 1..n
           /\ Len(Text(kind, name, n)) = n /\ Feed(Text(kind, name, n)) = n + 1
           /\ \A i \in 1..n : Text(kind, name, n)[i] = <<kind, name, i>>
<1> DEFINE t == Text(kind, name, n)
<1>1. t = [i \in 1..n |-> <<kind, name, i>>] /\ \A i \in 1..n : <<kind, name, i>> \in Chars
  BY DEF Text, Chars
<1>2. t \in Seq(Chars) /\ DOMAIN t = 1..n /\ Len(t) = n /\ \A i \in 1..n : t[i] = <<kind, name, i>>
  BY <1>1
<1>3. {i \in DOMAIN t : t[i][3] = 0} = {}
  BY <1>2
<1>4. Feed(t) = n + 1
  BY <1>2, <1>3 DEF Feed
<1> QED
  BY <1>2, <1>4

\* A text of n characters from a position on: whether there is room for it, the
\* cells that it covers, and that an LCD shows it and is else as it was.
HasRoom(r, k, n)      == r * 16 + k + n <= 32
Covers(r, k, n, c) == At(c) >= r * 16 + k /\ At(c) < r * 16 + k + n
WrittenAt(l, r, k, n, t, m) ==
    /\ m \in LCDs /\ m.blink = l.blink /\ Visible(m, r, k, t)
    /\ \A c \in Cells : ~Covers(r, k, n, c) => m.cells[c] = l.cells[c]

\* A text that fits is visible from the cursor on, and nothing else has changed.
LEMMA TextWritten ==
    ASSUME NEW l \in LCDs, NEW kind \in CharKinds, NEW name \in CharNames, NEW n \in Nat,
           NEW r \in 0..1, NEW k \in 0..15, l.cursor = <<r, k>>, HasRoom(r, k, n),
           NEW m, m = WriteString(l, Text(kind, name, n))
    PROVE  WrittenAt(l, r, k, n, Text(kind, name, n), m)
<1> r * 16 + k + n <= 32
  BY DEF HasRoom
<1> DEFINE t == Text(kind, name, n)
           Pos(i) == r * 16 + k + i - 1
           Cell(i) == IF Pos(i) < 16 THEN <<0, Pos(i)>> ELSE <<1, Pos(i) - 16>>
<1>1. t \in Seq(Chars) /\ DOMAIN t = 1..n /\ Feed(t) = n + 1 /\ (DOMAIN t) \ {n + 1} = 1..n
  <2>1. t \in Seq(Chars) /\ DOMAIN t = 1..n /\ Feed(t) = n + 1
    BY TextType
  <2>2. (1..n) \ {n + 1} = 1..n
    OBVIOUS
  <2> HIDE DEF t
  <2> QED
    BY <2>1, <2>2
<1>2. m \in LCDs /\ m.blink = l.blink
  BY <1>1, WriteStringType
<1>3. \A i \in 1..n : Pos(i) \in 0..31 /\ Place(l, n + 1, i) = Cell(i)
  <2> TAKE i \in 1..n
  <2>1. Pos(i) \in 0..31
    OBVIOUS
  <2>2. CASE r = 1
    BY <2>1, <2>2 DEF Place, MAX_COLUMNS
  <2>3. CASE r = 0
    BY <2>1, <2>3 DEF Place, MAX_COLUMNS
  <2> QED
    BY <2>1, <2>2, <2>3
<1>4. \A i \in 1..n : Cell(i) \in Cells /\ At(Cell(i)) = Pos(i)
  BY <1>3 DEF Cells, At, MAX_ROWS, MAX_COLUMNS
<1>5. \A i, j \in 1..n : Cell(i) = Cell(j) => i = j
  <2> TAKE i, j \in 1..n
  <2>1. Cell(i) = Cell(j) => Pos(i) = Pos(j)
    BY <1>4
  <2> QED
    BY <2>1
<1> HIDE DEF Cell
<1>6. /\ \A i \in 1..n : m.cells[Cell(i)] = t[i]
      /\ \A c \in Cells : (\A i \in 1..n : Cell(i) # c) => m.cells[c] = l.cells[c]
  <2> HIDE DEF t
  <2>1. \A i \in (DOMAIN t) \ {n + 1} : Place(l, n + 1, i) \in Cells
    BY <1>1, <1>3, <1>4
  <2>2. \A i, j \in (DOMAIN t) \ {n + 1} : Place(l, n + 1, i) = Place(l, n + 1, j) => i = j
    BY <1>1, <1>3, <1>5
  <2>3. m = WriteString(l, t)
    BY DEF t
  <2>4. /\ \A i \in (DOMAIN t) \ {n + 1} : m.cells[Place(l, n + 1, i)] = t[i]
        /\ \A c \in Cells : (\A i \in (DOMAIN t) \ {n + 1} : Place(l, n + 1, i) # c)
                              => m.cells[c] = l.cells[c]
    <3>1. PICK feed : feed = n + 1
      OBVIOUS
    <3>2. t \in Seq(Chars) /\ feed = Feed(t)
      BY <1>1, <3>1
    <3> QED
      BY ONLY <2>1, <2>2, <2>3, <3>1, <3>2, l \in LCDs, WriteExact
  <2> QED
    BY <1>1, <1>3, <2>4
<1>7. Visible(m, r, k, t)
  <2>1. ASSUME NEW i \in 1..n
        PROVE  LET p == r * (MAX_COLUMNS + 1) + k + i - 1
               IN m.cells[<<p \div (MAX_COLUMNS + 1), p % (MAX_COLUMNS + 1)>>] = t[i]
    <3>1. r * (MAX_COLUMNS + 1) + k + i - 1 = Pos(i)
      BY DEF MAX_COLUMNS
    <3>2. <<Pos(i) \div (MAX_COLUMNS + 1), Pos(i) % (MAX_COLUMNS + 1)>> = Cell(i)
      BY <1>3, CellOf DEF Cell
    <3> HIDE DEF Pos
    <3> QED
      BY <1>6, <3>1, <3>2
  <2> QED
    BY <1>1, <2>1 DEF Visible
<1>8. ASSUME NEW c \in Cells, ~Covers(r, k, n, c)
      PROVE  m.cells[c] = l.cells[c]
  <2>1. \A i \in 1..n : Cell(i) # c
    <3> TAKE i \in 1..n
    <3>1. At(Cell(i)) = Pos(i) /\ Pos(i) >= r * 16 + k /\ Pos(i) < r * 16 + k + n
      BY <1>4
    <3>2. At(c) \in Int
      BY DEF Cells, At, MAX_ROWS, MAX_COLUMNS
    <3> HIDE DEF Pos
    <3> QED
      BY <1>8, <3>1, <3>2 DEF Covers
  <2> QED
    BY <1>6, <2>1
<1> QED
  BY <1>2, <1>7, <1>8 DEF WrittenAt

\* A text that is visible stays so when another part of the screen is written.
LEMMA StaysVisible ==
    ASSUME NEW l, NEW m, NEW kind \in CharKinds, NEW name \in CharNames, NEW n \in Nat,
           NEW r \in 0..1, NEW k \in 0..15, HasRoom(r, k, n),
           Visible(l, r, k, Text(kind, name, n)),
           \A c \in Cells : Covers(r, k, n, c) => m.cells[c] = l.cells[c]
    PROVE  Visible(m, r, k, Text(kind, name, n))
<1> r * 16 + k + n <= 32
  BY DEF HasRoom
<1>1. DOMAIN Text(kind, name, n) = 1..n
  BY TextType
<1>2. ASSUME NEW i \in 1..n
      PROVE  LET p == r * (MAX_COLUMNS + 1) + k + i - 1
                 c == <<p \div (MAX_COLUMNS + 1), p % (MAX_COLUMNS + 1)>>
             IN m.cells[c] = l.cells[c]
  <2> DEFINE p == r * 16 + k + i - 1
             c == <<p \div (MAX_COLUMNS + 1), p % (MAX_COLUMNS + 1)>>
  <2>1. p \in 0..31 /\ p >= r * 16 + k /\ p < r * 16 + k + n
    OBVIOUS
  <2>2. r * (MAX_COLUMNS + 1) + k + i - 1 = p
    BY DEF MAX_COLUMNS
  <2>3. c \in Cells /\ At(c) = p
    <3> HIDE DEF p
    <3> QED
      BY <2>1, CellOf
  <2> HIDE DEF p, c
  <2>4. m.cells[c] = l.cells[c]
    BY <2>1, <2>3 DEF Covers
  <2> QED
    BY <2>2, <2>4 DEF c
<1> QED
  BY <1>1, <1>2 DEF Visible

\* What is on the screen after a text has been written.
LEMMA WrittenTexts ==
    ASSUME NEW l \in LCDs, NEW text \in Seq(Chars), NEW texts, OnlyTexts(l, texts)
    PROVE  OnlyTexts(WriteString(l, text), texts \cup {text})
<1>1. ASSUME NEW c \in Cells
      PROVE  \/ WriteString(l, text).cells[c] = Blank
             \/ \E t \in texts \cup {text} : WriteString(l, text).cells[c] \in ToSet(t)
  <2>1. CASE WriteString(l, text).cells[c] = l.cells[c]
    BY <2>1 DEF OnlyTexts
  <2>2. CASE \E i \in DOMAIN text : WriteString(l, text).cells[c] = text[i]
    <3>1. WriteString(l, text).cells[c] \in ToSet(text)
      BY <2>2 DEF ToSet
    <3> QED
      BY <3>1
  <2> QED
    BY <2>1, <2>2, WriteStringType
<1> QED
  BY <1>1 DEF OnlyTexts
\* The columns that the two parts of such a text take.
LEMMA TwoLinesFit ==
    ASSUME NEW n \in 1..16, NEW k \in 0..16, NEW i \in 1..(n + 1 + k), i # n + 1
    PROVE  IF i > n + 1 THEN <<1, i - (n + 1) - 1>> \in Cells ELSE <<0, i - 1>> \in Cells
<1>1. i > n + 1 => i - (n + 1) - 1 \in 0..15
  OBVIOUS
<1>2. i < n + 1 => i - 1 \in 0..15
  OBVIOUS
<1>3. i > n + 1 \/ (~(i > n + 1) /\ i < n + 1)
  OBVIOUS
<1>4. \A h \in 0..15 : <<0, h>> \in Cells /\ <<1, h>> \in Cells
  BY DEF Cells, MAX_ROWS, MAX_COLUMNS
<1> DEFINE a == i - (n + 1) - 1
           b == i - 1
<1> HIDE DEF a, b
<1>5. a \in 0..15 => <<1, a>> \in Cells
  BY <1>4, Zenon
<1>6. b \in 0..15 => <<0, b>> \in Cells
  BY <1>4, Zenon
<1> QED
  BY <1>1, <1>2, <1>3, <1>5, <1>6 DEF a, b

LEMMA TwoLinesType ==
    ASSUME NEW kind \in CharKinds, NEW name \in CharNames, NEW n \in Nat, NEW k \in Nat
    PROVE  TwoLines(kind, name, n, k) \in Seq(Chars)
<1>1. \A i \in 1..(n + 1 + k) : <<kind, name, IF i = n + 1 THEN 0 ELSE i>> \in Chars
  BY DEF Chars
<1> QED
  BY <1>1 DEF TwoLines

\* A text with a line feed, from the first cell on: the rows begin with its parts.
LinesAt(l, kind, name, n, k, t) ==
    /\ t \in Seq(Chars) /\ DOMAIN t = 1..(n + 1 + k) /\ Feed(t) = n + 1
    /\ \A i \in DOMAIN t : i # n + 1 => /\ t[i] = <<kind, name, i>> /\ Place(l, n + 1, i) \in Cells
                                       /\ WriteString(l, t).cells[Place(l, n + 1, i)] = t[i]

LEMMA TwoLinesWritten ==
    ASSUME NEW l \in LCDs, l.cursor = <<0, 0>>, NEW kind \in CharKinds, NEW name \in CharNames,
           NEW n \in 1..16, NEW k \in 0..16, NEW t, t = TwoLines(kind, name, n, k)
    PROVE  LinesAt(l, kind, name, n, k, t)
<1>1. /\ t = [i \in 1..(n + 1 + k) |-> <<kind, name, IF i = n + 1 THEN 0 ELSE i>>]
      /\ \A i \in 1..(n + 1 + k) : <<kind, name, IF i = n + 1 THEN 0 ELSE i>> \in Chars
  BY DEF TwoLines, Chars
<1>2. t \in Seq(Chars) /\ DOMAIN t = 1..(n + 1 + k)
      /\ \A i \in 1..(n + 1 + k) : t[i] = <<kind, name, IF i = n + 1 THEN 0 ELSE i>>
  BY <1>1
<1>3. Feed(t) = n + 1
  <2>1. {i \in DOMAIN t : t[i][3] = 0} = {n + 1}
    BY <1>2
  <2>2. (CHOOSE i \in {n + 1} : TRUE) = n + 1
    OBVIOUS
  <2> QED
    BY <2>1, <2>2 DEF Feed
<1>4. \A i \in (1..(n + 1 + k)) \ {n + 1} :
         Place(l, n + 1, i) = IF i > n + 1 THEN <<1, i - (n + 1) - 1>> ELSE <<0, i - 1>>
  <2> TAKE i \in (1..(n + 1 + k)) \ {n + 1}
  <2>1. l.cursor[1] = 0 /\ l.cursor[2] = 0
    OBVIOUS
  <2>2. CASE i > n + 1
    BY <2>1, <2>2 DEF Place
  <2>3. CASE i < n + 1
    BY <2>1, <2>3 DEF Place, MAX_COLUMNS
  <2> QED
    BY <2>2, <2>3
<1> DEFINE D == (1..(n + 1 + k)) \ {n + 1}
<1>5. \A i \in D : Place(l, n + 1, i) \in Cells
  <2> TAKE i \in D
  <2>1. i \in 1..(n + 1 + k) /\ i # n + 1
    OBVIOUS
  <2>2. Place(l, n + 1, i) = IF i > n + 1 THEN <<1, i - (n + 1) - 1>> ELSE <<0, i - 1>>
    BY <1>4
  <2> HIDE DEF D
  <2> QED
    BY <2>1, <2>2, TwoLinesFit
<1>6. \A i, j \in D : Place(l, n + 1, i) = Place(l, n + 1, j) => i = j
  <2> TAKE i, j \in D
  <2> DEFINE Spot(h) == IF h > n + 1 THEN <<1, h - (n + 1) - 1>> ELSE <<0, h - 1>>
  <2>1. Place(l, n + 1, i) = Spot(i) /\ Place(l, n + 1, j) = Spot(j)
    BY <1>4
  <2>2. Spot(i) = Spot(j) => i = j
    OBVIOUS
  <2> HIDE DEF Spot, D
  <2> QED
    BY <2>1, <2>2
<1>7. \A i \in D : WriteString(l, t).cells[Place(l, n + 1, i)] = t[i]
  <2>1. (DOMAIN t) \ {n + 1} = D
    BY <1>2
  <2>2. t \in Seq(Chars)
    BY <1>2
  <2>3. \A i \in (DOMAIN t) \ {n + 1} : Place(l, n + 1, i) \in Cells
    BY <1>5, <2>1
  <2>4. \A i, j \in (DOMAIN t) \ {n + 1} : Place(l, n + 1, i) = Place(l, n + 1, j) => i = j
    <3> HIDE DEF D
    <3> QED
      BY <1>6, <2>1
  <2> HIDE DEF D
  <2>5. \A i \in (DOMAIN t) \ {n + 1} : WriteString(l, t).cells[Place(l, n + 1, i)] = t[i]
    BY ONLY l \in LCDs, <1>3, <2>2, <2>3, <2>4, WriteExact
  <2> QED
    BY <2>1, <2>5
<1> QED
  BY <1>2, <1>3, <1>5, <1>7 DEF LinesAt
-----------------------------------------------------------------------------
LEMMA ItemTypes ==
    /\ CLEAR \in Items
    /\ \A b \in BOOLEAN : WRITE_CMD(b) \in Items
    /\ \A r, k \in Nat : CURSOR_SET(r, k) \in Items
    /\ \A t \in Seq(Chars) : WRITE_STR(t) \in Items
<1>1. CLEAR \in Items
  BY DEF CLEAR, Items
<1>2. \A b \in BOOLEAN : WRITE_CMD(b) \in Items
  BY DEF WRITE_CMD, Items
<1>3. \A r, k \in Nat : CURSOR_SET(r, k) \in Items
  BY DEF CURSOR_SET, Items
<1>4. \A t \in Seq(Chars) : WRITE_STR(t) \in Items
  BY DEF WRITE_STR, Items
<1> QED
  BY <1>1, <1>2, <1>3, <1>4

\* What each item does.
LEMMA ObeyClear ==
    ASSUME NEW l \in LCDs, NEW m, m = Obey(l, CLEAR)
    PROVE  m \in LCDs /\ m.cells = Cleared /\ m.cursor = <<0, 0>> /\ m.blink = l.blink /\ OnlyTexts(m, {})
<1>1. l = [cells |-> l.cells, cursor |-> l.cursor, blink |-> l.blink]
  BY DEF LCDs
<1>2. m = [cells |-> Cleared, cursor |-> <<0, 0>>, blink |-> l.blink]
  BY <1>1 DEF Obey, CLEAR, Clear
<1>3. m.cells = Cleared /\ m.cursor = <<0, 0>> /\ m.blink = l.blink
  BY <1>2
<1>4. OnlyTexts(m, {})
  BY <1>3 DEF OnlyTexts, Cleared
<1> QED
  BY <1>3, <1>4, ItemTypes, ObeyType

LEMMA ObeyCursor ==
    ASSUME NEW l \in LCDs, NEW r \in 0..1, NEW k \in 0..15, NEW m, m = Obey(l, CURSOR_SET(r, k))
    PROVE  m \in LCDs /\ m.cells = l.cells /\ m.cursor = <<r, k>> /\ m.blink = l.blink
<1>1. l = [cells |-> l.cells, cursor |-> l.cursor, blink |-> l.blink]
  BY DEF LCDs
<1>2. m = SetCursor(l, r, k)
  BY DEF Obey, CURSOR_SET
<1>3. m = [cells |-> l.cells, cursor |-> <<r, k>>, blink |-> l.blink]
  BY <1>1, <1>2 DEF SetCursor, MAX_ROWS, MAX_COLUMNS
<1>4. CURSOR_SET(r, k) \in Items
  BY ItemTypes
<1>5. m \in LCDs
  BY <1>4, ObeyType
<1> QED
  BY <1>3, <1>5

LEMMA ObeyBlink ==
    ASSUME NEW l \in LCDs, NEW b \in BOOLEAN, NEW m, m = Obey(l, WRITE_CMD(b))
    PROVE  m \in LCDs /\ m.cells = l.cells /\ m.cursor = l.cursor /\ m.blink = b
<1>1. l = [cells |-> l.cells, cursor |-> l.cursor, blink |-> l.blink]
  BY DEF LCDs
<1>2. m = [cells |-> l.cells, cursor |-> l.cursor, blink |-> b]
  BY <1>1 DEF Obey, WRITE_CMD
<1>3. m \in LCDs
  BY ItemTypes, ObeyType
<1> QED
  BY <1>2, <1>3

LEMMA ObeyText == \A l, t : Obey(l, WRITE_STR(t)) = WriteString(l, t)
BY DEF Obey, WRITE_STR

\* The screens that consist of one text.
LEMMA DrawnOne ==
    ASSUME NEW l \in LCDs, NEW t \in Seq(Chars)
    PROVE  \E c \in LCDs : /\ c.cells = Cleared /\ c.cursor = <<0, 0>> /\ c.blink = l.blink
                           /\ Drawn(l, <<CLEAR, WRITE_STR(t)>>) = WriteString(c, t)
                           /\ OnlyTexts(WriteString(c, t), {t})
<1> DEFINE items == <<CLEAR, WRITE_STR(t)>>
           a == AfterItems(l, items)
           c == Obey(l, CLEAR)
<1>1. Len(items) = 2 /\ items[1] = CLEAR /\ items[2] = WRITE_STR(t)
  OBVIOUS
<1> HIDE DEF items
<1>2. a[0] = l /\ \A i \in 1..2 : a[i] = Obey(a[i - 1], items[i])
  <2>1. Len(items) \in Nat
    BY <1>1
  <2>2. a[0] = l /\ \A i \in 1..Len(items) : a[i] = Obey(a[i - 1], items[i])
    BY <2>1, AfterEach
  <2> QED
    BY <1>1, <2>2
<1> HIDE DEF a
<1>3. a[1] = c /\ a[2] = WriteString(c, t)
  <2>1. a[1] = Obey(a[0], items[1]) /\ a[2] = Obey(a[1], items[2])
    BY <1>2
  <2> QED
    BY <1>1, <1>2, <2>1, ObeyText
<1>4. c \in LCDs /\ c.cells = Cleared /\ c.cursor = <<0, 0>> /\ c.blink = l.blink /\ OnlyTexts(c, {})
  BY ObeyClear
<1>5. Drawn(l, items) = WriteString(c, t)
  BY <1>1, <1>3 DEF Drawn, a
<1>6. OnlyTexts(WriteString(c, t), {t})
  <2>1. {} \cup {t} = {t}
    OBVIOUS
  <2> HIDE DEF c
  <2> QED
    BY <1>4, <2>1, WrittenTexts
<1> HIDE DEF c
<1> QED
  BY <1>4, <1>5, <1>6 DEF items
-----------------------------------------------------------------------------
\* The items between the senders and the LCD.
Between == hand \o disp_queue

DisplayInv ==
    /\ disp_queue \in Seq(Items) /\ Len(disp_queue) <= QueueLength
    /\ hand \in Seq(Items) /\ Len(hand) <= 1
    /\ lcd \in LCDs
    /\ IsFiniteSet(BlocksOf(Between)) /\ NoLeak

LEMMA DisplayTypes ==
    ASSUME DisplayInv
    PROVE  DisplayTypeOK /\ Between \in Seq(Items) /\ CaughtUp \in LCDs
<1>3. Between \in Seq(Items)
  BY ConcatProperties DEF DisplayInv, Between
<1>4. heap \in Nat
  BY FS_CardinalityType DEF DisplayInv, NoLeak, Between
<1>6. DisplayTypeOK
  BY <1>4 DEF DisplayInv, DisplayTypeOK
<1>7. CaughtUp \in LCDs
  BY <1>3, DrawnType DEF DisplayInv, CaughtUp, Between
<1> QED
  BY <1>3, <1>6, <1>7

\* Nothing waits for an LCD that has only been powered.
LEMMA DisplayStarts ==
    ASSUME DisplayInit, lcd \in LCDs
    PROVE  DisplayInv /\ CaughtUp = lcd
<1>1. disp_queue = << >> /\ hand = << >> /\ heap = 0 /\ Between = << >>
  BY DEF DisplayInit, Between
<1>2. BlocksOf(Between) = {}
  BY <1>1 DEF BlocksOf
<1>3. << >> \in Seq(Items) /\ Len(<< >>) = 0
  OBVIOUS
<1>4. CaughtUp = lcd
  BY <1>1, DrawnEmpty DEF CaughtUp, Between
<1>5. IsFiniteSet(BlocksOf(Between)) /\ NoLeak
  BY <1>1, <1>2, FS_EmptySet DEF NoLeak, Between
<1> QED
  BY <1>1, <1>3, <1>4, <1>5, DisplayAssumption DEF DisplayInv, DisplayAssumption

\* An item that is sent will be the last to be obeyed.
LEMMA SendStep ==
    ASSUME DisplayInv, NEW item \in Items, Send(item)
    PROVE  DisplayInv' /\ CaughtUp' = Obey(CaughtUp, item)
<1>1. disp_queue' = Append(disp_queue, item) /\ UNCHANGED <<hand, lcd>>
      /\ heap' = heap + Blocks(item) /\ Len(disp_queue) < QueueLength
  BY DEF Send
<1>2. disp_queue' \in Seq(Items) /\ Len(disp_queue') <= QueueLength
  BY <1>1, AppendProperties, LenProperties, DisplayAssumption DEF DisplayInv, DisplayAssumption
<1>3. Between \in Seq(Items)
  BY DisplayTypes
<1>4. Between' = Append(Between, item)
  <2>1. \A s, t \in Seq(Items) : s \o Append(t, item) = Append(s \o t, item)
    OBVIOUS
  <2> QED
    BY <1>1, <2>1 DEF Between, DisplayInv
<1>5. IsFiniteSet(BlocksOf(Between')) /\ Cardinality(BlocksOf(Between')) = Cardinality(BlocksOf(Between)) + Blocks(item)
  BY <1>3, <1>4, BlocksAppend DEF DisplayInv
<1>6. NoLeak'
  BY <1>1, <1>5 DEF NoLeak, DisplayInv, Between
<1>7. CaughtUp' = Obey(CaughtUp, item)
  BY <1>1, <1>3, <1>4, DrawnAppend DEF CaughtUp, Between
<1> QED
  BY <1>1, <1>2, <1>5, <1>6, <1>7 DEF DisplayInv

\* The display task carries out what was sent, in order, and frees it: what the
\* LCD will show stays the same.
LEMMA ManagerStep ==
    ASSUME DisplayInv, Manager
    PROVE  DisplayInv' /\ CaughtUp' = CaughtUp
<1>1. CASE Receive
  <2>1. hand = << >> /\ disp_queue # << >> /\ hand' = <<Head(disp_queue)>>
        /\ disp_queue' = Tail(disp_queue) /\ UNCHANGED <<heap, lcd>>
    BY <1>1 DEF Receive
  <2>2. Head(disp_queue) \in Items /\ Tail(disp_queue) \in Seq(Items)
        /\ Len(Tail(disp_queue)) = Len(disp_queue) - 1 /\ Len(disp_queue) \in Nat
    BY <2>1, HeadTailProperties, LenProperties DEF DisplayInv
  <2>3. hand' \in Seq(Items) /\ Len(hand') = 1
    BY <2>1, <2>2
  <2>4. Between' = Between
    <3>1. \A s \in Seq(Items) : s # << >> => <<Head(s)>> \o Tail(s) = s
      OBVIOUS
    <3>2. \A s \in Seq(Items) : << >> \o s = s
      OBVIOUS
    <3> QED
      BY <2>1, <3>1, <3>2 DEF Between, DisplayInv
  <2>5. CaughtUp' = CaughtUp /\ (NoLeak' <=> NoLeak)
    BY <2>1, <2>4 DEF CaughtUp, NoLeak, Between
  <2> QED
    BY <2>1, <2>2, <2>3, <2>4, <2>5, DisplayAssumption DEF DisplayInv, DisplayAssumption
<1>2. CASE Carry
  <2>1. hand # << >> /\ lcd' = Obey(lcd, Head(hand)) /\ heap' = heap - Blocks(Head(hand))
        /\ hand' = << >> /\ disp_queue' = disp_queue
    BY <1>2 DEF Carry, Freed
  <2>2. Head(hand) \in Items /\ Between \in Seq(Items) /\ Between # << >> /\ Head(Between) = Head(hand)
        /\ Tail(Between) = disp_queue
    <3>1. Len(hand) = 1 /\ hand[1] = Head(hand) /\ hand[1] \in Items
      <4>1. Len(hand) \in Nat /\ Len(hand) <= 1 /\ hand \in Seq(Items)
        BY LenProperties DEF DisplayInv
      <4>2. Len(hand) # 0 /\ Head(hand) \in Items /\ Head(hand) = hand[1]
        BY <2>1, <4>1, HeadTailProperties, EmptySeq
      <4>3. \A n \in Nat : n <= 1 /\ n # 0 => n = 1
        OBVIOUS
      <4> QED
        BY <4>1, <4>2, <4>3, Zenon
    <3>2. hand = <<hand[1]>>
      BY <3>1 DEF DisplayInv
    <3>3. \A x \in Items, s \in Seq(Items) : LET t == <<x>> \o s
             IN t \in Seq(Items) /\ t # << >> /\ Head(t) = x /\ Tail(t) = s
      OBVIOUS
    <3> QED
      BY <3>1, <3>2, <3>3 DEF Between, DisplayInv
  <2>3. Between' = Tail(Between)
    <3>1. \A s \in Seq(Items) : << >> \o s = s
      OBVIOUS
    <3> QED
      BY <2>1, <2>2, <3>1 DEF Between, DisplayInv
  <2>4. IsFiniteSet(BlocksOf(Between')) /\ Cardinality(BlocksOf(Between)) = Cardinality(BlocksOf(Between')) + Blocks(Head(hand))
    BY <2>2, <2>3, BlocksHead DEF DisplayInv
  <2>5. NoLeak'
    <3>1. Cardinality(BlocksOf(Between')) \in Nat /\ Blocks(Head(hand)) \in Nat
      BY <2>4, FS_CardinalityType DEF Blocks
    <3>2. heap = Cardinality(BlocksOf(Between)) /\ (NoLeak' <=> heap' = Cardinality(BlocksOf(Between')))
      BY DEF NoLeak, DisplayInv, Between
    <3> QED
      BY <2>1, <2>4, <3>1, <3>2
  <2>6. CaughtUp' = CaughtUp
    <3>1. Drawn(lcd, Between) = Drawn(lcd', Between')
      BY <2>1, <2>2, <2>3, DrawnHead
    <3> QED
      BY <3>1 DEF CaughtUp, Between
  <2>7. lcd' \in LCDs
    BY <2>1, <2>2, ObeyType DEF DisplayInv
  <2> QED
    BY <2>1, <2>4, <2>5, <2>6, <2>7 DEF DisplayInv
<1> QED
  BY <1>1, <1>2 DEF Manager
=============================================================================
