--------------------------- MODULE ChatViewProofs ---------------------------
(***************************************************************************)
(* Theorems about the chat of ChatView over the list of ChatList.          *)
(*                                                                         *)
(* 1. Numbers, sequences and the rows above an item: what the recursive    *)
(*    functions of ChatList compute, by the least counterexample.          *)
(* 2. The list: scrolling moves by as many rows as were asked for, and a   *)
(*    click hits what is drawn.                                            *)
(* 3. The chat: what every operation keeps of a good chat (Good), and when *)
(*    it leaves the end of the conversation in view (Ends).                *)
(* 4. The messages: a step of the conversation changes the items as it     *)
(*    changes what is stored (Shown).                                      *)
(* 5. The inductive invariant IInv, and the theorems.                      *)
(***************************************************************************)
EXTENDS ChatView, WellFoundedInduction, TLAPS

-----------------------------------------------------------------------------
(* Induction, and the ends of a set of numbers.                            *)

(* A set of naturals has a least element.                                  *)
LEMMA LeastOf ==
  ASSUME NEW T, T \subseteq Nat, T # {}
  PROVE  \E n \in T : \A m \in T : n <= m
<1> DEFINE R == OpToRel(<, Nat)
<1>1. IsWellFoundedOn(R, Nat)
  BY NatLessThanWellFounded
<1>2. \A x \in Nat, y \in Nat : x < y => <<x, y>> \in R
  BY Zenon DEF OpToRel
<1> HIDE DEF R
<1>3. PICK x \in T : \A y \in T : <<y, x>> \notin R
  BY <1>1, WFMin
<1>4. \A y \in T : ~(y < x)
  BY <1>2, <1>3
<1>. QED
  BY <1>3, <1>4

(* A set with 0 that has the successor of each of its members has them all. *)
LEMMA Induction ==
  ASSUME NEW T, 0 \in T, \A n \in Nat : n \in T => n + 1 \in T
  PROVE  \A n \in Nat : n \in T
<1> SUFFICES ASSUME NEW n \in Nat, n \notin T PROVE FALSE
  OBVIOUS
<1> DEFINE Out == {k \in Nat : k \notin T}
<1>1. PICK m \in Out : \A k \in Out : m <= k
  BY LeastOf
<1>2. m # 0 /\ m - 1 \in Nat
  OBVIOUS
<1>3. m - 1 \in T
  BY <1>1, <1>2
<1>. QED
  BY <1>1, <1>2, <1>3

LEMMA MinIs ==
  ASSUME NEW S \in SUBSET Int, NEW n \in S, \A i \in S : n <= i
  PROVE  Min(S) = n
<1>1. \A x \in S : (\A y \in S : x =< y) => x = n
  OBVIOUS
<1>2. Min(S) \in S /\ \A y \in S : Min(S) =< y
  BY Zenon DEF Min
<1>. QED
  BY <1>1, <1>2

LEMMA MaxIs ==
  ASSUME NEW S \in SUBSET Int, NEW n \in S, \A i \in S : i <= n
  PROVE  Max(S) = n
<1>1. \A x \in S : (\A y \in S : x >= y) => x = n
  OBVIOUS
<1>2. n \in S /\ \A y \in S : n >= y
  OBVIOUS
<1>3. Max(S) \in S /\ \A y \in S : Max(S) >= y
  BY <1>2, Zenon DEF Max
<1>. QED
  BY <1>1, <1>3

LEMMA MinOf ==
  ASSUME NEW S \in SUBSET Nat, S # {}
  PROVE  Min(S) \in S /\ \A i \in S : Min(S) <= i
<1>1. PICK n \in S : \A i \in S : n <= i
  BY LeastOf
<1>2. Min(S) = n
  BY <1>1, MinIs
<1>. QED
  BY <1>1, <1>2

LEMMA MaxOf ==
  ASSUME NEW n \in Nat, NEW S \in SUBSET (0 .. n), S # {}
  PROVE  Max(S) \in S /\ \A i \in S : i <= Max(S)
<1> DEFINE T == {k \in 0 .. n : n - k \in S}
<1>1. T \subseteq Nat /\ T # {}
  <2>1. PICK i \in S : TRUE
    OBVIOUS
  <2>2. n - i \in T
    BY <2>1
  <2>3. T \subseteq Nat
    OBVIOUS
  <2>. QED
    BY <2>2, <2>3, Zenon
<1>2. PICK k \in T : \A j \in T : k <= j
  BY <1>1, LeastOf
<1>3. ASSUME NEW i \in S PROVE i <= n - k
  <2>1. n - i \in T
    OBVIOUS
  <2>. QED
    BY <1>2, <2>1
<1>4. Max(S) = n - k
  BY <1>2, <1>3, MaxIs
<1>. QED
  BY <1>2, <1>3, <1>4

-----------------------------------------------------------------------------
(* FlattenSeq adds one sequence after the other.                           *)

Flat(f, m, n) == f = [i \in 1 .. n |-> IF i = 1 THEN m[i] ELSE f[i - 1] \o m[i]]

LEMMA FlatExists == \A m : \A n \in Nat : \E f : Flat(f, m, n)
<1> SUFFICES ASSUME NEW m PROVE \A n \in Nat : \E f : Flat(f, m, n)
  OBVIOUS
<1> DEFINE T == {n \in Nat : \E f : Flat(f, m, n)}
<1>1. 0 \in T
  <2> DEFINE f == [i \in 1 .. 0 |-> 0]
  <2>1. Flat(f, m, 0)
    BY DEF Flat
  <2>. QED
    BY <2>1
<1>2. ASSUME NEW n \in Nat, n \in T PROVE n + 1 \in T
  <2>1. PICK f : Flat(f, m, n)
    BY <1>2
  <2> DEFINE g == [i \in 1 .. n + 1 |->
                     IF i \in 1 .. n THEN f[i]
                     ELSE IF i = 1 THEN m[i] ELSE f[n] \o m[i]]
  <2>2. ASSUME NEW i \in 1 .. n + 1
        PROVE  g[i] = IF i = 1 THEN m[i] ELSE g[i - 1] \o m[i]
    <3>1. CASE i \in 1 .. n
      <4>1. g[i] = f[i] /\ f[i] = IF i = 1 THEN m[i] ELSE f[i - 1] \o m[i]
        BY <2>1, <3>1 DEF Flat
      <4>2. i # 1 => g[i - 1] = f[i - 1]
        BY <3>1
      <4>. QED
        BY <4>1, <4>2, Zenon
    <3>2. CASE i = n + 1 /\ n # 0
      <4>1. i - 1 = n /\ i \notin 1 .. n /\ n \in 1 .. n /\ n \in 1 .. n + 1 /\ i # 1
        BY <3>2
      <4>2. g[n] = f[n]
        BY <4>1, Zenon
      <4>3. g[i] = f[n] \o m[i]
        BY <4>1, Zenon
      <4>. QED
        BY <4>1, <4>2, <4>3, Zenon
    <3>3. CASE i = n + 1 /\ n = 0
      BY <3>3
    <3>. QED
      BY <3>1, <3>2, <3>3
  <2>3. Flat(g, m, n + 1)
    BY <2>2, Zenon DEF Flat
  <2> HIDE DEF g
  <2>. QED
    BY <2>3
<1> HIDE DEF T
<1>3. \A n \in Nat : n \in T
  BY <1>1, <1>2, Induction
<1>. QED
  BY <1>3 DEF T

LEMMA FlattenIs ==
  ASSUME NEW m, Len(m) \in Nat \ {0}
  PROVE  \E f : /\ f[1] = m[1]
                /\ \A i \in 1 .. Len(m) - 1 : f[i + 1] = f[i] \o m[i + 1]
                /\ FlattenSeq(m) = f[Len(m)]
<1> DEFINE n == Len(m)
           f == CHOOSE f : Flat(f, m, Len(m))
<1>1. \E g : Flat(g, m, n)
  BY FlatExists
<1>2. Flat(f, m, n)
  BY <1>1, Zenon
<1>3. FlattenSeq(m) = f[n]
  BY Zenon DEF FlattenSeq, Flat
<1> HIDE DEF f
<1>4. f[1] = m[1] /\ \A i \in 1 .. n - 1 : f[i + 1] = f[i] \o m[i + 1]
  <2>1. \A i \in 1 .. n : f[i] = IF i = 1 THEN m[i] ELSE f[i - 1] \o m[i]
    BY <1>2, Zenon DEF Flat
  <2>3. 1 \in 1 .. n
    OBVIOUS
  <2>4. ASSUME NEW i \in 1 .. n - 1 PROVE f[i + 1] = f[i] \o m[i + 1]
    <3>0. PICK k \in 1 .. n : k = i + 1
      OBVIOUS
    <3>1. f[k] = IF k = 1 THEN m[k] ELSE f[k - 1] \o m[k]
      BY <2>1, Zenon
    <3>2. k # 1 /\ k - 1 = i
      BY <3>0
    <3>3. f[k] = f[i] \o m[k]
      BY <3>1, <3>2, Zenon
    <3>. QED
      BY <3>0, <3>3, Zenon
  <2>. QED
    BY <2>1, <2>3, <2>4, Zenon
<1>. QED
  BY <1>3, <1>4, Zenon

-----------------------------------------------------------------------------
(* The rows of a list.                                                     *)

ItemId == [msg : Nat, part : Part]
OneItem == [id : ItemId, spins : BOOLEAN, h : Nat \ {0}]
Items == Seq(OneItem)

LEMMA ItemsAre ==
  ASSUME NEW items \in Items
  PROVE  /\ Len(items) \in Nat
         /\ \A k \in 1 .. Len(items) :
                /\ items[k] \in OneItem
                /\ items[k].id \in ItemId
                /\ items[k].spins \in BOOLEAN
                /\ items[k].h \in Nat \ {0}
                /\ items[k].h \in Nat
<1>1. Len(items) \in Nat /\ \A k \in 1 .. Len(items) : items[k] \in OneItem
  BY DEF Items
<1>. QED
  BY <1>1 DEF OneItem

IsStarts(f, items, n) ==
    f = [k \in 0 .. n |-> IF k = 0 THEN 0 ELSE f[k - 1] + items[k].h + gap]

LEMMA StartsExist == \A items : \A n \in Nat : \E f : IsStarts(f, items, n)
<1> SUFFICES ASSUME NEW items PROVE \A n \in Nat : \E f : IsStarts(f, items, n)
  OBVIOUS
<1> DEFINE T == {n \in Nat : \E f : IsStarts(f, items, n)}
<1>1. 0 \in T
  <2> DEFINE f == [k \in 0 .. 0 |-> 0]
  <2>1. IsStarts(f, items, 0)
    BY DEF IsStarts
  <2>. QED
    BY <2>1
<1>2. ASSUME NEW n \in Nat, n \in T PROVE n + 1 \in T
  <2>1. PICK f : IsStarts(f, items, n)
    BY <1>2
  <2> DEFINE g == [k \in 0 .. n + 1 |->
                     IF k \in 0 .. n THEN f[k] ELSE f[n] + items[k].h + gap]
  <2>2. ASSUME NEW k \in 0 .. n + 1
        PROVE  g[k] = IF k = 0 THEN 0 ELSE g[k - 1] + items[k].h + gap
    <3>1. CASE k \in 0 .. n
      <4>1. g[k] = f[k] /\ f[k] = IF k = 0 THEN 0 ELSE f[k - 1] + items[k].h + gap
        BY <2>1, <3>1 DEF IsStarts
      <4>2. k # 0 => g[k - 1] = f[k - 1]
        BY <3>1
      <4>. QED
        BY <4>1, <4>2, Zenon
    <3>2. CASE k = n + 1
      <4>1. k - 1 = n /\ k \notin 0 .. n /\ n \in 0 .. n /\ n \in 0 .. n + 1 /\ k # 0
        BY <3>2
      <4>2. g[n] = f[n] /\ g[k] = f[n] + items[k].h + gap
        BY <4>1, Zenon
      <4>. QED
        BY <4>1, <4>2, Zenon
    <3>. QED
      BY <3>1, <3>2
  <2>3. IsStarts(g, items, n + 1)
    BY <2>2, Zenon DEF IsStarts
  <2> HIDE DEF g
  <2>. QED
    BY <2>3
<1> HIDE DEF T
<1>3. \A n \in Nat : n \in T
  BY <1>1, <1>2, Induction
<1>. QED
  BY <1>3 DEF T

(* The recursive function Starts is what its equation says.                *)
LEMMA StartsIs ==
  ASSUME NEW items \in Items
  PROVE  /\ Starts(items)[0] = 0
         /\ \A k \in 0 .. Len(items) : Starts(items)[k] \in Nat
         /\ \A k \in 1 .. Len(items) :
                Starts(items)[k] = Starts(items)[k - 1] + items[k].h + gap
<1> DEFINE n == Len(items)
           f == CHOOSE f : IsStarts(f, items, n)
<1>0. n \in Nat /\ \A k \in 1 .. n : items[k].h \in Nat
  BY ItemsAre
<1>1. Starts(items) = f
  BY Zenon DEF Starts, IsStarts
<1>2. IsStarts(f, items, n)
  BY <1>0, StartsExist
<1> HIDE DEF f, n
<1>3. \A k \in 0 .. n : f[k] = IF k = 0 THEN 0 ELSE f[k - 1] + items[k].h + gap
  BY <1>2, Zenon DEF IsStarts
<1>4. f[0] = 0 /\ \A k \in 1 .. n : f[k] = f[k - 1] + items[k].h + gap
  BY <1>0, <1>3
<1> DEFINE T == {k \in Nat : k <= n => f[k] \in Nat}
<1>5. 0 \in T
  BY <1>4
<1>6. ASSUME NEW k \in Nat, k \in T PROVE k + 1 \in T
  <2>1. SUFFICES ASSUME k + 1 <= n PROVE f[k + 1] \in Nat
    OBVIOUS
  <2>2. f[k + 1] = f[k] + items[k + 1].h + gap
    BY <1>0, <1>4, <2>1
  <2>. QED
    BY <1>0, <1>6, <2>1, <2>2, GapNat
<1> HIDE DEF T
<1>7. \A k \in Nat : k \in T
  BY <1>5, <1>6, Induction
<1>8. \A k \in 0 .. n : f[k] \in Nat
  BY <1>0, <1>7 DEF T
<1>. QED
  BY <1>1, <1>4, <1>8 DEF n

(* Every item begins below the one above it and the gap.                   *)
LEMMA StartsGrow ==
  ASSUME NEW items \in Items
  PROVE  \A i, j \in 0 .. Len(items) : i < j =>
             Starts(items)[i] + items[i + 1].h + gap <= Starts(items)[j]
<1> DEFINE n == Len(items)
           s == Starts(items)
<1>0. n \in Nat /\ \A k \in 1 .. n : items[k].h \in Nat
  BY ItemsAre
<1>1. /\ \A k \in 0 .. n : s[k] \in Nat
      /\ \A k \in 1 .. n : s[k] = s[k - 1] + items[k].h + gap
  BY StartsIs
<1> HIDE DEF n, s
<1> SUFFICES ASSUME NEW i \in 0 .. n
             PROVE  \A j \in 0 .. n : i < j => s[i] + items[i + 1].h + gap <= s[j]
  BY DEF n, s
<1> DEFINE T == {d \in Nat : i + 1 + d <= n => s[i] + items[i + 1].h + gap <= s[i + 1 + d]}
<1>2. 0 \in T
  <2>1. SUFFICES ASSUME i + 1 <= n PROVE s[i] + items[i + 1].h + gap <= s[i + 1]
    BY <1>0
  <2>2. i + 1 \in 1 .. n /\ i + 1 \in 0 .. n /\ (i + 1) - 1 = i
    BY <1>0, <2>1
  <2>3. s[i + 1] = s[i] + items[i + 1].h + gap
    BY <1>1, <2>2
  <2>. QED
    BY <1>1, <2>2, <2>3
<1>3. ASSUME NEW d \in Nat, d \in T PROVE d + 1 \in T
  <2>1. SUFFICES ASSUME i + 1 + (d + 1) <= n
                 PROVE  s[i] + items[i + 1].h + gap <= s[i + 1 + (d + 1)]
    BY <1>0
  <2> DEFINE k == i + 1 + d
  <2>2. k \in 1 .. n /\ k + 1 \in 1 .. n /\ (k + 1) - 1 = k /\ i + 1 + (d + 1) = k + 1
    BY <1>0, <2>1
  <2>3. s[k + 1] = s[k] + items[k + 1].h + gap
    BY <1>1, <2>2
  <2>4. s[i] + items[i + 1].h + gap <= s[k]
    BY <1>0, <1>3, <2>1
  <2>5. /\ s[k] \in Nat /\ s[k + 1] \in Nat /\ s[i] \in Nat
        /\ items[k + 1].h \in Nat /\ items[i + 1].h \in Nat
    BY <1>0, <1>1, <2>2
  <2> HIDE DEF k
  <2>6. s[i] + items[i + 1].h + gap <= s[k + 1]
    BY <2>3, <2>4, <2>5, GapNat
  <2>. QED
    BY <2>2, <2>6
<1> HIDE DEF T
<1>4. \A d \in Nat : d \in T
  BY <1>2, <1>3, Induction
<1>5. ASSUME NEW j \in 0 .. n, i < j PROVE s[i] + items[i + 1].h + gap <= s[j]
  <2>1. j - (i + 1) \in Nat /\ i + 1 + (j - (i + 1)) = j
    BY <1>0, <1>5
  <2>2. j - (i + 1) \in T
    BY <1>4, <2>1
  <2>. QED
    BY <2>1, <2>2 DEF T
<1>. QED
  BY <1>5

(* The walks in terms of Starts.                                           *)
LEMMA RowsOf ==
  ASSUME NEW l, l.items \in Items
  PROVE  /\ \A i, j \in 0 .. Len(l.items) : i <= j =>
                Stack(l, i, j) = Starts(l.items)[j] - Starts(l.items)[i]
         /\ \A i \in Indices(l) :
                /\ HeightAt(l, i) = l.items[i + 1].h
                /\ HeightAt(l, i) \in Nat \ {0}
                /\ Starts(l.items)[i + 1] = Starts(l.items)[i] + HeightAt(l, i) + gap
         /\ \A i, j \in Indices(l) : i <= j =>
                Extent(l, i, j) = Starts(l.items)[j + 1] - Starts(l.items)[i] - gap
<1>0. Len(l.items) \in Nat /\ \A k \in 1 .. Len(l.items) : l.items[k].h \in Nat \ {0}
  BY ItemsAre
<1>1. \A k \in 0 .. Len(l.items) : Starts(l.items)[k] \in Nat
  BY StartsIs
<1>2. ASSUME NEW i \in 0 .. Len(l.items), NEW j \in 0 .. Len(l.items), i <= j
      PROVE  Stack(l, i, j) = Starts(l.items)[j] - Starts(l.items)[i]
  <2>1. AtLeastZero(i) = i
    BY DEF AtLeastZero
  <2>2. Starts(l.items)[i] \in Nat /\ Starts(l.items)[j] \in Nat
    BY <1>1
  <2>3. CASE i < j
    BY <2>1, <2>3 DEF Stack
  <2>4. CASE i = j
    BY <2>2, <2>4 DEF Stack
  <2>. QED
    BY <1>2, <2>3, <2>4
<1>3. ASSUME NEW i \in Indices(l)
      PROVE  /\ HeightAt(l, i) = l.items[i + 1].h
             /\ HeightAt(l, i) \in Nat \ {0}
             /\ Starts(l.items)[i + 1] = Starts(l.items)[i] + HeightAt(l, i) + gap
  <2>1. i + 1 \in 1 .. Len(l.items) /\ (i + 1) - 1 = i
    BY <1>0 DEF Indices, LastIdx
  <2>2. HeightAt(l, i) = l.items[i + 1].h
    BY DEF HeightAt, ItemAt
  <2>3. Starts(l.items)[i + 1] = Starts(l.items)[i] + l.items[i + 1].h + gap
    BY <2>1, StartsIs
  <2>. QED
    BY <1>0, <2>1, <2>2, <2>3
<1>4. ASSUME NEW i \in Indices(l), NEW j \in Indices(l), i <= j
      PROVE  Extent(l, i, j) = Starts(l.items)[j + 1] - Starts(l.items)[i] - gap
  <2>1. i \in 0 .. Len(l.items) /\ j \in 0 .. Len(l.items) /\ j + 1 \in 0 .. Len(l.items)
    BY <1>0 DEF Indices, LastIdx
  <2>2. Extent(l, i, j) = Stack(l, i, j) + HeightAt(l, j)
    BY <1>4, <2>1 DEF Extent
  <2>3. Stack(l, i, j) = Starts(l.items)[j] - Starts(l.items)[i]
    BY <1>2, <1>4, <2>1
  <2>4. HeightAt(l, j) \in Nat /\ Starts(l.items)[j + 1] = Starts(l.items)[j] + HeightAt(l, j) + gap
    BY <1>3
  <2>5. Starts(l.items)[i] \in Nat /\ Starts(l.items)[j] \in Nat
    BY <1>1, <2>1
  <2>. QED
    BY <2>2, <2>3, <2>4, <2>5, GapNat
<1>. QED
  BY <1>2, <1>3, <1>4

-----------------------------------------------------------------------------
(* A chat is the list's record with fields of its own.                     *)

Index == UNION {[S -> Nat] : S \in SUBSET ItemId}

Chats ==
    [items : Items, height : Nat \ {0}, selectedIdx : Int, offsetIdx : Int,
     offsetLine : Nat, follow : BOOLEAN, idInxMap : Index,
     paused : SUBSET ItemId, ticks : SUBSET ItemId, click : BOOLEAN]

LEMMA ChatIs ==
  ASSUME NEW c \in Chats
  PROVE  /\ c.items \in Items /\ Len(c.items) \in Nat
         /\ c.height \in Nat \ {0} /\ c.height \in Nat
         /\ c.selectedIdx \in Int
         /\ c.offsetIdx \in Int
         /\ c.offsetLine \in Nat
         /\ c.follow \in BOOLEAN
         /\ c.idInxMap \in Index
         /\ c.paused \in SUBSET ItemId
         /\ c.ticks \in SUBSET ItemId
         /\ c.click \in BOOLEAN
<1>1. c.items \in Items
  BY DEF Chats
<1>. QED
  BY <1>1, ItemsAre DEF Chats

(* Nothing but the place where the view begins has changed.                *)
OffsetOnly(c, d) ==
    /\ d \in Chats
    /\ d.items = c.items /\ d.height = c.height
    /\ d.selectedIdx = c.selectedIdx /\ d.follow = c.follow
    /\ d.idInxMap = c.idInxMap /\ d.paused = c.paused
    /\ d.ticks = c.ticks /\ d.click = c.click

LEMMA BeginAtIs ==
  ASSUME NEW c \in Chats, NEW i \in Int, NEW k \in Nat
  PROVE  /\ OffsetOnly(c, BeginAt(c, i, k))
         /\ BeginAt(c, i, k).offsetIdx = i
         /\ BeginAt(c, i, k).offsetLine = k
  BY DEF Chats, BeginAt, OffsetOnly

LEMMA SameRows ==
  ASSUME NEW c, NEW d, d.items = c.items
  PROVE  /\ LastIdx(d) = LastIdx(c) /\ Indices(d) = Indices(c)
         /\ \A i : ItemAt(d, i) = ItemAt(c, i) /\ HeightAt(d, i) = HeightAt(c, i)
         /\ \A i, j : Stack(d, i, j) = Stack(c, i, j) /\ Extent(d, i, j) = Extent(c, i, j)
<1>1. LastIdx(d) = LastIdx(c) /\ Indices(d) = Indices(c)
  BY Zenon DEF LastIdx, Indices
<1>2. \A i : ItemAt(d, i) = ItemAt(c, i)
  BY Zenon DEF ItemAt
<1>3. \A i : HeightAt(d, i) = HeightAt(c, i)
  BY <1>1, <1>2, Zenon DEF HeightAt
<1>4. \A i, j : Stack(d, i, j) = Stack(c, i, j)
  BY Zenon DEF Stack
<1>5. \A i, j : Extent(d, i, j) = Extent(c, i, j)
  BY <1>3, <1>4, Zenon DEF Extent
<1>. QED
  BY <1>1, <1>2, <1>3, <1>4, <1>5

Filled(c) == c \in Chats /\ c.items # <<>>
Placed(c) == Filled(c) /\ c.offsetIdx \in Indices(c)

LEMMA FilledIs ==
  ASSUME NEW c, Filled(c)
  PROVE  /\ LastIdx(c) \in Nat /\ LastIdx(c) \in Indices(c) /\ 0 \in Indices(c)
         /\ Len(c.items) = LastIdx(c) + 1
         /\ \A i \in Indices(c) : i \in Nat /\ i + 1 \in 1 .. Len(c.items)
         /\ \A i : i \in Indices(c) <=> i \in 0 .. LastIdx(c)
<1>1. c.items \in Items /\ Len(c.items) \in Nat
  BY ChatIs DEF Filled
<1>2. Len(c.items) # 0
  BY <1>1 DEF Filled, Items
<1>. QED
  BY <1>1, <1>2 DEF LastIdx, Indices

(* The rows of a list that has items, in one place: those above item i are *)
(* Starts(c.items)[i].                                                     *)
LEMMA RowsIn ==
  ASSUME NEW c, Filled(c)
  PROVE  /\ \A i \in 0 .. Len(c.items) : Starts(c.items)[i] \in Nat
         /\ Starts(c.items)[0] = 0
         /\ \A i \in Indices(c) :
                /\ HeightAt(c, i) \in Nat \ {0}
                /\ Starts(c.items)[i + 1] = Starts(c.items)[i] + HeightAt(c, i) + gap
                /\ Starts(c.items)[i] \in Nat /\ Starts(c.items)[i + 1] \in Nat
         /\ \A i \in Indices(c) : \A j \in 0 .. Len(c.items) : i < j =>
                Starts(c.items)[i] + HeightAt(c, i) + gap <= Starts(c.items)[j]
         /\ Total(c) = Starts(c.items)[LastIdx(c) + 1] - gap
         /\ Total(c) \in Nat
<1>1. c.items \in Items /\ Len(c.items) \in Nat /\ c \in Chats
  BY ChatIs DEF Filled
<1>2. /\ Starts(c.items)[0] = 0
      /\ \A i \in 0 .. Len(c.items) : Starts(c.items)[i] \in Nat
  BY <1>1, StartsIs
<1>3. ASSUME NEW i \in Indices(c)
      PROVE  /\ HeightAt(c, i) \in Nat \ {0}
             /\ Starts(c.items)[i + 1] = Starts(c.items)[i] + HeightAt(c, i) + gap
             /\ Starts(c.items)[i] \in Nat /\ Starts(c.items)[i + 1] \in Nat
             /\ \A j \in 0 .. Len(c.items) : i < j =>
                   Starts(c.items)[i] + HeightAt(c, i) + gap <= Starts(c.items)[j]
  <2>1. i \in 0 .. Len(c.items) /\ i + 1 \in 0 .. Len(c.items)
    BY <1>1 DEF Indices, LastIdx
  <2>2. /\ HeightAt(c, i) \in Nat \ {0}
        /\ Starts(c.items)[i + 1] = Starts(c.items)[i] + HeightAt(c, i) + gap
        /\ HeightAt(c, i) = c.items[i + 1].h
    BY <1>1, RowsOf
  <2>3. \A j \in 0 .. Len(c.items) : i < j =>
            Starts(c.items)[i] + c.items[i + 1].h + gap <= Starts(c.items)[j]
    BY <1>1, <2>1, StartsGrow
  <2>. QED
    BY <1>2, <2>1, <2>2, <2>3
<1> DEFINE e == LastIdx(c)
<1>4. e \in Nat /\ e \in Indices(c) /\ 0 \in Indices(c)
  BY FilledIs
<1>5. Total(c) = Starts(c.items)[e + 1] - Starts(c.items)[0] - gap
  BY <1>1, <1>4, RowsOf DEF Total
<1>6. /\ Starts(c.items)[e + 1] = Starts(c.items)[e] + HeightAt(c, e) + gap
      /\ Starts(c.items)[e] \in Nat /\ HeightAt(c, e) \in Nat
  BY <1>3, <1>4
<1>7. Total(c) = Starts(c.items)[e + 1] - gap /\ Total(c) \in Nat
  BY <1>2, <1>5, <1>6, GapNat
<1>. QED
  BY <1>2, <1>3, <1>7

LEMMA ExtentIn ==
  ASSUME NEW c, Filled(c), NEW i \in Indices(c), NEW j \in Indices(c), i <= j
  PROVE  Extent(c, i, j) = Starts(c.items)[j + 1] - Starts(c.items)[i] - gap
<1>1. c.items \in Items
  BY ChatIs DEF Filled
<1>. QED
  BY <1>1, RowsOf

LEMMA PositionIs ==
  ASSUME NEW c, Placed(c)
  PROVE  /\ Position(c) = Starts(c.items)[c.offsetIdx] + c.offsetLine
         /\ Position(c) \in Nat
<1>1. c.items \in Items /\ c.offsetLine \in Nat /\ Filled(c)
  BY ChatIs DEF Filled, Placed
<1>2. 0 \in 0 .. Len(c.items) /\ c.offsetIdx \in 0 .. Len(c.items) /\ 0 <= c.offsetIdx
  BY <1>1, FilledIs DEF Placed
<1>3. Stack(c, 0, c.offsetIdx) = Starts(c.items)[c.offsetIdx] - Starts(c.items)[0]
  BY <1>1, <1>2, RowsOf
<1>4. Starts(c.items)[0] = 0 /\ Starts(c.items)[c.offsetIdx] \in Nat
  BY <1>1, <1>2, RowsIn
<1>. QED
  BY <1>1, <1>3, <1>4 DEF Position

LEMMA MaxPositionIs ==
  ASSUME NEW c, Filled(c)
  PROVE  /\ MaxPosition(c) \in Nat
         /\ MaxPosition(c) = IF Total(c) > c.height THEN Total(c) - c.height ELSE 0
<1>1. Total(c) \in Nat /\ c.height \in Nat
  BY RowsIn, ChatIs DEF Filled
<1>. QED
  BY <1>1 DEF MaxPosition, AtLeastZero

(* The last place the view may begin at is the furthest position, and no   *)
(* item behind it begins above.                                            *)
LEMMA LastPlace ==
  ASSUME NEW c, Filled(c)
  PROVE  LET a == lastOffsetItem(c)[1]
             b == lastOffsetItem(c)[2]
         IN /\ a \in Indices(c) /\ b \in Nat
            /\ Starts(c.items)[a] + b = MaxPosition(c)
            /\ Extent(c, a, LastIdx(c)) - b <= c.height
            /\ \A i \in Indices(c) : i > a => Starts(c.items)[i] >= MaxPosition(c)
<1> DEFINE e == LastIdx(c)
           s == Starts(c.items)
           fills == {i \in Indices(c) : Extent(c, i, e) > c.height}
           a == IF fills = {} THEN 0 ELSE Max(fills)
           b == AtLeastZero(Extent(c, a, e) - c.height)
<1>1. /\ e \in Nat /\ e \in Indices(c) /\ 0 \in Indices(c)
      /\ \A i : i \in Indices(c) <=> i \in 0 .. e
  BY FilledIs
<1>2. c.height \in Nat \ {0}
  BY ChatIs DEF Filled
<1>3. \A i \in Indices(c) : /\ s[i] \in Nat
                            /\ Extent(c, i, e) = s[e + 1] - s[i] - gap
                            /\ Extent(c, i, e) = Total(c) - s[i]
  <2>1. \A i \in Indices(c) : i <= e
    BY <1>1
  <2>2. \A i \in Indices(c) : Extent(c, i, e) = s[e + 1] - s[i] - gap
    BY <1>1, <2>1, ExtentIn
  <2>3. Total(c) = s[e + 1] - gap /\ \A i \in Indices(c) : s[i] \in Nat
    BY RowsIn
  <2>4. s[e + 1] \in Nat
    BY <1>1, RowsIn
  <2>. QED
    BY <2>2, <2>3, <2>4, GapNat
<1>4. s[0] = 0 /\ Total(c) \in Nat
  BY RowsIn
<1>5. MaxPosition(c) = IF Total(c) > c.height THEN Total(c) - c.height ELSE 0
  BY MaxPositionIs
<1>6. lastOffsetItem(c)[1] = a /\ lastOffsetItem(c)[2] = b
  BY DEF lastOffsetItem
<1> HIDE DEF e, s, a
<1>7. a \in Indices(c) /\ \A i \in Indices(c) : i > a => Extent(c, i, e) <= c.height
  <2>1. CASE fills = {}
    <3>1. a = 0
      BY <2>1 DEF a, e
    <3>2. \A i \in Indices(c) : ~(Extent(c, i, e) > c.height)
      BY <2>1
    <3>. QED
      BY <1>1, <1>2, <1>3, <1>4, <3>1, <3>2
  <2>2. CASE fills # {}
    <3>1. fills \in SUBSET (0 .. e)
      BY <1>1
    <3>2. Max(fills) \in fills /\ \A i \in fills : i <= Max(fills)
      BY <1>1, <2>2, <3>1, MaxOf
    <3>3. a = Max(fills)
      BY <2>2 DEF a, e
    <3> HIDE DEF fills
    <3>4. a \in Indices(c) /\ \A i \in Indices(c) : i > a => i \notin fills
      BY <1>1, <3>1, <3>2, <3>3 DEF fills
    <3>. QED
      BY <1>2, <1>3, <1>4, <3>4 DEF fills
  <2>. QED
    BY <2>1, <2>2
<1>8. a = 0 \/ Extent(c, a, e) > c.height
  <2>1. CASE fills = {}
    BY <2>1 DEF a, e
  <2>2. CASE fills # {}
    <3>1. fills \in SUBSET (0 .. e)
      BY <1>1
    <3>2. Max(fills) \in fills
      BY <1>1, <2>2, <3>1, MaxOf
    <3>3. a = Max(fills)
      BY <2>2 DEF a, e
    <3>. QED
      BY <3>2, <3>3
  <2>. QED
    BY <2>1, <2>2
<1>9. /\ b \in Nat /\ Extent(c, a, e) - b <= c.height
      /\ s[a] + b = MaxPosition(c)
  BY <1>2, <1>3, <1>4, <1>5, <1>7, <1>8 DEF AtLeastZero
<1>10. ASSUME NEW i \in Indices(c), i > a PROVE s[i] >= MaxPosition(c)
  BY <1>2, <1>3, <1>4, <1>5, <1>7, <1>10
<1>. QED
  BY <1>6, <1>7, <1>9, <1>10 DEF e, s

-----------------------------------------------------------------------------
(* Scrolling.                                                              *)

LEMMA MinPair ==
  ASSUME NEW a \in Int, NEW b \in Int
  PROVE  Min({a, b}) = IF a <= b THEN a ELSE b
<1> DEFINE m == IF a <= b THEN a ELSE b
<1>1. m \in {a, b} /\ {a, b} \in SUBSET Int /\ \A i \in {a, b} : m <= i
  OBVIOUS
<1>. QED
  BY <1>1, MinIs

(* Where a view that begins in item i, or in the gap behind it, stands.    *)
LEMMA PlaceIs ==
  ASSUME NEW c, Filled(c), NEW i \in Indices(c), NEW k \in Nat
  PROVE  /\ Placed(BeginAt(c, i, k))
         /\ OffsetOnly(c, BeginAt(c, i, k))
         /\ BeginAt(c, i, k).offsetIdx = i /\ BeginAt(c, i, k).offsetLine = k
         /\ Position(BeginAt(c, i, k)) = Starts(c.items)[i] + k
<1> DEFINE d == BeginAt(c, i, k)
<1>1. i \in Int /\ c \in Chats
  BY FilledIs DEF Filled
<1>2. OffsetOnly(c, d) /\ d.offsetIdx = i /\ d.offsetLine = k
  BY <1>1, BeginAtIs
<1> HIDE DEF d
<1>3. Filled(d) /\ d.items = c.items
  BY <1>2 DEF OffsetOnly, Filled
<1>4. Indices(d) = Indices(c)
  BY <1>3, SameRows
<1>5. Placed(d)
  BY <1>2, <1>3, <1>4 DEF Placed
<1>6. Position(d) = Starts(d.items)[d.offsetIdx] + d.offsetLine
  BY <1>5, PositionIs
<1>. QED
  BY <1>2, <1>3, <1>5, <1>6 DEF d

LEMMA BottomIs ==
  ASSUME NEW c, Filled(c)
  PROVE  /\ Placed(ListToBottom(c))
         /\ OffsetOnly(c, ListToBottom(c))
         /\ Position(ListToBottom(c)) = MaxPosition(c)
         /\ LET d == ListToBottom(c)
            IN Extent(d, d.offsetIdx, LastIdx(d)) - d.offsetLine <= d.height
<1> DEFINE a == lastOffsetItem(c)[1]
           b == lastOffsetItem(c)[2]
           d == BeginAt(c, a, b)
<1>1. /\ a \in Indices(c) /\ b \in Nat
      /\ Starts(c.items)[a] + b = MaxPosition(c)
      /\ Extent(c, a, LastIdx(c)) - b <= c.height
  BY LastPlace
<1>2. ListToBottom(c) = d
  BY Zenon DEF ListToBottom, Filled
<1> HIDE DEF a, b
<1>3. /\ Placed(d) /\ OffsetOnly(c, d) /\ d.offsetIdx = a /\ d.offsetLine = b
      /\ Position(d) = Starts(c.items)[a] + b
  BY <1>1, PlaceIs
<1> HIDE DEF d
<1>4. d.items = c.items /\ d.height = c.height
  BY <1>3 DEF OffsetOnly
<1>5. LastIdx(d) = LastIdx(c) /\ Extent(d, a, LastIdx(c)) = Extent(c, a, LastIdx(c))
  BY <1>4, SameRows
<1>. QED
  BY <1>1, <1>2, <1>3, <1>4, <1>5

LEMMA TopIs ==
  ASSUME NEW c, Filled(c)
  PROVE  /\ Placed(ListToTop(c)) /\ OffsetOnly(c, ListToTop(c))
         /\ Position(ListToTop(c)) = 0
<1>1. 0 \in Indices(c) /\ Starts(c.items)[0] = 0
  BY FilledIs, RowsIn
<1>. QED
  BY <1>1, PlaceIs DEF ListToTop

(* Two views of the same items reach equally far.                          *)
LEMMA SameReach ==
  ASSUME NEW c, NEW d, OffsetOnly(c, d)
  PROVE  /\ Total(d) = Total(c) /\ MaxPosition(d) = MaxPosition(c)
         /\ lastOffsetItem(d) = lastOffsetItem(c)
         /\ Filled(c) => Filled(d)
<1>1. d.items = c.items /\ d.height = c.height /\ d \in Chats
  BY DEF OffsetOnly
<1>2. /\ LastIdx(d) = LastIdx(c) /\ Indices(d) = Indices(c)
      /\ \A i, j : Extent(d, i, j) = Extent(c, i, j)
  BY <1>1, SameRows
<1>3. Total(d) = Total(c)
  BY <1>2, Zenon DEF Total
<1>4. MaxPosition(d) = MaxPosition(c)
  BY <1>1, <1>3, Zenon DEF MaxPosition
<1>5. {i \in Indices(d) : Extent(d, i, LastIdx(d)) > d.height}
        = {i \in Indices(c) : Extent(c, i, LastIdx(c)) > c.height}
  BY <1>1, <1>2
<1>6. lastOffsetItem(d) = lastOffsetItem(c)
  BY <1>1, <1>2, <1>5, Zenon DEF lastOffsetItem
<1>. QED
  BY <1>1, <1>3, <1>4, <1>6 DEF Filled

LEMMA TransOffsetOnly ==
  ASSUME NEW c, NEW d, NEW e, OffsetOnly(c, d), OffsetOnly(d, e)
  PROVE  OffsetOnly(c, e)
  BY DEF OffsetOnly

(* Clamp stops the view at its furthest position.                          *)
LEMMA ClampIs ==
  ASSUME NEW c, Filled(c), NEW i \in Indices(c), NEW k \in Nat, k < HeightAt(c, i)
  PROVE  LET d == Clamp(BeginAt(c, i, k))
             p == Starts(c.items)[i] + k
         IN /\ Placed(d) /\ OffsetOnly(c, d)
            /\ Position(d) = IF MaxPosition(c) <= p THEN MaxPosition(c) ELSE p
<1> DEFINE l == BeginAt(c, i, k)
           a == lastOffsetItem(c)[1]
           b == lastOffsetItem(c)[2]
           s == Starts(c.items)
           p == s[i] + k
<1>1. /\ a \in Indices(c) /\ b \in Nat /\ s[a] + b = MaxPosition(c)
      /\ \A j \in Indices(c) : j > a => s[j] >= MaxPosition(c)
  BY LastPlace
<1>2. /\ Placed(l) /\ OffsetOnly(c, l) /\ l.offsetIdx = i /\ l.offsetLine = k
      /\ Position(l) = p
  BY PlaceIs
<1>3. lastOffsetItem(l) = lastOffsetItem(c)
  BY <1>2, SameReach
<1>4. Filled(l)
  BY <1>2 DEF Placed
<1>5. /\ Placed(BeginAt(l, a, b)) /\ OffsetOnly(l, BeginAt(l, a, b))
      /\ Position(BeginAt(l, a, b)) = MaxPosition(c)
  <2>1. l.items = c.items
    BY <1>2 DEF OffsetOnly
  <2>2. a \in Indices(l)
    BY <1>1, <2>1, SameRows
  <2> HIDE DEF l, a, b
  <2>3. Position(BeginAt(l, a, b)) = Starts(l.items)[a] + b
    BY <1>1, <1>4, <2>2, PlaceIs
  <2>4. Placed(BeginAt(l, a, b)) /\ OffsetOnly(l, BeginAt(l, a, b))
    BY <1>1, <1>4, <2>2, PlaceIs
  <2>. QED
    BY <1>1, <2>1, <2>3, <2>4 DEF s
<1>6. Clamp(l) = IF l.offsetIdx > a \/ (l.offsetIdx = a /\ l.offsetLine > b)
                 THEN BeginAt(l, a, b) ELSE l
  BY <1>3, Zenon DEF Clamp
<1>7. /\ i \in Nat /\ a \in Nat /\ s[i] \in Nat /\ s[a] \in Nat /\ p \in Nat
      /\ MaxPosition(c) \in Nat /\ HeightAt(c, i) \in Nat
      /\ i < a => s[i] + HeightAt(c, i) + gap <= s[a]
  <2>1. i \in Nat /\ a \in Nat /\ a \in 0 .. Len(c.items)
    BY <1>1, FilledIs
  <2>2. /\ s[i] \in Nat /\ s[a] \in Nat /\ HeightAt(c, i) \in Nat
        /\ i < a => s[i] + HeightAt(c, i) + gap <= s[a]
    BY <1>1, <2>1, RowsIn
  <2>. QED
    BY <2>1, <2>2, MaxPositionIs
<1> HIDE DEF l, a, b, s, p
<1>8. CASE i > a
  <2>1. Clamp(l) = BeginAt(l, a, b)
    BY <1>2, <1>6, <1>8
  <2>2. MaxPosition(c) <= p
    BY <1>1, <1>7, <1>8 DEF p
  <2>. QED
    BY <1>2, <1>5, <2>1, <2>2, TransOffsetOnly DEF l, p, s
<1>9. CASE i = a /\ k > b
  <2>1. Clamp(l) = BeginAt(l, a, b)
    BY <1>2, <1>6, <1>9
  <2>2. MaxPosition(c) <= p
    BY <1>1, <1>7, <1>9 DEF p
  <2>. QED
    BY <1>2, <1>5, <2>1, <2>2, TransOffsetOnly DEF l, p, s
<1>10. CASE i < a \/ (i = a /\ k <= b)
  <2>1. Clamp(l) = l
    BY <1>1, <1>2, <1>6, <1>7, <1>10
  <2>2. p <= MaxPosition(c)
    BY <1>1, <1>7, <1>10, GapNat DEF p
  <2>3. Position(l) = IF MaxPosition(c) <= p THEN MaxPosition(c) ELSE p
    BY <1>2, <1>7, <2>2
  <2>. QED
    BY <1>2, <2>1, <2>3 DEF l, p, s
<1>11. i > a \/ (i = a /\ k > b) \/ (i < a \/ (i = a /\ k <= b))
  BY <1>1, <1>7
<1>. QED
  BY <1>8, <1>9, <1>10, <1>11

(* What is known of a view that begins inside its list.                    *)
LEMMA PlacedIs ==
  ASSUME NEW c, Placed(c)
  PROVE  LET o == c.offsetIdx
             e == LastIdx(c)
         IN /\ Filled(c) /\ c \in Chats /\ c.items \in Items
            /\ c.offsetLine \in Nat /\ c.height \in Nat
            /\ o \in Nat /\ e \in Nat /\ o <= e /\ o \in Indices(c) /\ e \in Indices(c)
            /\ Len(c.items) = e + 1 /\ o \in 0 .. Len(c.items)
            /\ \A i : i \in Indices(c) <=> i \in 0 .. e
            /\ Starts(c.items)[o] \in Nat
            /\ Position(c) = Starts(c.items)[o] + c.offsetLine
            /\ Position(c) \in Nat /\ MaxPosition(c) \in Nat
<1> DEFINE o == c.offsetIdx
           e == LastIdx(c)
<1>1. /\ Filled(c) /\ c \in Chats /\ c.items \in Items /\ c.offsetLine \in Nat
      /\ c.height \in Nat /\ o \in Indices(c)
  BY ChatIs DEF Filled, Placed
<1>2. /\ e \in Nat /\ e \in Indices(c) /\ Len(c.items) = e + 1
      /\ \A i : i \in Indices(c) <=> i \in 0 .. e
  BY <1>1, FilledIs
<1>3. o \in 0 .. e
  BY <1>1, <1>2
<1>4. Starts(c.items)[o] \in Nat
  BY <1>1, RowsIn
<1>5. MaxPosition(c) \in Nat
  BY <1>1, MaxPositionIs
<1>6. Position(c) = Starts(c.items)[o] + c.offsetLine /\ Position(c) \in Nat
  BY PositionIs
<1> HIDE DEF o, e
<1>7. o \in Nat /\ o <= e /\ o \in 0 .. e + 1
  BY <1>2, <1>3
<1>. QED
  BY <1>1, <1>2, <1>4, <1>5, <1>6, <1>7 DEF o, e

(* The walk downwards, as far as item off + n.                             *)
IsWalk(f, c, lines, n) ==
    f = [i \in c.offsetIdx .. c.offsetIdx + n |->
            IF i = c.offsetIdx THEN c.offsetLine + lines
            ELSE PastGap(f[i - 1] - HeightAt(c, i - 1))]

LEMMA WalkExists ==
  ASSUME NEW c, c.offsetIdx \in Int, NEW lines
  PROVE  \A n \in Nat : \E f : IsWalk(f, c, lines, n)
<1> DEFINE T == {n \in Nat : \E f : IsWalk(f, c, lines, n)}
           o == c.offsetIdx
           Step(v, i) == PastGap(v - HeightAt(c, i - 1))
<1>1. 0 \in T
  <2> DEFINE f == [i \in o .. o + 0 |-> c.offsetLine + lines]
  <2>1. IsWalk(f, c, lines, 0)
    BY DEF IsWalk
  <2>. QED
    BY <2>1
<1>2. ASSUME NEW n \in Nat, n \in T PROVE n + 1 \in T
  <2>1. PICK f : IsWalk(f, c, lines, n)
    BY <1>2
  <2> DEFINE g == [i \in o .. o + (n + 1) |->
                     IF i \in o .. o + n THEN f[i] ELSE Step(f[o + n], i)]
  <2>2. ASSUME NEW i \in o .. o + (n + 1)
        PROVE  g[i] = IF i = o THEN c.offsetLine + lines ELSE Step(g[i - 1], i)
    <3> HIDE DEF Step
    <3>1. CASE i \in o .. o + n
      <4>1. g[i] = f[i] /\ f[i] = IF i = o THEN c.offsetLine + lines ELSE Step(f[i - 1], i)
        BY <2>1, <3>1, Zenon DEF IsWalk, Step
      <4>2. i # o => g[i - 1] = f[i - 1]
        BY <3>1
      <4>. QED
        BY <4>1, <4>2, Zenon
    <3>2. CASE i = o + (n + 1)
      <4>1. i - 1 = o + n /\ i \notin o .. o + n /\ o + n \in o .. o + n
            /\ o + n \in o .. o + (n + 1) /\ i # o
        BY <3>2
      <4>2. g[o + n] = f[o + n] /\ g[i] = Step(f[o + n], i)
        BY <4>1, Zenon
      <4>. QED
        BY <4>1, <4>2, Zenon
    <3>. QED
      BY <3>1, <3>2
  <2>3. IsWalk(g, c, lines, n + 1)
    BY <2>2, Zenon DEF IsWalk
  <2> HIDE DEF g
  <2>. QED
    BY <2>3
<1> HIDE DEF T
<1>3. \A n \in Nat : n \in T
  BY <1>1, <1>2, Induction
<1>. QED
  BY <1>3 DEF T

(* The rows that are left on reaching an item: those that the new position *)
(* lies below its top, none when it lies in the gap above.                 *)
LEMMA DownIs ==
  ASSUME NEW c, Placed(c), NEW lines \in Nat
  PROVE  \E f : LET p == Position(c) + lines
                    stops == {i \in c.offsetIdx .. LastIdx(c) : f[i] < HeightAt(c, i)}
                IN /\ \A i \in c.offsetIdx .. LastIdx(c) :
                         f[i] = AtLeastZero(p - Starts(c.items)[i])
                   /\ Down(c, lines) =
                         IF stops = {} THEN ListToBottom(c)
                         ELSE Clamp(BeginAt(c, Min(stops), f[Min(stops)]))
<1> DEFINE o == c.offsetIdx
           e == LastIdx(c)
           s == Starts(c.items)
           p == Position(c) + lines
           f == CHOOSE f : f = [i \in o .. e |->
                    IF i = o THEN c.offsetLine + lines
                    ELSE PastGap(f[i - 1] - HeightAt(c, i - 1))]
<1>0. Filled(c) /\ c.offsetLine \in Nat
  BY PlacedIs
<1>1. /\ o \in Nat /\ e \in Nat /\ o <= e
      /\ \A i \in o .. e : i \in Indices(c)
  <2>1. o \in Nat /\ e \in Nat /\ o <= e /\ \A i : i \in Indices(c) <=> i \in 0 .. e
    BY PlacedIs
  <2> HIDE DEF o, e
  <2>. QED
    BY <2>1
<1>2. /\ p \in Nat /\ p = s[o] + c.offsetLine + lines
      /\ s[o] \in Nat
  <2>1. /\ s[o] \in Nat /\ c.offsetLine \in Nat
        /\ Position(c) = s[o] + c.offsetLine
    BY PlacedIs
  <2> HIDE DEF s, o
  <2>. QED
    BY <2>1
<1>3. Down(c, lines) =
          LET stops == {i \in o .. e : f[i] < HeightAt(c, i)}
          IN IF stops = {} THEN ListToBottom(c)
             ELSE Clamp(BeginAt(c, Min(stops), f[Min(stops)]))
  BY Zenon DEF Down
<1>4. f = [i \in o .. e |->
              IF i = o THEN c.offsetLine + lines
              ELSE PastGap(f[i - 1] - HeightAt(c, i - 1))]
  <2>1. e - o \in Nat /\ o + (e - o) = e /\ c.offsetIdx \in Int
    BY <1>1
  <2>2. \E g : IsWalk(g, c, lines, e - o)
    BY <2>1, WalkExists
  <2>3. \E g : g = [i \in o .. e |->
                       IF i = o THEN c.offsetLine + lines
                       ELSE PastGap(g[i - 1] - HeightAt(c, i - 1))]
    BY <2>1, <2>2, Zenon DEF IsWalk
  <2>. QED
    BY <2>3, Zenon
<1> HIDE DEF f, o, e, p, s
<1>5. \A i \in o .. e : f[i] = IF i = o THEN c.offsetLine + lines
                               ELSE PastGap(f[i - 1] - HeightAt(c, i - 1))
  BY <1>4, Zenon
<1> DEFINE T == {d \in Nat : o + d <= e => f[o + d] = AtLeastZero(p - s[o + d])}
<1>6. 0 \in T
  <2>1. o + 0 = o /\ o \in o .. e
    BY <1>1
  <2>2. f[o] = c.offsetLine + lines
    BY <1>5, <2>1
  <2>3. AtLeastZero(p - s[o]) = c.offsetLine + lines
    BY <1>0, <1>2 DEF AtLeastZero
  <2>. QED
    BY <2>1, <2>2, <2>3
<1>7. ASSUME NEW d \in Nat, d \in T PROVE d + 1 \in T
  <2>1. SUFFICES ASSUME o + (d + 1) <= e
                 PROVE  f[o + (d + 1)] = AtLeastZero(p - s[o + (d + 1)])
    BY <1>1
  <2> DEFINE i == o + d
  <2>2. /\ o + (d + 1) = i + 1 /\ i + 1 \in o .. e /\ i \in o .. e /\ i + 1 # o
        /\ (i + 1) - 1 = i
    BY <1>1, <2>1
  <2>3. f[i] = AtLeastZero(p - s[i])
    BY <1>1, <1>7, <2>1
  <2> HIDE DEF i
  <2>4. f[i + 1] = PastGap(f[i] - HeightAt(c, i))
    BY <1>5, <2>2
  <2>5. /\ HeightAt(c, i) \in Nat /\ s[i + 1] = s[i] + HeightAt(c, i) + gap
        /\ s[i] \in Nat /\ s[i + 1] \in Nat
    BY <1>0, <1>1, <2>2, RowsIn DEF s
  <2>6. f[i + 1] = AtLeastZero(p - s[i + 1])
    BY <1>2, <2>3, <2>4, <2>5, GapNat DEF PastGap, AtLeastZero
  <2>. QED
    BY <2>2, <2>6
<1> HIDE DEF T
<1>8. \A d \in Nat : d \in T
  BY <1>6, <1>7, Induction
<1>9. ASSUME NEW i \in o .. e PROVE f[i] = AtLeastZero(p - s[i])
  <2>1. i - o \in Nat /\ o + (i - o) = i /\ i <= e
    BY <1>1
  <2>. QED
    BY <1>8, <2>1 DEF T
<1>. QED
  BY <1>3, <1>9, Zenon DEF o, e, p, s

(* A row of the gap above item i stands for its first row, other rows for  *)
(* themselves.                                                             *)
LEMMA SnapIs ==
  ASSUME NEW c, Filled(c), NEW p \in Nat
  PROVE  /\ \A i \in Indices(c) :
                p < Starts(c.items)[i] /\ Starts(c.items)[i] - gap <= p =>
                    Snap(c, p) = Starts(c.items)[i]
         /\ (\A i \in Indices(c) :
                ~(p < Starts(c.items)[i] /\ Starts(c.items)[i] - gap <= p)) =>
                    Snap(c, p) = p
         /\ Snap(c, p) \in Nat /\ Snap(c, p) >= p
<1> DEFINE s == Starts(c.items)
           behind == {i \in Indices(c) : s[i] - gap <= p /\ p < s[i]}
<1>1. /\ \A i \in Indices(c) : i \in 0 .. Len(c.items) /\ 0 <= i
      /\ 0 \in 0 .. Len(c.items)
  BY FilledIs
<1>2. /\ s[0] = 0 /\ c.items \in Items
      /\ \A i \in Indices(c) : s[i] \in Nat /\ HeightAt(c, i) \in Nat \ {0}
      /\ \A i, j \in Indices(c) : i < j => s[i] + HeightAt(c, i) + gap <= s[j]
  BY <1>1, RowsIn, ChatIs DEF Filled
<1>3. \A i \in Indices(c) : Stack(c, 0, i) = s[i]
  BY <1>1, <1>2, RowsOf
<1>4. {i \in Indices(c) : Stack(c, 0, i) - gap <= p /\ p < Stack(c, 0, i)} = behind
  BY <1>3
<1>5. Snap(c, p) = IF behind = {} THEN p ELSE Stack(c, 0, CHOOSE i \in behind : TRUE)
  <2>1. Snap(c, p) =
          LET b == {i \in Indices(c) : Stack(c, 0, i) - gap <= p /\ p < Stack(c, 0, i)}
          IN IF b = {} THEN p ELSE Stack(c, 0, CHOOSE i \in b : TRUE)
    BY DEF Snap
  <2>. QED
    BY <1>4, <2>1, Zenon
<1>6. ASSUME NEW i \in behind, NEW j \in behind PROVE i = j
  <2>1. i \in Indices(c) /\ j \in Indices(c) /\ i \in Nat /\ j \in Nat
    BY <1>1
  <2>2. CASE i < j
    BY <1>2, <2>1, <2>2, GapNat
  <2>3. CASE j < i
    BY <1>2, <2>1, <2>3, GapNat
  <2>. QED
    BY <2>1, <2>2, <2>3
<1>7. ASSUME NEW i \in behind PROVE Snap(c, p) = s[i]
  <2>1. (CHOOSE j \in behind : TRUE) = i
    BY <1>6
  <2>. QED
    BY <1>3, <1>5, <2>1
<1>8. behind = {} => Snap(c, p) = p
  BY <1>5
<1> HIDE DEF s
<1>9. Snap(c, p) \in Nat /\ Snap(c, p) >= p
  BY <1>2, <1>7, <1>8
<1>. QED
  BY <1>7, <1>8, <1>9 DEF s

LEMMA AtBottomIs ==
  ASSUME NEW c, Placed(c), AtBottom(c)
  PROVE  /\ Extent(c, c.offsetIdx, LastIdx(c)) - c.offsetLine <= c.height
         /\ MaxPosition(c) <= Position(c)
<1>1. Extent(c, c.offsetIdx, LastIdx(c)) - c.offsetLine <= c.height
  BY DEF AtBottom, Placed, Filled
<1>2. /\ c.offsetIdx \in Indices(c) /\ LastIdx(c) \in Indices(c)
      /\ c.offsetIdx <= LastIdx(c) /\ Filled(c)
      /\ c.offsetIdx \in 0 .. Len(c.items) /\ LastIdx(c) + 1 \in 0 .. Len(c.items)
  BY FilledIs DEF Placed
<1>3. Extent(c, c.offsetIdx, LastIdx(c))
        = Starts(c.items)[LastIdx(c) + 1] - Starts(c.items)[c.offsetIdx] - gap
  BY <1>2, ExtentIn
<1>4. /\ Total(c) = Starts(c.items)[LastIdx(c) + 1] - gap /\ Total(c) \in Nat
      /\ Starts(c.items)[c.offsetIdx] \in Nat /\ Starts(c.items)[LastIdx(c) + 1] \in Nat
  BY <1>2, RowsIn
<1>5. Position(c) = Starts(c.items)[c.offsetIdx] + c.offsetLine /\ Position(c) \in Nat
  BY PositionIs
<1>6. c.height \in Nat /\ c.offsetLine \in Nat
  BY <1>2, ChatIs DEF Filled
<1>7. MaxPosition(c) = IF Total(c) > c.height THEN Total(c) - c.height ELSE 0
  BY <1>2, MaxPositionIs
<1> DEFINE x == Extent(c, c.offsetIdx, LastIdx(c))
           s == Starts(c.items)[c.offsetIdx]
           t == Starts(c.items)[LastIdx(c) + 1]
<1>8. MaxPosition(c) <= Position(c)
  <2>1. x = t - s - gap /\ x - c.offsetLine <= c.height
    BY <1>1, <1>3
  <2>2. Total(c) = t - gap /\ Total(c) \in Nat /\ s \in Nat /\ t \in Nat
    BY <1>4
  <2>3. Position(c) = s + c.offsetLine
    BY <1>5
  <2> HIDE DEF x, s, t
  <2>. QED
    BY <1>6, <1>7, <2>1, <2>2, <2>3, GapNat
<1>. QED
  BY <1>1, <1>8

LEMMA ScrollDown ==
  ASSUME NEW c, Placed(c), NEW n \in Nat \ {0}
  PROVE  /\ Placed(ListBy(c, n)) /\ OffsetOnly(c, ListBy(c, n))
         /\ Position(c) <= MaxPosition(c) =>
                Position(ListBy(c, n))
                    = Min({MaxPosition(c), Snap(c, Position(c) + n)})
<1> DEFINE o == c.offsetIdx
           e == LastIdx(c)
           s == Starts(c.items)
           p == Position(c) + n
           m == MaxPosition(c)
<1>0. /\ Filled(c) /\ c \in Chats /\ c.offsetLine \in Nat
      /\ o \in Nat /\ e \in Nat /\ o <= e
      /\ \A i \in o .. e : i \in Indices(c) /\ i \in Nat
      /\ \A i : i \in Indices(c) <=> i \in 0 .. e
  <2>1. /\ Filled(c) /\ c \in Chats /\ c.offsetLine \in Nat
        /\ o \in Nat /\ e \in Nat /\ o <= e
        /\ \A i : i \in Indices(c) <=> i \in 0 .. e
    BY PlacedIs
  <2> HIDE DEF o, e
  <2>. QED
    BY <2>1
<1>1. /\ Position(c) = s[o] + c.offsetLine /\ Position(c) \in Nat
      /\ p \in Nat /\ m \in Nat
      /\ p = s[o] + c.offsetLine + n /\ s[o] \in Nat
  <2>1. /\ Position(c) = s[o] + c.offsetLine /\ Position(c) \in Nat
        /\ m \in Nat /\ s[o] \in Nat
    BY PlacedIs
  <2> HIDE DEF s, o, m
  <2>. QED
    BY <1>0, <2>1
<1>2. Snap(c, p) \in Nat /\ Snap(c, p) >= p
  BY <1>0, <1>1, SnapIs
<1>3. Min({m, Snap(c, p)}) = IF m <= Snap(c, p) THEN m ELSE Snap(c, p)
  BY <1>1, <1>2, MinPair
<1>4. CASE AtBottom(c)
  <2>1. ListBy(c, n) = c
    BY <1>4 DEF ListBy
  <2>2. m <= Position(c)
    BY <1>4, AtBottomIs
  <2>3. OffsetOnly(c, c)
    BY <1>0 DEF OffsetOnly
  <2>. QED
    BY <1>1, <1>2, <1>3, <2>1, <2>2, <2>3
<1>5. CASE ~AtBottom(c)
  <2>1. ListBy(c, n) = Down(c, n)
    BY <1>0, <1>5 DEF ListBy, Filled
  <2>2. PICK f : LET stops == {i \in o .. e : f[i] < HeightAt(c, i)}
                 IN /\ \A i \in o .. e : f[i] = AtLeastZero(p - s[i])
                    /\ Down(c, n) = IF stops = {} THEN ListToBottom(c)
                                    ELSE Clamp(BeginAt(c, Min(stops), f[Min(stops)]))
    BY DownIs
  <2> DEFINE stops == {i \in o .. e : f[i] < HeightAt(c, i)}
  <2>3. \A i \in 0 .. e : /\ s[i] \in Nat /\ HeightAt(c, i) \in Nat \ {0}
                          /\ s[i + 1] = s[i] + HeightAt(c, i) + gap
                          /\ \A j \in 0 .. e : i < j => s[i] + HeightAt(c, i) + gap <= s[j]
    <3> HIDE DEF p
    <3>1. \A j \in 0 .. e : j \in 0 .. Len(c.items)
      BY <1>0, FilledIs
    <3>2. /\ \A i \in Indices(c) :
                /\ s[i] \in Nat /\ HeightAt(c, i) \in Nat \ {0}
                /\ s[i + 1] = s[i] + HeightAt(c, i) + gap
          /\ \A i \in Indices(c) : \A j \in 0 .. Len(c.items) : i < j =>
                s[i] + HeightAt(c, i) + gap <= s[j]
      BY <1>0, RowsIn
    <3> HIDE DEF s, e
    <3>. QED
      BY <1>0, <3>1, <3>2
  <2>4. \A i \in o .. e : /\ f[i] = AtLeastZero(p - s[i])
                          /\ i \in stops <=> p < s[i] + HeightAt(c, i)
    <3>1. \A i \in o .. e : i \in 0 .. e
      BY <1>0
    <3>. QED
      BY <1>1, <2>2, <2>3, <3>1 DEF AtLeastZero
  <2>5. Down(c, n) = IF stops = {} THEN ListToBottom(c)
                     ELSE Clamp(BeginAt(c, Min(stops), f[Min(stops)]))
    BY <2>2
  <2>6. stops \in SUBSET Nat /\ stops \subseteq o .. e
    BY <1>0
  <2> HIDE DEF o, e, s, p, m, stops
  <2>7. CASE stops = {}
    <3>1. e \in o .. e /\ e \notin stops
      BY <1>0, <2>7
    <3>2. Total(c) = s[e + 1] - gap
      BY <1>0, RowsIn DEF e, s
    <3>3. m <= p
      <4>1. s[e] + HeightAt(c, e) <= p /\ s[e + 1] = s[e] + HeightAt(c, e) + gap
            /\ s[e] \in Nat /\ HeightAt(c, e) \in Nat
        BY <1>0, <1>1, <2>3, <2>4, <3>1
      <4>2. m = IF Total(c) > c.height THEN Total(c) - c.height ELSE 0
        BY <1>0, MaxPositionIs DEF m
      <4>3. c.height \in Nat
        BY <1>0, ChatIs
      <4>. QED
        BY <1>1, <3>2, <4>1, <4>2, <4>3, GapNat
    <3>4. /\ Placed(ListToBottom(c)) /\ OffsetOnly(c, ListToBottom(c))
          /\ Position(ListToBottom(c)) = m
      BY <1>0, BottomIs DEF m
    <3>. QED
      BY <1>1, <1>2, <1>3, <2>1, <2>5, <2>7, <3>3, <3>4 DEF p, m
  <2>8. CASE stops # {}
    <3> DEFINE i == Min(stops)
    <3>1. i \in stops /\ \A j \in stops : i <= j
      BY <2>6, <2>8, MinOf
    <3> HIDE DEF i
    <3>2. i \in o .. e /\ i \in Indices(c) /\ i \in 0 .. e /\ i \in Nat
      BY <1>0, <2>6, <3>1
    <3>3. f[i] = AtLeastZero(p - s[i]) /\ p < s[i] + HeightAt(c, i)
      BY <2>4, <3>1, <3>2
    <3>4. f[i] \in Nat /\ f[i] < HeightAt(c, i)
      BY <1>1, <2>3, <3>2, <3>3 DEF AtLeastZero
    <3>5. LET d == Clamp(BeginAt(c, i, f[i]))
          IN /\ Placed(d) /\ OffsetOnly(c, d)
             /\ Position(d) = IF m <= s[i] + f[i] THEN m ELSE s[i] + f[i]
      BY <1>0, <3>2, <3>4, ClampIs DEF m, s
    <3>6. Snap(c, p) = s[i] + f[i]
      <4>1. CASE p < s[i]
        <5>1. i # o
          BY <1>0, <1>1, <4>1
        <5>2. i - 1 \in o .. e /\ i - 1 \in 0 .. e /\ i - 1 \notin stops /\ (i - 1) + 1 = i
          BY <1>0, <3>1, <3>2, <5>1
        <5>3. s[i - 1] + HeightAt(c, i - 1) <= p
          BY <1>1, <2>3, <2>4, <5>2
        <5>4. s[i] = s[i - 1] + HeightAt(c, i - 1) + gap
          BY <2>3, <5>2
        <5>5. s[i] - gap <= p
          BY <2>3, <5>2, <5>3, <5>4, GapNat
        <5>6. Snap(c, p) = s[i]
          BY <1>0, <1>1, <3>2, <4>1, <5>5, SnapIs DEF s
        <5>7. f[i] = 0
          BY <1>1, <2>3, <3>2, <3>3, <4>1 DEF AtLeastZero
        <5>. QED
          BY <2>3, <3>2, <5>6, <5>7
      <4>2. CASE s[i] <= p
        <5>1. ASSUME NEW j \in Indices(c) PROVE ~(p < s[j] /\ s[j] - gap <= p)
          <6>1. j \in 0 .. e
            BY <1>0
          <6>2. CASE j <= i
            BY <1>1, <2>3, <3>2, <4>2, <6>1, <6>2, GapNat
          <6>3. CASE i < j
            BY <1>1, <2>3, <3>2, <3>3, <6>1, <6>3, GapNat
          <6>. QED
            BY <3>2, <6>1, <6>2, <6>3
        <5>2. Snap(c, p) = p
          BY <1>0, <1>1, <5>1, SnapIs DEF s
        <5>3. s[i] + f[i] = p
          BY <1>1, <2>3, <3>2, <3>3, <4>2 DEF AtLeastZero
        <5>. QED
          BY <5>2, <5>3
      <4>. QED
        BY <1>1, <2>3, <3>2, <4>1, <4>2
    <3>. QED
      BY <1>3, <2>1, <2>5, <2>8, <3>5, <3>6 DEF i, p, m
  <2>. QED
    BY <2>7, <2>8
<1>. QED
  BY <1>4, <1>5

LEMMA ScrollUp ==
  ASSUME NEW c, Placed(c), NEW n \in Nat \ {0}
  PROVE  /\ Placed(ListBy(c, -n)) /\ OffsetOnly(c, ListBy(c, -n))
         /\ Position(ListBy(c, -n)) = AtLeastZero(Position(c) - n)
<1> DEFINE o == c.offsetIdx
           s == Starts(c.items)
           p == Position(c) - n
           left(i) == Stack(c, i, o) + c.offsetLine - n
           stops == {i \in 0 .. o : left(i) >= 0}
<1>0. /\ Filled(c) /\ c.offsetLine \in Nat /\ c.items \in Items
      /\ o \in Nat /\ o \in 0 .. Len(c.items)
      /\ \A i \in 0 .. o : i \in Indices(c) /\ i \in 0 .. Len(c.items) /\ i <= o
  <2>1. /\ Filled(c) /\ c.offsetLine \in Nat /\ c.items \in Items
        /\ o \in Nat /\ o <= LastIdx(c) /\ LastIdx(c) \in Nat
        /\ Len(c.items) = LastIdx(c) + 1
        /\ \A i : i \in Indices(c) <=> i \in 0 .. LastIdx(c)
    BY PlacedIs
  <2> HIDE DEF o
  <2>. QED
    BY <2>1
<1>1. /\ Position(c) = s[o] + c.offsetLine /\ Position(c) \in Nat
      /\ \A i \in 0 .. o : s[i] \in Nat
      /\ s[0] = 0
  BY <1>0, PositionIs, RowsIn
<1>2. -n # 0 /\ ~(-n > 0) /\ -(-n) = n
  OBVIOUS
<1>3. ListBy(c, -n) = Up(c, n)
  BY <1>0, <1>2 DEF ListBy, Filled
<1>4. Up(c, n) = IF stops = {} THEN ListToTop(c)
                 ELSE BeginAt(c, Max(stops), left(Max(stops)))
  BY Zenon DEF Up
<1>5. \A i \in 0 .. o : left(i) = p - s[i]
  <2>1. \A i \in 0 .. o : Stack(c, i, o) = s[o] - s[i]
    BY <1>0, RowsOf
  <2>2. s[o] \in Nat /\ p = s[o] + c.offsetLine - n /\ c.offsetLine \in Nat
    BY <1>0, <1>1
  <2>3. \A i \in 0 .. o : s[i] \in Nat
    BY <1>1
  <2> HIDE DEF s, o, p
  <2>4. ASSUME NEW i \in 0 .. o
        PROVE  left(i) = p - s[i]
    <3>1. left(i) = s[o] - s[i] + c.offsetLine - n
      BY <2>1
    <3>2. s[i] \in Nat
      BY <2>3
    <3>. QED
      BY <2>2, <3>1, <3>2
  <2>. QED
    BY <2>4
<1>6. p \in Int
  BY <1>1
<1> HIDE DEF s, p, left
<1>7. CASE stops = {}
  <2>1. 0 \in 0 .. o /\ 0 \notin stops
    BY <1>0, <1>7
  <2>2. p < 0
    BY <1>1, <1>5, <1>6, <2>1
  <2>3. AtLeastZero(p) = 0
    BY <1>6, <2>2 DEF AtLeastZero
  <2>. QED
    BY <1>0, <1>3, <1>4, <1>7, <2>3, TopIs DEF p
<1>8. CASE stops # {}
  <2>1. Max(stops) \in stops
    BY <1>0, <1>8, MaxOf
  <2> DEFINE i == Max(stops)
  <2>2. i \in 0 .. o /\ left(i) >= 0
    BY <2>1
  <2> HIDE DEF i
  <2>3. left(i) = p - s[i] /\ left(i) \in Nat /\ i \in Indices(c) /\ s[i] \in Nat
    BY <1>0, <1>1, <1>5, <1>6, <2>2
  <2>4. LET d == BeginAt(c, i, left(i))
        IN Placed(d) /\ OffsetOnly(c, d) /\ Position(d) = s[i] + left(i)
    BY <1>0, <2>3, PlaceIs DEF s
  <2>5. s[i] + left(i) = p /\ p >= 0
    BY <1>6, <2>3
  <2>6. s[i] + left(i) = AtLeastZero(p)
    BY <1>6, <2>5 DEF AtLeastZero
  <2>. QED
    BY <1>3, <1>4, <1>8, <2>4, <2>6 DEF i, p
<1>. QED
  BY <1>7, <1>8

-----------------------------------------------------------------------------
(* What is shown, and what a click hits.                                   *)

(* Row "row" of the list belongs to item v, or to a gap and v is -1.       *)
RowIs(c, row, v) ==
    LET covers(i) == /\ Starts(c.items)[i] <= row
                     /\ row < Starts(c.items)[i] + HeightAt(c, i)
    IN IF v = -1 THEN \A i \in c.offsetIdx .. LastIdx(c) : ~covers(i)
       ELSE v \in c.offsetIdx .. LastIdx(c) /\ covers(v)

LEMMA ConcatIs ==
  ASSUME NEW u \in Seq(Int), NEW v \in Seq(Int)
  PROVE  /\ u \o v \in Seq(Int) /\ Len(u) \in Nat /\ Len(v) \in Nat
         /\ Len(u \o v) = Len(u) + Len(v)
         /\ \A k \in 1 .. Len(u) : (u \o v)[k] = u[k]
         /\ \A k \in 1 .. Len(v) : (u \o v)[Len(u) + k] = v[k]
  OBVIOUS

LEMMA SubSeqIs ==
  ASSUME NEW u \in Seq(Int), NEW n \in 0 .. Len(u)
  PROVE  /\ Len(SubSeq(u, 1, n)) = n /\ DOMAIN SubSeq(u, 1, n) = 1 .. n
         /\ \A k \in 1 .. n : SubSeq(u, 1, n)[k] = u[k]
  OBVIOUS

LEMMA OneRow ==
  ASSUME NEW c, Placed(c), NEW row \in Int,
         NEW i \in c.offsetIdx .. LastIdx(c), NEW j \in c.offsetIdx .. LastIdx(c),
         RowIs(c, row, i), RowIs(c, row, j)
  PROVE  i = j
<1> DEFINE o == c.offsetIdx
           e == LastIdx(c)
           s == Starts(c.items)
<1>1. /\ Filled(c) /\ o \in Nat /\ e \in Nat /\ Len(c.items) = e + 1
      /\ \A k : k \in Indices(c) <=> k \in 0 .. e
  BY PlacedIs
<1>2. /\ i \in Indices(c) /\ j \in Indices(c) /\ i # -1 /\ j # -1
      /\ i \in Nat /\ j \in Nat /\ i \in 0 .. Len(c.items) /\ j \in 0 .. Len(c.items)
  <2> HIDE DEF e, o
  <2>1. i \in o .. e /\ j \in o .. e
    BY DEF e, o
  <2>. QED
    BY <1>1, <2>1
<1>3. /\ s[i] <= row /\ row < s[i] + HeightAt(c, i)
      /\ s[j] <= row /\ row < s[j] + HeightAt(c, j)
  BY <1>2 DEF RowIs
<1>4. /\ i < j => s[i] + HeightAt(c, i) + gap <= s[j]
      /\ j < i => s[j] + HeightAt(c, j) + gap <= s[i]
      /\ s[i] \in Nat /\ s[j] \in Nat /\ HeightAt(c, i) \in Nat /\ HeightAt(c, j) \in Nat
  BY <1>1, <1>2, RowsIn
<1> HIDE DEF s
<1>. QED
  BY <1>2, <1>3, <1>4, GapNat

(* The rows of one item and the gap behind it, from some row on.           *)
LEMMA BlockIs ==
  ASSUME NEW c, NEW i \in Int, HeightAt(c, i) \in Nat,
         NEW line \in Nat, line <= HeightAt(c, i) + gap
  PROVE  LET rows == RowsFrom(c, i, line)
         IN /\ rows \in Seq(Int) /\ Len(rows) = (HeightAt(c, i) + gap) - line
            /\ \A k \in 1 .. Len(rows) :
                   rows[k] = IF line + k <= HeightAt(c, i) THEN i ELSE -1
<1> DEFINE h == HeightAt(c, i)
<1>1. \A n \in Nat : /\ Blank(n) \in Seq(Int) /\ Len(Blank(n)) = n
                     /\ \A k \in 1 .. n : Blank(n)[k] = -1
  BY DEF Blank, AtLeastZero
<1>2. CASE line < h
  <2> DEFINE own == [k \in 1 .. h - line |-> i]
  <2>1. RowsFrom(c, i, line) = own \o Blank(gap)
    BY <1>2, Zenon DEF RowsFrom
  <2>2. h - line \in Nat /\ h \in Nat
    BY <1>2
  <2>3. own \in Seq(Int) /\ Len(own) = h - line /\ \A k \in 1 .. h - line : own[k] = i
    BY <2>2
  <2>4. /\ Blank(gap) \in Seq(Int) /\ Len(Blank(gap)) = gap
        /\ \A k \in 1 .. gap : Blank(gap)[k] = -1
    BY <1>1, GapNat
  <2> HIDE DEF own, h
  <2>. QED
    BY <2>1, <2>2, <2>3, <2>4, GapNat DEF h
<1>3. CASE ~(line < h)
  <2>1. RowsFrom(c, i, line) = Blank(gap - (line - h))
    BY <1>3, Zenon DEF RowsFrom
  <2>2. gap - (line - h) \in Nat /\ h \in Nat
    BY <1>3, GapNat
  <2>3. LET b == Blank(gap - (line - h))
        IN /\ b \in Seq(Int) /\ Len(b) = gap - (line - h)
           /\ \A k \in 1 .. gap - (line - h) : b[k] = -1
    BY <1>1, <2>2
  <2> HIDE DEF h
  <2>4. Len(RowsFrom(c, i, line)) = (h + gap) - line
    BY <2>1, <2>2, <2>3, GapNat
  <2>5. \A k \in 1 .. gap - (line - h) : ~(line + k <= h)
    BY <1>3, <2>2, GapNat
  <2>. QED
    BY <2>1, <2>2, <2>3, <2>4, <2>5 DEF h
<1>. QED
  BY <1>2, <1>3

(* Behind rows that show what they should, one more item and its gap.      *)
LEMMA OneBlockMore ==
  ASSUME NEW c, NEW p \in Nat, NEW z \in Nat, NEW h \in Nat, NEW i,
         NEW u \in Seq(Int), NEW b \in Seq(Int),
         Len(u) = z - p, Len(b) = h + gap,
         \A y \in Nat : y < Len(u) => RowIs(c, p + y, u[y + 1]),
         \A k \in 1 .. Len(b) : b[k] = IF k <= h THEN i ELSE -1,
         \A y \in Nat : z <= p + y /\ p + y < z + h + gap =>
             RowIs(c, p + y, IF p + y < z + h THEN i ELSE -1)
  PROVE  LET g == u \o b
         IN /\ g \in Seq(Int) /\ Len(g) = (z + h + gap) - p
            /\ \A y \in Nat : y < Len(g) => RowIs(c, p + y, g[y + 1])
<1> DEFINE g == u \o b
<1>1. /\ g \in Seq(Int) /\ Len(g) = Len(u) + Len(b) /\ Len(u) \in Nat /\ Len(b) \in Nat
      /\ \A k \in 1 .. Len(u) : g[k] = u[k]
      /\ \A k \in 1 .. Len(b) : g[Len(u) + k] = b[k]
  BY ConcatIs
<1> HIDE DEF g
<1>2. Len(g) = (z + h + gap) - p /\ gap \in Nat
  BY <1>1, GapNat
<1>3. ASSUME NEW y \in Nat, y < Len(g) PROVE RowIs(c, p + y, g[y + 1])
  <2>1. CASE y < Len(u)
    BY <1>1, <2>1
  <2>2. CASE ~(y < Len(u))
    <3>1. PICK k \in 1 .. Len(b) : y + 1 = Len(u) + k
      <4>1. y + 1 - Len(u) \in 1 .. Len(b) /\ y + 1 = Len(u) + (y + 1 - Len(u))
        BY <1>1, <1>3, <2>2
      <4>. QED
        BY <4>1
    <3>2. g[y + 1] = IF k <= h THEN i ELSE -1
      BY <1>1, <3>1
    <3>3. z <= p + y /\ p + y < z + h + gap /\ (k <= h <=> p + y < z + h)
      <4>1. k \in Nat \ {0} /\ k <= h + gap /\ p + y = z + (k - 1)
        BY <1>1, <1>2, <3>1
      <4>. QED
        BY <1>2, <4>1
    <3>. QED
      BY <3>2, <3>3
  <2>. QED
    BY <2>1, <2>2
<1>. QED
  BY <1>1, <1>2, <1>3 DEF g

(* The rows below the top of the view, one after the other.                *)
LEMMA RowsShow ==
  ASSUME NEW c, Placed(c), c.offsetLine <= HeightAt(c, c.offsetIdx) + gap
  PROVE  /\ Rows(c) \in Seq(Int)
         /\ Len(Rows(c)) = Starts(c.items)[LastIdx(c) + 1] - Position(c)
         /\ \A y \in Nat : y < Len(Rows(c)) =>
                RowIs(c, Position(c) + y, Rows(c)[y + 1])
<1> DEFINE o == c.offsetIdx
           e == LastIdx(c)
           s == Starts(c.items)
           p == Position(c)
           m == [k \in 1 .. Len(c.items) - o |->
                   RowsFrom(c, o + k - 1, IF k = 1 THEN c.offsetLine ELSE 0)]
<1>1. /\ Filled(c) /\ o \in Nat /\ e \in Nat /\ o <= e /\ Len(c.items) = e + 1
      /\ c.offsetLine \in Nat
      /\ \A i : i \in Indices(c) <=> i \in 0 .. e
      /\ p = s[o] + c.offsetLine /\ p \in Nat /\ s[o] \in Nat
  BY PlacedIs
<1>N. /\ o \in Nat /\ e \in Nat /\ o <= e /\ c.offsetLine \in Nat
      /\ p = s[o] + c.offsetLine /\ p \in Nat /\ s[o] \in Nat
  BY <1>1
<1>0. c.offsetLine <= HeightAt(c, o) + gap /\ HeightAt(c, o) \in Nat /\ o \in Indices(c)
  <2>1. o \in Indices(c)
    BY DEF Placed
  <2>. QED
    BY <1>1, <2>1, RowsIn
<1>2. \A i \in Indices(c) :
        /\ HeightAt(c, i) \in Nat \ {0} /\ HeightAt(c, i) \in Nat
        /\ s[i + 1] = s[i] + HeightAt(c, i) + gap
        /\ s[i] \in Nat /\ s[i + 1] \in Nat
        /\ \A j \in 0 .. Len(c.items) : i < j => s[i] + HeightAt(c, i) + gap <= s[j]
  BY <1>1, RowsIn
<1>3. Rows(c) = FlattenSeq(m) /\ Len(m) = e + 1 - o /\ Len(m) \in Nat \ {0}
  <2>1. Rows(c) = FlattenSeq(m)
    BY Zenon DEF Rows
  <2> HIDE DEF e, o
  <2>2. Len(c.items) - o = e + 1 - o /\ e + 1 - o \in Nat \ {0}
    BY <1>1
  <2>. QED
    BY <2>1, <2>2
<1>4. PICK f : /\ f[1] = m[1]
               /\ \A i \in 1 .. Len(m) - 1 : f[i + 1] = f[i] \o m[i + 1]
               /\ FlattenSeq(m) = f[Len(m)]
  BY <1>3, FlattenIs
<1>5. \A k \in 1 .. Len(m) :
        m[k] = RowsFrom(c, o + k - 1, IF k = 1 THEN c.offsetLine ELSE 0)
  BY <1>1, <1>3
<1> DEFINE n == e + 1 - o
           Good(k) == /\ f[k] \in Seq(Int) /\ Len(f[k]) = s[o + k] - p
                      /\ \A y \in Nat : y < Len(f[k]) => RowIs(c, p + y, f[k][y + 1])
<1> HIDE DEF o, e, s, p, m
<1>6. ASSUME NEW k \in 1 .. n, NEW y \in Nat, NEW i \in Indices(c), i = o + k - 1,
             s[i] <= p + y, p + y < s[i + 1]
      PROVE  RowIs(c, p + y, IF p + y < s[i] + HeightAt(c, i) THEN i ELSE -1)
  <2>1. i \in o .. e /\ i \in Nat /\ i # -1
    BY <1>1, <1>6 DEF n
  <2>2. CASE p + y < s[i] + HeightAt(c, i)
    BY <1>6, <2>1, <2>2 DEF RowIs, o, e, s
  <2>3. CASE ~(p + y < s[i] + HeightAt(c, i))
    <3>1. ASSUME NEW j \in o .. e PROVE ~(s[j] <= p + y /\ p + y < s[j] + HeightAt(c, j))
      <4>1. j \in Indices(c) /\ j \in Nat /\ j \in 0 .. Len(c.items)
            /\ i \in 0 .. Len(c.items)
        BY <1>1, <3>1, <2>1
      <4>2. /\ s[j] \in Nat /\ HeightAt(c, j) \in Nat /\ s[i] \in Nat
            /\ HeightAt(c, i) \in Nat
            /\ j < i => s[j] + HeightAt(c, j) + gap <= s[i]
            /\ i < j => s[i] + HeightAt(c, i) + gap <= s[j]
            /\ s[i + 1] = s[i] + HeightAt(c, i) + gap
        BY <1>2, <4>1
      <4>3. p + y \in Int /\ s[i] <= p + y /\ p + y < s[i + 1]
        BY <1>N, <1>6
      <4> DEFINE row == p + y
      <4> HIDE DEF row
      <4>4. CASE j < i
        BY <4>2, <4>3, <4>4, GapNat DEF row
      <4>5. CASE i < j
        BY <4>2, <4>3, <4>5, GapNat DEF row
      <4>6. CASE i = j
        BY <2>3, <4>6
      <4>. QED
        BY <2>1, <4>1, <4>4, <4>5, <4>6
    <3>. QED
      BY <2>3, <3>1 DEF RowIs, o, e, s
  <2>. QED
    BY <2>2, <2>3
<1>7. Good(1)
  <2>1. o \in Indices(c) /\ 1 \in 1 .. n /\ 1 \in 1 .. Len(m) /\ o = o + 1 - 1
    BY <1>1, <1>3
  <2>2. f[1] = RowsFrom(c, o, c.offsetLine)
    BY <1>4, <1>5, <2>1
  <2>3. /\ f[1] \in Seq(Int) /\ Len(f[1]) = (HeightAt(c, o) + gap) - c.offsetLine
        /\ \A k \in 1 .. Len(f[1]) :
              f[1][k] = IF c.offsetLine + k <= HeightAt(c, o) THEN o ELSE -1
    <3>1. HeightAt(c, o) \in Nat /\ o \in Int
      BY <1>1, <1>2, <2>1
    <3>2. c.offsetLine <= HeightAt(c, o) + gap
      BY DEF o
    <3> HIDE DEF Good
    <3>. QED
      BY <1>1, <2>2, <3>1, <3>2, BlockIs
  <2>4. HeightAt(c, o) \in Nat /\ s[o + 1] = s[o] + HeightAt(c, o) + gap
    BY <1>2, <2>1
  <2> HIDE DEF n
  <2>5. Len(f[1]) = s[o + 1] - p
    BY <1>1, <2>3, <2>4, GapNat
  <2>6. ASSUME NEW y \in Nat, y < Len(f[1]) PROVE RowIs(c, p + y, f[1][y + 1])
    <3>1. y + 1 \in 1 .. Len(f[1]) /\ s[o] <= p + y /\ p + y < s[o + 1]
      <4>1. s[o + 1] \in Nat /\ Len(f[1]) \in Nat
        <5>1. s[o + 1] \in Nat
          BY <1>N, <2>4, GapNat
        <5>. QED
          BY <2>3, <5>1
      <4>. QED
        BY <1>N, <2>5, <2>6, <4>1
    <3>2. f[1][y + 1] = IF p + y < s[o] + HeightAt(c, o) THEN o ELSE -1
      <4>1. c.offsetLine + (y + 1) <= HeightAt(c, o) <=> p + y < s[o] + HeightAt(c, o)
        BY <1>0, <1>N, <2>4, GapNat
      <4>. QED
        BY <2>3, <3>1, <4>1
    <3>. QED
      BY <1>6, <2>1, <3>1, <3>2
  <2>. QED
    BY <2>3, <2>5, <2>6
<1>8. ASSUME NEW k \in Nat \ {0}, k + 1 <= n, Good(k) PROVE Good(k + 1)
  <2>1. /\ k \in 1 .. Len(m) - 1 /\ k + 1 \in 1 .. Len(m) /\ k + 1 # 1
        /\ k + 1 \in 1 .. n /\ o + (k + 1) - 1 = o + k /\ o + k \in Indices(c)
        /\ o + k \in Int /\ o \in 0 .. Len(c.items) /\ o + (k + 1) = o + k + 1
        /\ o \in Indices(c) /\ o < o + k /\ o + k \in 0 .. Len(c.items)
    <3>1. o + k \in 0 .. e
      BY <1>1, <1>8 DEF n
    <3>. QED
      BY <1>0, <1>1, <1>3, <1>8, <3>1 DEF n
  <2>2. m[k + 1] = RowsFrom(c, o + k, 0)
    BY <1>5, <2>1
  <2> DEFINE i == o + k
  <2>3. /\ HeightAt(c, i) \in Nat /\ s[i + 1] = s[i] + HeightAt(c, i) + gap /\ s[i] \in Nat
        /\ s[o] + HeightAt(c, o) + gap <= s[i]
    BY <1>2, <2>1
  <2>4. LET b == RowsFrom(c, i, 0)
        IN /\ b \in Seq(Int) /\ Len(b) = HeightAt(c, i) + gap
           /\ \A j \in 1 .. Len(b) : b[j] = IF j <= HeightAt(c, i) THEN i ELSE -1
    <3>1. 0 \in Nat /\ 0 <= HeightAt(c, i) + gap
      BY <2>3, GapNat
    <3>2. LET b == RowsFrom(c, i, 0)
          IN /\ b \in Seq(Int) /\ Len(b) = (HeightAt(c, i) + gap) - 0
             /\ \A j \in 1 .. Len(b) :
                   b[j] = IF 0 + j <= HeightAt(c, i) THEN i ELSE -1
      BY <2>1, <2>3, <3>1, BlockIs
    <3>. QED
      BY <2>3, <3>2, GapNat
  <2>5. f[k + 1] = f[k] \o RowsFrom(c, i, 0)
    BY <1>4, <2>1, <2>2
  <2>6. \A y \in Nat : s[i] <= p + y /\ p + y < s[i] + HeightAt(c, i) + gap =>
           RowIs(c, p + y, IF p + y < s[i] + HeightAt(c, i) THEN i ELSE -1)
    BY <1>6, <2>1, <2>3
  <2>7. /\ f[k] \in Seq(Int) /\ Len(f[k]) = s[i] - p
        /\ \A y \in Nat : y < Len(f[k]) => RowIs(c, p + y, f[k][y + 1])
    BY <1>8
  <2> HIDE DEF Good, n, i
  <2> DEFINE u == f[k]
             b == RowsFrom(c, i, 0)
             z == s[i]
             h == HeightAt(c, i)
  <2>8. LET g == u \o b
        IN /\ g \in Seq(Int) /\ Len(g) = (z + h + gap) - p
           /\ \A y \in Nat : y < Len(g) => RowIs(c, p + y, g[y + 1])
    <3>1. p \in Nat /\ z \in Nat /\ h \in Nat
      BY <1>N, <2>3
    <3>2. u \in Seq(Int) /\ b \in Seq(Int) /\ Len(u) = z - p /\ Len(b) = h + gap
      BY <2>4, <2>7
    <3>3. \A y \in Nat : y < Len(u) => RowIs(c, p + y, u[y + 1])
      BY <2>7
    <3>4. \A j \in 1 .. Len(b) : b[j] = IF j <= h THEN i ELSE -1
      BY <2>4
    <3>5. \A y \in Nat : z <= p + y /\ p + y < z + h + gap =>
             RowIs(c, p + y, IF p + y < z + h THEN i ELSE -1)
      BY <2>6
    <3> HIDE DEF u, b, z, h
    <3>. QED
      BY <3>1, <3>2, <3>3, <3>4, <3>5, OneBlockMore
  <2>9. /\ f[k + 1] \in Seq(Int) /\ Len(f[k + 1]) = s[i + 1] - p
        /\ \A y \in Nat : y < Len(f[k + 1]) => RowIs(c, p + y, f[k + 1][y + 1])
    <3> DEFINE g == u \o b
               v == f[k + 1]
    <3>1. v = g /\ s[i + 1] = z + h + gap
      BY <2>3, <2>5
    <3>2. /\ g \in Seq(Int) /\ Len(g) = (z + h + gap) - p
          /\ \A y \in Nat : y < Len(g) => RowIs(c, p + y, g[y + 1])
      BY <2>8
    <3> HIDE DEF g, v
    <3>3. /\ v \in Seq(Int) /\ Len(v) = s[i + 1] - p
          /\ \A y \in Nat : y < Len(v) => RowIs(c, p + y, v[y + 1])
      BY <3>1, <3>2
    <3>. QED
      BY <3>3 DEF v
  <2>10. i + 1 = o + (k + 1)
    BY <2>1 DEF i
  <2>. QED
    BY <2>9, <2>10, Zenon DEF Good
<1> DEFINE T == {k \in Nat : k + 1 <= n => Good(k + 1)}
<1>9. \A k \in Nat : k \in T
  <2>1. 0 \in T
    BY <1>7
  <2>2. ASSUME NEW k \in Nat, k \in T PROVE k + 1 \in T
    <3>1. n \in Nat
      BY <1>1
    <3>2. k + 1 \in Nat \ {0} /\ ((k + 1) + 1 <= n => k + 1 <= n)
      BY <3>1
    <3> HIDE DEF Good, n
    <3>3. (k + 1) + 1 <= n => Good(k + 1)
      BY <2>2, <3>2
    <3>4. (k + 1) + 1 <= n => Good((k + 1) + 1)
      BY <1>8, <3>2, <3>3
    <3>. QED
      BY <3>4
  <2> HIDE DEF T
  <2>. QED
    BY <2>1, <2>2, Induction
<1>10. Good(n)
  <2>1. n - 1 \in Nat /\ (n - 1) + 1 = n /\ n <= n
    BY <1>1
  <2> HIDE DEF Good, n
  <2>2. n - 1 \in T
    BY <1>9, <2>1
  <2>. QED
    BY <2>1, <2>2
<1>11. Rows(c) = f[n] /\ o + n = e + 1
  BY <1>1, <1>3, <1>4
<1> HIDE DEF n
<1>. QED
  BY <1>10, <1>11 DEF e, s, p, o

(* An item's row is hit by the click that is made in it.                   *)
LEMMA ClickIs ==
  ASSUME NEW c, Placed(c), c.offsetLine <= HeightAt(c, c.offsetIdx) + gap,
         NEW y \in 0 .. c.height - 1
  PROVE  findItemAtY(c, y)
           = IF y + 1 \in DOMAIN Render(c) THEN Render(c)[y + 1] ELSE -1
<1> DEFINE o == c.offsetIdx
           e == LastIdx(c)
           s == Starts(c.items)
           p == Position(c)
           rows == Rows(c)
           hit == {i \in o .. e : TopOf(c, i) <= y /\ y < TopOf(c, i) + HeightAt(c, i)}
<1>1. /\ Filled(c) /\ o \in Nat /\ e \in Nat /\ o <= e /\ Len(c.items) = e + 1
      /\ c.offsetLine \in Nat /\ c.items \in Items /\ c.height \in Nat
      /\ \A i : i \in Indices(c) <=> i \in 0 .. e
      /\ p = s[o] + c.offsetLine /\ p \in Nat /\ s[o] \in Nat
  BY PlacedIs
<1>2. /\ rows \in Seq(Int) /\ Len(rows) = s[e + 1] - p
      /\ \A x \in Nat : x < Len(rows) => RowIs(c, p + x, rows[x + 1])
  BY RowsShow
<1>3. y \in Nat /\ 0 <= y /\ y < c.height
  BY <1>1
<1>4. findItemAtY(c, y) = IF hit # {} THEN Min(hit) ELSE -1
  BY <1>3 DEF findItemAtY
<1> HIDE DEF o, e, s, p, rows
<1>5. \A i \in o .. e : i \in hit <=> (s[i] <= p + y /\ p + y < s[i] + HeightAt(c, i))
  <2>1. ASSUME NEW i \in o .. e
        PROVE  /\ TopOf(c, i) = s[i] - p /\ s[i] \in Nat /\ HeightAt(c, i) \in Nat
    <3>1. /\ i \in 0 .. Len(c.items) /\ o \in 0 .. Len(c.items) /\ o <= i
          /\ i \in Indices(c)
      <4>1. i \in 0 .. e
        BY <1>1, <2>1
      <4>. QED
        BY <1>1, <2>1, <4>1
    <3>2. Stack(c, o, i) = s[i] - s[o]
      BY <1>1, <3>1, RowsOf DEF s
    <3>3. s[i] \in Nat /\ HeightAt(c, i) \in Nat
      BY <1>1, <3>1, RowsIn DEF s
    <3>. QED
      BY <1>1, <3>2, <3>3 DEF TopOf, o
  <2>2. ASSUME NEW i \in o .. e
        PROVE  i \in hit <=> (s[i] <= p + y /\ p + y < s[i] + HeightAt(c, i))
    <3>1. i \in hit <=> (TopOf(c, i) <= y /\ y < TopOf(c, i) + HeightAt(c, i))
      BY <2>2
    <3> HIDE DEF hit
    <3>2. /\ TopOf(c, i) = s[i] - p /\ s[i] \in Nat /\ HeightAt(c, i) \in Nat
          /\ p \in Nat
      BY <1>1, <2>1, <2>2
    <3>. QED
      BY <1>3, <3>1, <3>2
  <2>. QED
    BY <2>2
<1>6. \A v : RowIs(c, p + y, v) =>
         v = IF hit # {} THEN Min(hit) ELSE -1
  <2> SUFFICES ASSUME NEW v, RowIs(c, p + y, v)
               PROVE  v = IF hit # {} THEN Min(hit) ELSE -1
    OBVIOUS
  <2>1. CASE v = -1
    <3>1. \A i \in o .. e : i \notin hit
      <4> HIDE DEF hit
      <4>. QED
        BY <1>5, <2>1 DEF RowIs, o, e, s
    <3>. QED
      BY <2>1, <3>1
  <2>2. CASE v # -1
    <3>1. v \in o .. e /\ v \in hit
      <4> HIDE DEF hit
      <4>. QED
        BY <1>5, <2>2 DEF RowIs, o, e, s
    <3>2. ASSUME NEW i \in hit PROVE i = v
      <4>1. i \in o .. e
        OBVIOUS
      <4> HIDE DEF hit
      <4>2. RowIs(c, p + y, i)
        <5>1. i # -1
          BY <1>1, <4>1
        <5>. QED
          BY <1>5, <3>2, <4>1, <5>1 DEF RowIs, o, e, s
      <4>3. p + y \in Int
        BY <1>1, <1>3
      <4>. QED
        BY <3>1, <4>1, <4>2, <4>3, OneRow DEF o, e
    <3>3. hit \in SUBSET Int
      BY <1>1
    <3>4. v \in Int /\ \A i \in hit : v <= i
      BY <1>1, <3>1, <3>2
    <3>5. Min(hit) = v
      <4> HIDE DEF hit
      <4>. QED
        BY <3>1, <3>3, <3>4, MinIs
    <3>. QED
      BY <3>1, <3>5
  <2>. QED
    BY <2>1, <2>2
<1>7. Render(c) = SubSeq(rows, 1, Min({c.height, Len(rows)}))
  BY <1>1, Zenon DEF Render, Filled, rows
<1>8. Min({c.height, Len(rows)}) = IF c.height <= Len(rows) THEN c.height ELSE Len(rows)
  <2>1. c.height \in Int /\ Len(rows) \in Int
    BY <1>1, <1>2
  <2>. QED
    BY <2>1, MinPair
<1> HIDE DEF hit
<1>9. CASE y < Len(rows)
  <2>1. y + 1 \in DOMAIN Render(c) /\ Render(c)[y + 1] = rows[y + 1]
    <3>1. Len(rows) \in Nat /\ c.height \in Nat
      BY <1>1, <1>2
    <3>2. /\ Len(SubSeq(rows, 1, Min({c.height, Len(rows)}))) = Min({c.height, Len(rows)})
          /\ \A k \in 1 .. Min({c.height, Len(rows)}) :
                SubSeq(rows, 1, Min({c.height, Len(rows)}))[k] = rows[k]
      <4> DEFINE z == Min({c.height, Len(rows)})
      <4>1. z \in 0 .. Len(rows)
        BY <1>8, <3>1
      <4> HIDE DEF z
      <4>. QED
        BY <1>2, <4>1, SubSeqIs DEF z
    <3>3. y + 1 \in 1 .. Min({c.height, Len(rows)})
      BY <1>3, <1>8, <1>9, <3>1
    <3>4. DOMAIN Render(c) = 1 .. Min({c.height, Len(rows)})
      <4> DEFINE z == Min({c.height, Len(rows)})
      <4>1. z \in 0 .. Len(rows)
        BY <1>8, <3>1
      <4> HIDE DEF z
      <4>2. DOMAIN SubSeq(rows, 1, z) = 1 .. z
        BY <1>2, <4>1, SubSeqIs
      <4>. QED
        BY <1>7, <4>2 DEF z
    <3>. QED
      BY <1>7, <3>2, <3>3, <3>4
  <2>2. RowIs(c, p + y, rows[y + 1])
    BY <1>2, <1>3, <1>9
  <2>. QED
    BY <1>4, <1>6, <2>1, <2>2
<1>10. CASE ~(y < Len(rows))
  <2>1. y + 1 \notin DOMAIN Render(c)
    BY <1>1, <1>2, <1>3, <1>7, <1>8, <1>10
  <2>2. RowIs(c, p + y, -1)
    <3>1. ASSUME NEW i \in o .. e PROVE ~(s[i] <= p + y /\ p + y < s[i] + HeightAt(c, i))
      <4>1. i \in Indices(c) /\ e + 1 \in 0 .. Len(c.items) /\ i < e + 1
        BY <1>1, <3>1
      <4>2. /\ s[i] + HeightAt(c, i) + gap <= s[e + 1] /\ s[i] \in Nat
            /\ HeightAt(c, i) \in Nat /\ s[e + 1] \in Nat
        BY <1>1, <4>1, RowsIn DEF s
      <4>. QED
        BY <1>1, <1>2, <1>3, <1>10, <4>2, GapNat
    <3>. QED
      BY <3>1 DEF RowIs, s, o, e
  <2>. QED
    BY <1>4, <1>6, <2>1, <2>2
<1>. QED
  BY <1>9, <1>10

-----------------------------------------------------------------------------
(* The invariant of a chat.                                                *)

Ids(c) == {c.items[k].id : k \in DOMAIN c.items}

(* The index finds every item, and nothing else.                           *)
Indexed(c) ==
    /\ DOMAIN c.idInxMap = Ids(c)
    /\ \A k \in 1 .. Len(c.items) : c.idInxMap[c.items[k].id] = k - 1

Turning(c) ==
    \A k \in 1 .. Len(c.items) :
        c.items[k].spins => c.items[k].id \in c.ticks \union c.paused

Begins(c) ==
    /\ c.offsetIdx \in IF c.items = <<>> THEN {-1, 0} ELSE Indices(c)
    /\ c.selectedIdx \in {-1} \union Indices(c)

Good(c) ==
    /\ c \in Chats /\ c.height \in ViewHeight
    /\ Begins(c) /\ Indexed(c) /\ Turning(c)

(* The same, but the view may still begin before the first item.           *)
Loose(c) ==
    /\ c \in Chats /\ c.height \in ViewHeight
    /\ c.selectedIdx \in {-1} \union Indices(c)
    /\ c.items = <<>> => c.offsetIdx \in {-1, 0}
    /\ Indexed(c) /\ Turning(c)

(* The same items, of perhaps other heights.                               *)
Same(c, d) ==
    /\ Len(d.items) = Len(c.items)
    /\ \A k \in 1 .. Len(c.items) :
           d.items[k].id = c.items[k].id /\ d.items[k].spins = c.items[k].spins
    /\ d.idInxMap = c.idInxMap

(* What a step in the view comes to.                                       *)
Keeps(c, d) == Good(d) /\ Same(c, d)

EndShown(c) ==
    c.items # <<>> =>
        Extent(c, c.offsetIdx, LastIdx(c)) - c.offsetLine <= c.height

Ends(c) == c.follow => EndShown(c)

(* The same items, seen in the same place.                                 *)
Looks(c, d) ==
    /\ d.items = c.items /\ d.height = c.height
    /\ d.offsetIdx = c.offsetIdx /\ d.offsetLine = c.offsetLine

LEMMA LooksShown ==
  ASSUME NEW c, NEW d, Looks(c, d)
  PROVE  EndShown(d) <=> EndShown(c)
<1>1. d.items = c.items /\ d.height = c.height
      /\ d.offsetIdx = c.offsetIdx /\ d.offsetLine = c.offsetLine
  BY DEF Looks
<1>2. LastIdx(d) = LastIdx(c) /\ \A i, j : Extent(d, i, j) = Extent(c, i, j)
  BY <1>1, SameRows
<1>. QED
  BY <1>1, <1>2 DEF EndShown

LEMMA SameIs ==
  ASSUME NEW c, NEW d, NEW e, Same(c, d)
  PROVE  /\ Same(d, e) => Same(c, e)
         /\ Keeps(d, e) => Keeps(c, e)
<1>1. Same(d, e) => Same(c, e)
  BY DEF Same
<1>. QED
  BY <1>1 DEF Keeps

LEMMA SameSelf == \A c : Same(c, c)
  BY DEF Same

LEMMA GoodLoose == \A c : Good(c) => Loose(c)
  BY DEF Good, Loose, Begins

LEMMA GoodIs ==
  ASSUME NEW c, Good(c)
  PROVE  /\ c \in Chats /\ c.items \in Items /\ Len(c.items) \in Nat
         /\ DOMAIN c.items = 1 .. Len(c.items)
         /\ c.height \in Nat \ {0} /\ c.offsetLine \in Nat /\ c.selectedIdx \in Int
         /\ c.items # <<>> => Placed(c)
         /\ LastIdx(c) = Len(c.items) - 1 /\ Indices(c) = 0 .. Len(c.items) - 1
         /\ \A i : i \in Indices(c) <=> i \in 0 .. Len(c.items) - 1
         /\ (c.items = <<>> <=> Len(c.items) = 0)
<1>1. c \in Chats /\ Begins(c)
  BY DEF Good
<1>2. /\ c.items \in Items /\ Len(c.items) \in Nat /\ c.height \in Nat \ {0}
      /\ c.offsetLine \in Nat /\ c.selectedIdx \in Int
  BY <1>1, ChatIs
<1>3. DOMAIN c.items = 1 .. Len(c.items) /\ (c.items = <<>> <=> Len(c.items) = 0)
  BY <1>2 DEF Items
<1>4. c.items # <<>> => Placed(c)
  BY <1>1 DEF Placed, Filled, Begins
<1>. QED
  BY <1>1, <1>2, <1>3, <1>4 DEF LastIdx, Indices

(* The chat is as good with the same items, index and spinners.            *)
LEMMA GoodTurning ==
  ASSUME NEW c, NEW d, Loose(c), d \in Chats, Same(c, d), d.height \in ViewHeight,
         Begins(d), Turning(d)
  PROVE  Good(d)
<1>1. /\ d.items \in Items /\ Len(d.items) \in Nat
      /\ c.items \in Items /\ Len(c.items) \in Nat
  BY ChatIs DEF Loose
<1>2. DOMAIN c.items = 1 .. Len(c.items) /\ DOMAIN d.items = 1 .. Len(d.items)
  BY <1>1 DEF Items
<1>3. /\ Len(d.items) = Len(c.items)
      /\ \A k \in 1 .. Len(c.items) :
           d.items[k].id = c.items[k].id /\ d.items[k].spins = c.items[k].spins
      /\ d.idInxMap = c.idInxMap
  BY DEF Same
<1>4. Ids(d) = Ids(c)
  BY <1>2, <1>3 DEF Ids
<1>5. Indexed(d)
  BY <1>3, <1>4 DEF Loose, Indexed
<1>. QED
  BY <1>5 DEF Good

LEMMA GoodAgain ==
  ASSUME NEW c, NEW d, Loose(c), d \in Chats, Same(c, d), d.height \in ViewHeight,
         Begins(d), c.ticks \union c.paused \subseteq d.ticks \union d.paused
  PROVE  Good(d)
<1>1. Turning(d)
  BY DEF Loose, Turning, Same
<1>. QED
  BY <1>1, GoodTurning

(* Where the view begins has changed, to another place in the list.        *)
LEMMA OffsetGood ==
  ASSUME NEW c, NEW d, Loose(c), OffsetOnly(c, d),
         d.offsetIdx \in IF d.items = <<>> THEN {-1, 0} ELSE Indices(d)
  PROVE  Keeps(c, d)
<1>1. /\ d \in Chats /\ d.items = c.items /\ d.height = c.height
      /\ d.selectedIdx = c.selectedIdx /\ d.idInxMap = c.idInxMap
      /\ d.paused = c.paused /\ d.ticks = c.ticks
  BY DEF OffsetOnly
<1>2. Same(c, d)
  BY <1>1 DEF Same
<1>3. Indices(d) = Indices(c)
  BY <1>1, SameRows
<1>4. Begins(d)
  BY <1>1, <1>3 DEF Loose, Begins
<1>5. d.height \in ViewHeight
  BY <1>1 DEF Loose
<1>. QED
  BY <1>1, <1>2, <1>4, <1>5, GoodAgain DEF Keeps

LEMMA PlacedGood ==
  ASSUME NEW c, NEW d, Loose(c), OffsetOnly(c, d), Placed(d)
  PROVE  Keeps(c, d)
  BY OffsetGood DEF Placed, Filled

(* The flag, the click or the selection has changed, to another item.      *)
LEMMA FlagGood ==
  ASSUME NEW c, Good(c), NEW b \in BOOLEAN
  PROVE  LET d == [c EXCEPT !.follow = b]
         IN Keeps(c, d) /\ Looks(c, d) /\ d.follow = b
<1> DEFINE d == [c EXCEPT !.follow = b]
<1>1. c \in Chats /\ Begins(c) /\ c.height \in ViewHeight
  BY DEF Good
<1>2. /\ d \in Chats /\ d.items = c.items /\ d.height = c.height
      /\ d.selectedIdx = c.selectedIdx /\ d.idInxMap = c.idInxMap
      /\ d.offsetIdx = c.offsetIdx /\ d.offsetLine = c.offsetLine
      /\ d.paused = c.paused /\ d.ticks = c.ticks /\ d.follow = b
  BY <1>1 DEF Chats
<1> HIDE DEF d
<1>3. Same(c, d) /\ Looks(c, d)
  BY <1>2 DEF Same, Looks
<1>4. Begins(d)
  BY <1>1, <1>2, SameRows DEF Begins
<1>. QED
  BY <1>1, <1>2, <1>3, <1>4, GoodAgain, GoodLoose DEF Keeps, d

LEMMA ClickGood ==
  ASSUME NEW c, Good(c), NEW b \in BOOLEAN
  PROVE  LET d == [c EXCEPT !.click = b]
         IN Keeps(c, d) /\ Looks(c, d) /\ d.follow = c.follow
            /\ d.selectedIdx = c.selectedIdx
<1> DEFINE d == [c EXCEPT !.click = b]
<1>1. c \in Chats /\ Begins(c) /\ c.height \in ViewHeight
  BY DEF Good
<1>2. /\ d \in Chats /\ d.items = c.items /\ d.height = c.height
      /\ d.selectedIdx = c.selectedIdx /\ d.idInxMap = c.idInxMap
      /\ d.offsetIdx = c.offsetIdx /\ d.offsetLine = c.offsetLine
      /\ d.paused = c.paused /\ d.ticks = c.ticks /\ d.follow = c.follow
  BY <1>1 DEF Chats
<1> HIDE DEF d
<1>3. Same(c, d) /\ Looks(c, d)
  BY <1>2 DEF Same, Looks
<1>4. Begins(d)
  BY <1>1, <1>2, SameRows DEF Begins
<1>. QED
  BY <1>1, <1>2, <1>3, <1>4, GoodAgain, GoodLoose DEF Keeps, d

SelectionOnly(c, d) ==
    d = c \/ \E i \in {-1} \union Indices(c) : d = [c EXCEPT !.selectedIdx = i]

LEMMA SelectionGood ==
  ASSUME NEW c, NEW d, Good(c), SelectionOnly(c, d)
  PROVE  Keeps(c, d) /\ Looks(c, d) /\ d.follow = c.follow
<1>1. CASE d = c
  BY <1>1 DEF Keeps, Same, Looks
<1>2. CASE d # c
  <2>1. PICK i \in {-1} \union Indices(c) : d = [c EXCEPT !.selectedIdx = i]
    BY <1>2 DEF SelectionOnly
  <2>2. c \in Chats /\ Begins(c) /\ c.height \in ViewHeight
    BY DEF Good
  <2>3. i \in Int
    BY <2>1, GoodIs
  <2>4. /\ d \in Chats /\ d.items = c.items /\ d.height = c.height
        /\ d.selectedIdx = i /\ d.idInxMap = c.idInxMap
        /\ d.offsetIdx = c.offsetIdx /\ d.offsetLine = c.offsetLine
        /\ d.paused = c.paused /\ d.ticks = c.ticks /\ d.follow = c.follow
    BY <2>1, <2>2, <2>3 DEF Chats
  <2>5. Same(c, d) /\ Looks(c, d)
    BY <2>4 DEF Same, Looks
  <2>6. Begins(d)
    BY <2>1, <2>2, <2>4, SameRows DEF Begins
  <2>. QED
    BY <2>2, <2>4, <2>5, <2>6, GoodAgain, GoodLoose DEF Keeps
<1>. QED
  BY <1>1, <1>2

-----------------------------------------------------------------------------
(* Selecting.                                                              *)

LEMMA SelectIs ==
  ASSUME NEW c, NEW i
  PROVE  SelectionOnly(c, Select(c, i))
<1>1. CASE i \in Indices(c)
  BY <1>1 DEF Select, SelectionOnly
<1>2. CASE i \notin Indices(c)
  BY <1>2 DEF Select, SelectionOnly
<1>. QED
  BY <1>1, <1>2

LEMMA SelectionsAre ==
  ASSUME NEW c, Good(c)
  PROVE  /\ SelectionOnly(c, SelectNext(c)) /\ SelectionOnly(c, SelectPrev(c))
         /\ SelectionOnly(c, SelectFirst(c)) /\ SelectionOnly(c, SelectLast(c))
         /\ SelectionOnly(c, SelectFirstInView(c))
         /\ SelectionOnly(c, SelectLastInView(c))
         /\ \A i : SelectionOnly(c, SetSelected(c, i))
<1> DEFINE n == Len(c.items)
           sel == c.selectedIdx
<1>1. /\ n \in Nat /\ LastIdx(c) = n - 1 /\ sel \in Int
      /\ \A i : i \in Indices(c) <=> i \in 0 .. n - 1
      /\ sel \in {-1} \union Indices(c) /\ (c.items = <<>> <=> n = 0)
  BY GoodIs DEF Good, Begins
<1>2. /\ Selectable(c) \in SUBSET Nat /\ Selectable(c) \subseteq Indices(c)
      /\ n # 0 => Selectable(c) \in SUBSET (0 .. n - 1)
  BY <1>1 DEF Selectable
<1>3. SelectionOnly(c, SelectNext(c))
  <2> DEFINE next == {i \in Indices(c) : i > sel /\ isSelectable(c, i)}
             i == IF next = {} THEN LastIdx(c) ELSE Min(next)
  <2>1. SelectNext(c) = IF sel >= LastIdx(c) THEN c ELSE [c EXCEPT !.selectedIdx = i]
    BY Zenon DEF SelectNext
  <2>2. ASSUME ~(sel >= LastIdx(c)) PROVE i \in Indices(c)
    <3>1. LastIdx(c) \in Indices(c)
      BY <1>1, <2>2
    <3>2. next \in SUBSET Nat /\ next \subseteq Indices(c)
      BY <1>1
    <3> HIDE DEF next
    <3>. QED
      BY <3>1, <3>2, MinOf
  <2> HIDE DEF i
  <2>. QED
    BY <2>1, <2>2 DEF SelectionOnly
<1>4. SelectionOnly(c, SelectPrev(c))
  <2> DEFINE prev == {i \in Indices(c) : i < sel /\ isSelectable(c, i)}
             i == IF prev = {} THEN 0 ELSE Max(prev)
  <2>1. SelectPrev(c) = IF sel <= 0 THEN c ELSE [c EXCEPT !.selectedIdx = i]
    BY Zenon DEF SelectPrev
  <2>2. ASSUME ~(sel <= 0) PROVE i \in Indices(c)
    <3>1. 0 \in Indices(c) /\ n - 1 \in Nat
      BY <1>1, <2>2
    <3>2. prev \in SUBSET (0 .. n - 1) /\ prev \subseteq Indices(c)
      BY <1>1
    <3> HIDE DEF prev, n
    <3>. QED
      BY <3>1, <3>2, MaxOf
  <2> HIDE DEF i
  <2>. QED
    BY <2>1, <2>2 DEF SelectionOnly
<1>5. SelectionOnly(c, SelectFirst(c))
  <2> DEFINE i == IF Selectable(c) = {} THEN LastIdx(c) ELSE Min(Selectable(c))
  <2>1. SelectFirst(c) = IF c.items = <<>> THEN c ELSE [c EXCEPT !.selectedIdx = i]
    BY Zenon DEF SelectFirst
  <2>2. ASSUME c.items # <<>> PROVE i \in Indices(c)
    <3>1. LastIdx(c) \in Indices(c)
      BY <1>1, <2>2
    <3>. QED
      BY <1>2, <3>1, MinOf
  <2> HIDE DEF i
  <2>. QED
    BY <2>1, <2>2 DEF SelectionOnly
<1>6. SelectionOnly(c, SelectLast(c))
  <2> DEFINE i == IF Selectable(c) = {} THEN 0 ELSE Max(Selectable(c))
  <2>1. SelectLast(c) = IF c.items = <<>> THEN c ELSE [c EXCEPT !.selectedIdx = i]
    BY Zenon DEF SelectLast
  <2>2. ASSUME c.items # <<>> PROVE i \in Indices(c)
    <3>1. 0 \in Indices(c) /\ n - 1 \in Nat /\ n # 0
      BY <1>1, <2>2
    <3> HIDE DEF n
    <3>. QED
      BY <1>2, <3>1, MaxOf
  <2> HIDE DEF i
  <2>. QED
    BY <2>1, <2>2 DEF SelectionOnly
<1>7. SelectionOnly(c, SelectFirstInView(c)) /\ SelectionOnly(c, SelectLastInView(c))
  BY SelectIs, Zenon DEF SelectFirstInView, SelectLastInView, SelectionOnly
<1>8. ASSUME NEW i PROVE SelectionOnly(c, SetSelected(c, i))
  <2>1. SetSelected(c, i) = SelectLast(c) \/ \E k : SetSelected(c, i) = Select(c, k)
    BY Zenon DEF SetSelected
  <2>. QED
    BY <1>6, <2>1, SelectIs
<1>. QED
  BY <1>3, <1>4, <1>5, <1>6, <1>7, <1>8

-----------------------------------------------------------------------------
(* Scrolling keeps the chat good, and the flag says that the end is shown. *)

LEMMA EmptyShown ==
  ASSUME NEW c, c.items = <<>>
  PROVE  EndShown(c)
  BY DEF EndShown

(* Setting the flag after the list has scrolled.                           *)
LEMMA FollowAfter ==
  ASSUME NEW c, NEW d, Keeps(c, d), NEW b \in BOOLEAN, b => EndShown(d)
  PROVE  LET e == [d EXCEPT !.follow = b]
         IN /\ Keeps(c, e) /\ Ends(e) /\ e.follow = b /\ Looks(d, e)
            /\ EndShown(e) <=> EndShown(d)
<1> DEFINE e == [d EXCEPT !.follow = b]
<1>1. Keeps(d, e) /\ Looks(d, e) /\ e.follow = b
  BY FlagGood DEF Keeps
<1> HIDE DEF e
<1>2. Keeps(c, e)
  BY <1>1, SameIs DEF Keeps
<1>3. EndShown(e) <=> EndShown(d)
  BY <1>1, LooksShown
<1>. QED
  BY <1>1, <1>2, <1>3 DEF Ends, e

LEMMA BottomGood ==
  ASSUME NEW c, Loose(c)
  PROVE  /\ Keeps(c, ScrollToBottom(c)) /\ EndShown(ScrollToBottom(c))
         /\ Ends(ScrollToBottom(c))
         /\ ScrollToBottom(c).items = c.items
         /\ ScrollToBottom(c).height = c.height
<1> DEFINE d == ListToBottom(c)
<1>1. Keeps(c, d) /\ EndShown(d) /\ d.items = c.items /\ d.height = c.height
  <2>1. CASE c.items = <<>>
    <3>1. d = c
      BY <2>1 DEF ListToBottom
    <3>2. Begins(c)
      BY <2>1 DEF Loose, Begins
    <3>. QED
      BY <2>1, <3>1, <3>2, EmptyShown, SameSelf DEF Keeps, Loose, Good
  <2>2. CASE c.items # <<>>
    <3>1. /\ Placed(d) /\ OffsetOnly(c, d)
          /\ Extent(d, d.offsetIdx, LastIdx(d)) - d.offsetLine <= d.height
      BY <2>2, BottomIs DEF Filled, Loose
    <3> HIDE DEF d
    <3>2. d.items = c.items /\ d.height = c.height
      BY <3>1 DEF OffsetOnly
    <3>. QED
      BY <3>1, <3>2, PlacedGood, GoodLoose DEF EndShown
  <2>. QED
    BY <2>1, <2>2
<1>2. ScrollToBottom(c) = [d EXCEPT !.follow = TRUE]
  BY DEF ScrollToBottom
<1> HIDE DEF d
<1> DEFINE e == [d EXCEPT !.follow = TRUE]
<1>3. Keeps(c, e) /\ Ends(e) /\ EndShown(e) /\ Looks(d, e)
  BY <1>1, FollowAfter
<1> HIDE DEF e
<1>4. e.items = d.items /\ e.height = d.height
  BY <1>3 DEF Looks
<1>5. ScrollToBottom(c) = e
  BY <1>2 DEF e
<1>. QED
  BY <1>1, <1>3, <1>4, <1>5

LEMMA TopGood ==
  ASSUME NEW c, Good(c)
  PROVE  Keeps(c, ScrollToTop(c)) /\ Ends(ScrollToTop(c))
<1> DEFINE d == ListToTop(c)
<1>1. Keeps(c, d)
  <2>1. CASE c.items = <<>>
    <3>1. OffsetOnly(c, d) /\ d.offsetIdx = 0
      BY BeginAtIs, GoodIs DEF ListToTop
    <3> HIDE DEF d
    <3>2. d.items = <<>>
      BY <2>1, <3>1 DEF OffsetOnly
    <3>. QED
      BY <3>1, <3>2, OffsetGood, GoodLoose
  <2>2. CASE c.items # <<>>
    BY <2>2, GoodIs, TopIs, PlacedGood, GoodLoose DEF Filled
  <2>. QED
    BY <2>1, <2>2
<1>2. ScrollToTop(c) = [d EXCEPT !.follow = FALSE]
  BY DEF ScrollToTop
<1> HIDE DEF d
<1>. QED
  BY <1>1, <1>2, FollowAfter

(* A list that is at its bottom shows its end.                             *)
LEMMA BottomShown ==
  ASSUME NEW c, Good(c), AtBottom(c)
  PROVE  EndShown(c)
<1>1. CASE c.items = <<>>
  BY <1>1, EmptyShown
<1>2. CASE c.items # <<>>
  BY <1>2, GoodIs, AtBottomIs DEF EndShown
<1>. QED
  BY <1>1, <1>2

LEMMA AtBottomBoolean == \A c : AtBottom(c) \in BOOLEAN
  BY DEF AtBottom

LEMMA ByGood ==
  ASSUME NEW c, Good(c), NEW n \in Int
  PROVE  /\ Keeps(c, ScrollBy(c, n)) /\ Ends(ScrollBy(c, n))
         /\ ScrollBy(c, n).items = c.items /\ ScrollBy(c, n).height = c.height
<1> DEFINE d == ListBy(c, n)
<1>1. Keeps(c, d) /\ d.items = c.items /\ d.height = c.height
  <2>1. CASE c.items = <<>> \/ n = 0
    <3>1. d = c
      BY <2>1 DEF ListBy
    <3>. QED
      BY <3>1, SameSelf DEF Keeps
  <2>2. CASE c.items # <<>> /\ n # 0
    <3>1. Placed(c) /\ c \in Chats
      BY <2>2, GoodIs
    <3>2. Placed(d) /\ OffsetOnly(c, d)
      <4>1. CASE n > 0
        <5>1. n \in Nat \ {0}
          BY <4>1
        <5>. QED
          BY <3>1, <5>1, ScrollDown
      <4>2. CASE ~(n > 0)
        <5>1. -n \in Nat \ {0} /\ -(-n) = n
          BY <2>2, <4>2
        <5>2. Placed(ListBy(c, -(-n))) /\ OffsetOnly(c, ListBy(c, -(-n)))
          BY <3>1, <5>1, ScrollUp
        <5>. QED
          BY <5>1, <5>2, Zenon
      <4>. QED
        BY <4>1, <4>2
    <3> HIDE DEF d
    <3>. QED
      BY <3>2, PlacedGood, GoodLoose DEF OffsetOnly
  <2>. QED
    BY <2>1, <2>2
<1>2. ScrollBy(c, n) = [d EXCEPT !.follow = n > 0 /\ AtBottom(d)]
  BY DEF ScrollBy
<1>3. (n > 0 /\ AtBottom(d)) \in BOOLEAN
  OBVIOUS
<1> HIDE DEF d
<1>4. n > 0 /\ AtBottom(d) => EndShown(d)
  BY <1>1, BottomShown DEF Keeps
<1> DEFINE b == n > 0 /\ AtBottom(d)
           e == [d EXCEPT !.follow = b]
<1>5. Keeps(c, e) /\ Ends(e) /\ Looks(d, e)
  <2> HIDE DEF b
  <2>. QED
    BY <1>1, <1>3, <1>4, FollowAfter DEF b
<1>6. ScrollBy(c, n) = e
  BY <1>2
<1> HIDE DEF e
<1>7. e.items = d.items /\ e.height = d.height
  BY <1>5 DEF Looks
<1>. QED
  BY <1>1, <1>5, <1>6, <1>7

LEMMA ToSelectedGood ==
  ASSUME NEW c, Good(c)
  PROVE  Keeps(c, ScrollToSelected(c)) /\ Ends(ScrollToSelected(c))
<1> DEFINE d == ListToSelected(c)
           sel == c.selectedIdx
           fills == {i \in 0 .. sel : Extent(c, i, sel) >= c.height}
           m == Max(fills)
<1>1. /\ Len(c.items) \in Nat /\ c.height \in Nat /\ sel \in Int
      /\ \A i : i \in Indices(c) <=> i \in 0 .. Len(c.items) - 1
      /\ c.items = <<>> <=> Len(c.items) = 0
  BY GoodIs
<1>2. d = IF sel \notin Indices(c) \/ SelectedItemInView(c) THEN c
          ELSE IF sel < c.offsetIdx THEN BeginAt(c, sel, 0)
          ELSE IF fills = {} THEN ListToTop(c)
          ELSE BeginAt(c, m, Extent(c, m, sel) - c.height)
  BY Zenon DEF ListToSelected
<1>3. Keeps(c, d)
  <2>1. CASE sel \notin Indices(c) \/ SelectedItemInView(c)
    BY <1>2, <2>1, SameSelf DEF Keeps
  <2>2. CASE sel \in Indices(c) /\ ~SelectedItemInView(c)
    <3>1. Filled(c) /\ sel \in Nat
      BY <1>1, <2>2, GoodIs DEF Filled
    <3>2. fills # {} => m \in Indices(c) /\ Extent(c, m, sel) - c.height \in Nat
      <4> SUFFICES ASSUME fills # {}
                   PROVE  m \in Indices(c) /\ Extent(c, m, sel) - c.height \in Nat
        OBVIOUS
      <4>1. fills \in SUBSET (0 .. sel)
        OBVIOUS
      <4>2. m \in fills
        <5> HIDE DEF fills
        <5>. QED
          BY <3>1, <4>1, MaxOf DEF sel
      <4>3. m \in 0 .. sel /\ Extent(c, m, sel) >= c.height
        BY <4>2
      <4> HIDE DEF m
      <4>4. m \in Indices(c) /\ m <= sel
        BY <1>1, <2>2, <3>1, <4>3
      <4>5. Extent(c, m, sel) = Starts(c.items)[sel + 1] - Starts(c.items)[m] - gap
        BY <2>2, <3>1, <4>4, ExtentIn
      <4>6. Starts(c.items)[sel + 1] \in Nat /\ Starts(c.items)[m] \in Nat
        BY <2>2, <3>1, <4>4, RowsIn
      <4>7. Extent(c, m, sel) \in Int
        <5> HIDE DEF sel
        <5>. QED
          BY <4>5, <4>6, GapNat
      <4>. QED
        BY <1>1, <4>3, <4>4, <4>7
    <3>3. 0 \in Nat
      OBVIOUS
    <3>4. Placed(d) /\ OffsetOnly(c, d)
      <4> HIDE DEF d, fills, m
      <4>. QED
        BY <1>2, <2>2, <3>1, <3>2, <3>3, PlaceIs, TopIs
    <3> HIDE DEF d
    <3>. QED
      BY <3>4, PlacedGood, GoodLoose
  <2>. QED
    BY <2>1, <2>2
<1>4. ScrollToSelected(c) = [d EXCEPT !.follow = AtBottom(d)]
  BY DEF ScrollToSelected
<1> HIDE DEF d
<1>5. AtBottom(d) => EndShown(d)
  BY <1>3, BottomShown DEF Keeps
<1>. QED
  BY <1>3, <1>4, <1>5, AtBottomBoolean, FollowAfter

LEMMA ToIndexGood ==
  ASSUME NEW c, Good(c), NEW i \in Indices(c)
  PROVE  Keeps(c, ScrollToIndex(c, i)) /\ Ends(ScrollToIndex(c, i))
<1> DEFINE d == ListToIndex(c, i)
<1>1. /\ Len(c.items) \in Nat /\ LastIdx(c) = Len(c.items) - 1 /\ i \in 0 .. Len(c.items) - 1
      /\ Filled(c)
  BY GoodIs DEF Filled
<1>2. Min({AtLeastZero(i), LastIdx(c)}) = i
  <2>1. AtLeastZero(i) = i
    BY <1>1 DEF AtLeastZero
  <2>2. i \in Int /\ LastIdx(c) \in Int /\ i <= LastIdx(c)
    BY <1>1
  <2>. QED
    BY <2>1, <2>2, MinPair
<1>3. d = BeginAt(c, i, 0)
  BY <1>2 DEF ListToIndex
<1>4. Placed(d) /\ OffsetOnly(c, d)
  BY <1>1, <1>3, PlaceIs
<1>5. ScrollToIndex(c, i) = [d EXCEPT !.follow = AtBottom(d)]
  BY DEF ScrollToIndex
<1> HIDE DEF d
<1>6. Keeps(c, d)
  BY <1>4, PlacedGood, GoodLoose
<1>7. AtBottom(d) => EndShown(d)
  BY <1>6, BottomShown DEF Keeps
<1>. QED
  BY <1>5, <1>6, <1>7, AtBottomBoolean, FollowAfter

-----------------------------------------------------------------------------
(* Animation and layout.                                                   *)

(* The index leads from the id of an item to the item.                     *)
LEMMA KnownIs ==
  ASSUME NEW c, Indexed(c), c.items \in Items
  PROVE  /\ \A id : Known(c, id) <=> \E k \in 1 .. Len(c.items) : c.items[k].id = id
         /\ \A k \in 1 .. Len(c.items) :
                /\ Known(c, c.items[k].id) /\ c.idInxMap[c.items[k].id] = k - 1
                /\ MessageItem(c, c.items[k].id) = c.items[k]
         /\ \A j, k \in 1 .. Len(c.items) : c.items[j].id = c.items[k].id => j = k
<1>1. Len(c.items) \in Nat /\ DOMAIN c.items = 1 .. Len(c.items)
  BY DEF Items
<1>2. \A id : Known(c, id) <=> \E k \in 1 .. Len(c.items) : c.items[k].id = id
  BY <1>1 DEF Known, Indexed, Ids
<1>3. ASSUME NEW k \in 1 .. Len(c.items)
      PROVE  /\ c.idInxMap[c.items[k].id] = k - 1
             /\ MessageItem(c, c.items[k].id) = c.items[k]
  <2>1. c.idInxMap[c.items[k].id] = k - 1 /\ (k - 1) + 1 = k
    BY <1>1 DEF Indexed
  <2>. QED
    BY <2>1 DEF MessageItem, ItemAt
<1>4. ASSUME NEW j \in 1 .. Len(c.items), NEW k \in 1 .. Len(c.items),
             c.items[j].id = c.items[k].id
      PROVE  j = k
  <2>1. j - 1 = k - 1
    BY <1>3, <1>4
  <2>. QED
    BY <1>1, <2>1
<1>. QED
  BY <1>2, <1>3, <1>4

(* Nothing but the ticks and the paused items has changed.                 *)
LEMMA AnimationIs ==
  ASSUME NEW c, Good(c), NEW p \in SUBSET ItemId, NEW t \in SUBSET ItemId,
         \A k \in 1 .. Len(c.items) :
             c.items[k].spins /\ c.items[k].id \in c.ticks \union c.paused =>
                 c.items[k].id \in t \union p
  PROVE  LET d == [c EXCEPT !.paused = p, !.ticks = t]
         IN /\ Keeps(c, d) /\ Looks(c, d)
            /\ d.follow = c.follow /\ d.selectedIdx = c.selectedIdx
<1> DEFINE d == [c EXCEPT !.paused = p, !.ticks = t]
<1>1. c \in Chats /\ Begins(c) /\ c.height \in ViewHeight /\ Turning(c)
  BY DEF Good
<1>2. /\ d \in Chats /\ d.items = c.items /\ d.height = c.height
      /\ d.selectedIdx = c.selectedIdx /\ d.idInxMap = c.idInxMap
      /\ d.offsetIdx = c.offsetIdx /\ d.offsetLine = c.offsetLine
      /\ d.paused = p /\ d.ticks = t /\ d.follow = c.follow
  BY <1>1 DEF Chats
<1> HIDE DEF d
<1>3. Same(c, d) /\ Looks(c, d)
  BY <1>2 DEF Same, Looks
<1>4. Begins(d)
  BY <1>1, <1>2, SameRows DEF Begins
<1>5. Turning(d)
  BY <1>1, <1>2 DEF Turning
<1>6. Keeps(c, d)
  BY <1>1, <1>2, <1>3, <1>4, <1>5, GoodTurning, GoodLoose DEF Keeps
<1>. QED
  BY <1>2, <1>3, <1>6 DEF d

LEMMA AnimatedGood ==
  ASSUME NEW c, Good(c)
  PROVE  LET d == Animated(c)
         IN /\ Keeps(c, d) /\ Looks(c, d)
            /\ d.follow = c.follow /\ d.selectedIdx = c.selectedIdx
<1> DEFINE here == {id \in c.paused : Known(c, id)}
           visible == {id \in here : InView(c, c.idInxMap[id])}
           p == here \ visible
           t == c.ticks \union {id \in visible : MessageItem(c, id).spins}
           d == [c EXCEPT !.paused = p, !.ticks = t]
<1>1. c \in Chats /\ Indexed(c) /\ c.items \in Items
  BY GoodIs DEF Good
<1>2. p \in SUBSET ItemId /\ t \in SUBSET ItemId
  BY <1>1, ChatIs
<1>3. ASSUME NEW k \in 1 .. Len(c.items),
             c.items[k].spins, c.items[k].id \in c.ticks \union c.paused
      PROVE  c.items[k].id \in t \union p
  BY <1>1, <1>3, KnownIs
<1>4. /\ Keeps(c, d) /\ Looks(c, d)
      /\ d.follow = c.follow /\ d.selectedIdx = c.selectedIdx
  <2> HIDE DEF p, t
  <2>. QED
    BY <1>2, <1>3, AnimationIs
<1>5. Animated(c) = IF c.paused = {} THEN c ELSE d
  BY <1>1 DEF Animated, RestartPausedVisibleAnimations, Chats
<1>6. Keeps(c, c) /\ Looks(c, c)
  BY SameSelf DEF Keeps, Looks
<1> HIDE DEF d
<1>. QED
  BY <1>4, <1>5, <1>6

LEMMA AnimatedEnds ==
  ASSUME NEW c, NEW d, Keeps(c, d)
  PROVE  /\ Keeps(c, Animated(d))
         /\ EndShown(Animated(d)) <=> EndShown(d)
         /\ Ends(Animated(d)) <=> Ends(d)
<1>1. /\ Keeps(d, Animated(d)) /\ Looks(d, Animated(d))
      /\ Animated(d).follow = d.follow
  BY AnimatedGood DEF Keeps
<1>2. Keeps(c, Animated(d))
  BY <1>1, SameIs DEF Keeps
<1>3. EndShown(Animated(d)) <=> EndShown(d)
  BY <1>1, LooksShown
<1>. QED
  BY <1>1, <1>2, <1>3 DEF Ends

(* A selection after the other changes.                                    *)
LEMMA SelectionAfter ==
  ASSUME NEW c, NEW d, NEW e, Keeps(c, d), SelectionOnly(d, e)
  PROVE  /\ Keeps(c, e) /\ e.follow = d.follow
         /\ Ends(e) <=> Ends(d)
<1>1. Keeps(d, e) /\ Looks(d, e) /\ e.follow = d.follow
  BY SelectionGood DEF Keeps
<1>2. Keeps(c, e)
  BY <1>1, SameIs DEF Keeps
<1>. QED
  BY <1>1, <1>2, LooksShown DEF Ends

LEMMA BottomAnimated ==
  ASSUME NEW c, Loose(c)
  PROVE  /\ Keeps(c, ScrollToBottomAndAnimate(c))
         /\ Ends(ScrollToBottomAndAnimate(c))
  BY BottomGood, AnimatedEnds DEF ScrollToBottomAndAnimate

LEMMA FollowGood ==
  ASSUME NEW c, Good(c)
  PROVE  Keeps(c, IfFollowToBottom(c)) /\ Ends(IfFollowToBottom(c))
<1>1. CASE c.follow
  BY <1>1, BottomAnimated, GoodLoose DEF IfFollowToBottom
<1>2. CASE ~c.follow
  BY <1>2, SameSelf DEF IfFollowToBottom, Keeps, Ends
<1>. QED
  BY <1>1, <1>2

(* A tick is answered, or the item is remembered.                          *)
LEMMA TickGood ==
  ASSUME NEW c, Good(c), NEW id \in c.ticks
  PROVE  Keeps(c, Animate(c, id))
<1> DEFINE t == c.ticks \ {id}
           left == [c EXCEPT !.ticks = t]
           k0 == c.idInxMap[id] + 1
<1>1. c \in Chats /\ Indexed(c) /\ c.items \in Items
  BY GoodIs DEF Good
<1>2. /\ t \in SUBSET ItemId /\ t \union {id} \in SUBSET ItemId
      /\ c.paused \in SUBSET ItemId /\ c.paused \ {id} \in SUBSET ItemId
      /\ c.paused \union {id} \in SUBSET ItemId
  BY <1>1, ChatIs
<1>3. Animate(c, id) =
        IF ~Known(c, id) THEN [c EXCEPT !.paused = c.paused, !.ticks = t]
        ELSE IF ~InView(c, c.idInxMap[id])
        THEN [c EXCEPT !.paused = c.paused \union {id}, !.ticks = t]
        ELSE [c EXCEPT !.paused = c.paused \ {id},
                       !.ticks = IF MessageItem(c, id).spins
                                 THEN t \union {id} ELSE t]
  BY <1>1 DEF Animate, Chats
<1>4. CASE ~Known(c, id)
  <2>1. \A k \in 1 .. Len(c.items) :
            c.items[k].id \in c.ticks \union c.paused => c.items[k].id \in t \union c.paused
    BY <1>1, <1>4, KnownIs
  <2> DEFINE p == c.paused
  <2>2. p \in SUBSET ItemId /\ t \in SUBSET ItemId
    BY <1>2
  <2>3. Animate(c, id) = [c EXCEPT !.paused = p, !.ticks = t]
    BY <1>3, <1>4
  <2>4. \A k \in 1 .. Len(c.items) :
            c.items[k].spins /\ c.items[k].id \in c.ticks \union c.paused =>
                c.items[k].id \in t \union p
    BY <2>1
  <2> HIDE DEF t, p
  <2>5. Keeps(c, [c EXCEPT !.paused = p, !.ticks = t])
    BY <2>2, <2>4, AnimationIs
  <2>. QED
    BY <2>3, <2>5
<1>5. CASE Known(c, id) /\ ~InView(c, c.idInxMap[id])
  <2> DEFINE p == c.paused \union {id}
  <2>1. \A k \in 1 .. Len(c.items) :
            c.items[k].id \in c.ticks \union c.paused => c.items[k].id \in t \union p
    OBVIOUS
  <2>2. p \in SUBSET ItemId
    BY <1>2
  <2> HIDE DEF t, p
  <2>3. Keeps(c, [c EXCEPT !.paused = p, !.ticks = t])
    BY <1>2, <2>1, <2>2, AnimationIs
  <2>. QED
    BY <1>3, <1>5, <2>3 DEF p
<1>6. CASE Known(c, id) /\ InView(c, c.idInxMap[id])
  <2> DEFINE p == c.paused \ {id}
             r == IF MessageItem(c, id).spins THEN t \union {id} ELSE t
  <2>1. \A k \in 1 .. Len(c.items) :
            c.items[k].spins /\ c.items[k].id \in c.ticks \union c.paused =>
                c.items[k].id \in r \union p
    BY <1>1, KnownIs
  <2>2. p \in SUBSET ItemId /\ r \in SUBSET ItemId
    BY <1>2
  <2>3. Animate(c, id) = [c EXCEPT !.paused = p, !.ticks = r]
    BY <1>3, <1>6
  <2> HIDE DEF r, p
  <2>4. Keeps(c, [c EXCEPT !.paused = p, !.ticks = r])
    BY <2>1, <2>2, AnimationIs
  <2>. QED
    BY <2>3, <2>4
<1>. QED
  BY <1>4, <1>5, <1>6

(* Items may become higher or lower, and the view too.                     *)
LEMMA HeightsGood ==
  ASSUME NEW c, Good(c), NEW items \in Items, Len(items) = Len(c.items),
         \A k \in 1 .. Len(c.items) :
             items[k].id = c.items[k].id /\ items[k].spins = c.items[k].spins
  PROVE  LET d == [c EXCEPT !.items = items]
         IN Keeps(c, d) /\ d.items = items
<1> DEFINE d == [c EXCEPT !.items = items]
<1>1. c \in Chats /\ Begins(c) /\ c.height \in ViewHeight /\ Turning(c)
  BY DEF Good
<1>2. /\ d \in Chats /\ d.items = items /\ d.height = c.height
      /\ d.selectedIdx = c.selectedIdx /\ d.idInxMap = c.idInxMap
      /\ d.offsetIdx = c.offsetIdx /\ d.paused = c.paused /\ d.ticks = c.ticks
  BY <1>1 DEF Chats
<1> HIDE DEF d
<1>3. Same(c, d)
  BY <1>2 DEF Same
<1>4. Indices(d) = Indices(c) /\ (d.items = <<>> <=> c.items = <<>>)
  <2>1. c.items \in Items /\ d.items \in Items
    BY <1>2, GoodIs
  <2>. QED
    BY <1>2, <2>1 DEF Indices, LastIdx, Items
<1>5. Begins(d)
  BY <1>1, <1>2, <1>4 DEF Begins
<1>6. Keeps(c, d)
  BY <1>1, <1>2, <1>3, <1>5, GoodAgain, GoodLoose DEF Keeps
<1>. QED
  BY <1>2, <1>6 DEF d

LEMMA SetSizeGood ==
  ASSUME NEW c, Good(c), NEW h \in ViewHeight
  PROVE  Keeps(c, SetSize(c, h)) /\ SetSize(c, h).items = c.items
<1> DEFINE l == [c EXCEPT !.height = h]
<1>1. c \in Chats /\ Begins(c) /\ h \in Nat \ {0}
  BY HeightsPositive DEF Good
<1>2. /\ l \in Chats /\ l.items = c.items /\ l.height = h
      /\ l.selectedIdx = c.selectedIdx /\ l.idInxMap = c.idInxMap
      /\ l.offsetIdx = c.offsetIdx /\ l.paused = c.paused /\ l.ticks = c.ticks
  BY <1>1 DEF Chats
<1>3. SetSize(c, h) = IF AtBottom(l) THEN ScrollToBottom(l) ELSE l
  BY DEF SetSize
<1> HIDE DEF l
<1>4. Same(c, l)
  BY <1>2 DEF Same
<1>5. Begins(l)
  BY <1>1, <1>2, SameRows DEF Begins
<1>6. Good(l)
  BY <1>2, <1>4, <1>5, GoodAgain, GoodLoose
<1>7. Keeps(l, ScrollToBottom(l)) /\ ScrollToBottom(l).items = l.items
  BY <1>6, BottomGood, GoodLoose
<1>. QED
  BY <1>2, <1>3, <1>4, <1>6, <1>7, SameIs DEF Keeps

LEMMA RewrapGood ==
  ASSUME NEW c, Good(c), NEW rows \in TextHeight
  PROVE  Keeps(c, Rewrap(c, rows)) /\ (c.items = <<>> => Rewrap(c, rows).items = <<>>)
<1> DEFINE new(item) == IF item.id.part = "text" /\ msgs[item.id.msg].text
                        THEN [item EXCEPT !.h = rows] ELSE item
           items == [i \in DOMAIN c.items |-> new(c.items[i])]
<1>1. c.items \in Items /\ Len(c.items) \in Nat /\ DOMAIN c.items = 1 .. Len(c.items)
  BY GoodIs
<1>2. rows \in Nat \ {0}
  BY HeightsPositive
<1>3. \A item \in OneItem : /\ new(item) \in OneItem
                            /\ new(item).id = item.id /\ new(item).spins = item.spins
  <2> SUFFICES ASSUME NEW item \in OneItem
               PROVE  /\ new(item) \in OneItem
                      /\ new(item).id = item.id /\ new(item).spins = item.spins
    OBVIOUS
  <2>1. /\ [item EXCEPT !.h = rows] \in OneItem
        /\ [item EXCEPT !.h = rows].id = item.id
        /\ [item EXCEPT !.h = rows].spins = item.spins
    BY <1>2 DEF OneItem
  <2>. QED
    BY <2>1
<1>4. \A k \in 1 .. Len(c.items) : c.items[k] \in OneItem
  BY <1>1, ItemsAre
<1>5. Rewrap(c, rows) = [c EXCEPT !.items = items]
  BY DEF Rewrap
<1> HIDE DEF new
<1>6. /\ items \in Items /\ Len(items) = Len(c.items)
      /\ \A k \in 1 .. Len(c.items) :
             items[k].id = c.items[k].id /\ items[k].spins = c.items[k].spins
  BY <1>1, <1>3, <1>4 DEF Items
<1>7. c.items = <<>> => items = <<>>
  BY <1>1, <1>6 DEF Items
<1> HIDE DEF items
<1>. QED
  BY <1>5, <1>6, <1>7, HeightsGood

LEMMA LayoutGood ==
  ASSUME NEW c, Good(c), NEW h \in ViewHeight, NEW rows \in TextHeight
  PROVE  LET d == updateLayoutAndSize(c, h, rows)
         IN Keeps(c, d) /\ (c.items = <<>> => d.items = <<>>)
<1>1. Keeps(c, Rewrap(c, rows)) /\ (c.items = <<>> => Rewrap(c, rows).items = <<>>)
  BY RewrapGood
<1>. QED
  BY <1>1, SetSizeGood, SameIs DEF updateLayoutAndSize, Keeps

LEMMA ToggleGood ==
  ASSUME NEW c, Good(c), c.selectedIdx \in Indices(c)
  PROVE  Keeps(c, ToggleExpanded(c))
<1> DEFINE idx == c.selectedIdx
           k == idx + 1
           opens == ItemAt(c, idx).h = 1
           h == IF opens THEN OpenHeight ELSE 1
           items == [c.items EXCEPT ![k] = [@ EXCEPT !.h = h]]
           other == [c EXCEPT !.items = items]
<1>1. /\ c.items \in Items /\ Len(c.items) \in Nat /\ DOMAIN c.items = 1 .. Len(c.items)
      /\ k \in 1 .. Len(c.items) /\ c \in Chats
  BY GoodIs
<1>2. h \in Nat \ {0}
  BY HeightsPositive
<1>3. ToggleExpanded(c) = IF opens THEN other ELSE ScrollToIndex(other, idx)
  BY <1>1 DEF ToggleExpanded, Chats
<1>4. c.items[k] \in OneItem
  BY <1>1, ItemsAre
<1>5. /\ items \in Items /\ Len(items) = Len(c.items)
      /\ \A j \in 1 .. Len(c.items) :
             items[j].id = c.items[j].id /\ items[j].spins = c.items[j].spins
  <2> HIDE DEF h
  <2>1. LET new == [c.items[k] EXCEPT !.h = h]
        IN new \in OneItem /\ new.id = c.items[k].id /\ new.spins = c.items[k].spins
    BY <1>2, <1>4 DEF OneItem
  <2> HIDE DEF k
  <2>. QED
    BY <1>1, <2>1 DEF Items
<1> HIDE DEF items
<1>6. Keeps(c, other) /\ other.items = items
  BY <1>5, HeightsGood
<1>7. idx \in Indices(other)
  BY <1>5, <1>6 DEF Indices, LastIdx
<1> HIDE DEF other, opens
<1>8. Keeps(other, ScrollToIndex(other, idx))
  BY <1>6, <1>7, ToIndexGood DEF Keeps
<1>. QED
  BY <1>3, <1>6, <1>8, SameIs DEF Keeps

LEMMA AnchorGood ==
  ASSUME NEW c, NEW d, Keeps(c, d)
  PROVE  Keeps(c, Anchor(d))
<1>1. Keeps(d, ScrollToBottom(d))
  BY BottomGood, GoodLoose DEF Keeps
<1>. QED
  BY <1>1, SameIs DEF Anchor, Keeps

(* The selection is brought into the view.                                 *)
LEMMA BringGood ==
  ASSUME NEW c, NEW d, Keeps(c, d), Ends(d), NEW e, SelectionOnly(d, e)
  PROVE  Keeps(c, BringSelection(d, e)) /\ Ends(BringSelection(d, e))
<1>1. Keeps(c, e)
  BY SelectionAfter
<1>2. Keeps(e, ScrollToSelected(e)) /\ Ends(ScrollToSelected(e))
  BY <1>1, ToSelectedGood DEF Keeps
<1>3. Keeps(c, ScrollToSelected(e))
  BY <1>1, <1>2, SameIs DEF Keeps
<1>4. Keeps(c, Animated(ScrollToSelected(e))) /\ Ends(Animated(ScrollToSelected(e)))
  BY <1>2, <1>3, AnimatedEnds
<1>. QED
  BY <1>4 DEF BringSelection

-----------------------------------------------------------------------------
(* Items that come, go and change.                                         *)

ElemsOf(items) == {items[k] : k \in DOMAIN items}
IdsOf(items) == {items[k].id : k \in DOMAIN items}
Distinct(items) ==
    \A j, k \in DOMAIN items : items[j].id = items[k].id => j = k

LEMMA OneIs ==
  ASSUME NEW x \in OneItem
  PROVE  /\ <<x>> \in Items /\ Distinct(<<x>>)
         /\ ElemsOf(<<x>>) = {x} /\ IdsOf(<<x>>) = {x.id}
<1>1. <<x>> \in Items /\ Len(<<x>>) = 1 /\ <<x>>[1] = x /\ DOMAIN <<x>> = {1}
  BY DEF Items
<1>. QED
  BY <1>1 DEF Distinct, ElemsOf, IdsOf

LEMMA NoneIs ==
  /\ <<>> \in Items /\ Distinct(<<>>)
  /\ ElemsOf(<<>>) = {} /\ IdsOf(<<>>) = {}
<1>1. <<>> \in Items /\ DOMAIN <<>> = {}
  BY DEF Items
<1>. QED
  BY <1>1 DEF Distinct, ElemsOf, IdsOf

LEMMA JoinIs ==
  ASSUME NEW u \in Items, NEW v \in Items
  PROVE  /\ u \o v \in Items /\ Len(u \o v) = Len(u) + Len(v)
         /\ \A k \in 1 .. Len(u) : (u \o v)[k] = u[k]
         /\ \A k \in 1 .. Len(v) : (u \o v)[Len(u) + k] = v[k]
         /\ ElemsOf(u \o v) = ElemsOf(u) \union ElemsOf(v)
         /\ IdsOf(u \o v) = IdsOf(u) \union IdsOf(v)
         /\ Distinct(u) /\ Distinct(v) /\ IdsOf(u) \intersect IdsOf(v) = {} =>
                Distinct(u \o v)
<1> DEFINE g == u \o v
<1>1. /\ Len(u) \in Nat /\ Len(v) \in Nat
      /\ DOMAIN u = 1 .. Len(u) /\ DOMAIN v = 1 .. Len(v)
  BY DEF Items
<1>2. /\ g \in Items /\ Len(g) = Len(u) + Len(v) /\ DOMAIN g = 1 .. Len(u) + Len(v)
      /\ \A k \in 1 .. Len(u) : g[k] = u[k]
      /\ \A k \in 1 .. Len(v) : g[Len(u) + k] = v[k]
  BY DEF Items
<1> HIDE DEF g
<1>3. \A k \in DOMAIN g : \/ k \in 1 .. Len(u)
                          \/ \E j \in 1 .. Len(v) : k = Len(u) + j
  <2> SUFFICES ASSUME NEW k \in DOMAIN g, k \notin 1 .. Len(u)
               PROVE  \E j \in 1 .. Len(v) : k = Len(u) + j
    OBVIOUS
  <2>1. k - Len(u) \in 1 .. Len(v) /\ k = Len(u) + (k - Len(u))
    BY <1>1, <1>2
  <2>. QED
    BY <2>1
<1>4. /\ \A k \in 1 .. Len(u) : k \in DOMAIN g
      /\ \A k \in 1 .. Len(v) : Len(u) + k \in DOMAIN g
  BY <1>1, <1>2
<1>5. ElemsOf(g) = ElemsOf(u) \union ElemsOf(v)
  <2>1. ElemsOf(g) \subseteq ElemsOf(u) \union ElemsOf(v)
    BY <1>1, <1>2, <1>3 DEF ElemsOf
  <2>2. ElemsOf(u) \subseteq ElemsOf(g) /\ ElemsOf(v) \subseteq ElemsOf(g)
    BY <1>1, <1>2, <1>4 DEF ElemsOf
  <2>. QED
    BY <2>1, <2>2
<1>6. IdsOf(g) = IdsOf(u) \union IdsOf(v)
  <2>1. IdsOf(g) \subseteq IdsOf(u) \union IdsOf(v)
    <3>1. ASSUME NEW k \in DOMAIN g PROVE g[k].id \in IdsOf(u) \union IdsOf(v)
      <4>1. CASE k \in 1 .. Len(u)
        BY <1>1, <1>2, <4>1 DEF IdsOf
      <4>2. CASE k \notin 1 .. Len(u)
        <5>1. PICK j \in 1 .. Len(v) : k = Len(u) + j
          BY <1>3, <4>2
        <5>2. g[k] = v[j]
          BY <1>2, <5>1
        <5>. QED
          BY <1>1, <5>2 DEF IdsOf
      <4>. QED
        BY <4>1, <4>2
    <3>. QED
      BY <3>1 DEF IdsOf
  <2>2. IdsOf(u) \subseteq IdsOf(g) /\ IdsOf(v) \subseteq IdsOf(g)
    BY <1>1, <1>2, <1>4 DEF IdsOf
  <2>. QED
    BY <2>1, <2>2
<1>7. ASSUME Distinct(u), Distinct(v), IdsOf(u) \intersect IdsOf(v) = {},
             NEW j \in DOMAIN g, NEW k \in DOMAIN g, g[j].id = g[k].id
      PROVE  j = k
  <2>1. \A a \in 1 .. Len(u), b \in 1 .. Len(v) : u[a].id # v[b].id
    BY <1>1, <1>7 DEF IdsOf
  <2>2. /\ \A a, b \in 1 .. Len(u) : u[a].id = u[b].id => a = b
        /\ \A a, b \in 1 .. Len(v) : v[a].id = v[b].id => a = b
    BY <1>1, <1>7 DEF Distinct
  <2>3. CASE j \in 1 .. Len(u) /\ k \in 1 .. Len(u)
    BY <1>2, <1>7, <2>2, <2>3
  <2>4. ASSUME NEW b \in 1 .. Len(v), j \in 1 .. Len(u), k = Len(u) + b PROVE FALSE
    BY <1>2, <1>7, <2>1, <2>4
  <2>5. ASSUME NEW a \in 1 .. Len(v), k \in 1 .. Len(u), j = Len(u) + a PROVE FALSE
    <3>1. g[j] = v[a] /\ g[k] = u[k]
      BY <1>2, <2>5
    <3>. QED
      BY <1>7, <2>1, <2>5, <3>1
  <2>6. ASSUME NEW a \in 1 .. Len(v), NEW b \in 1 .. Len(v),
               j = Len(u) + a, k = Len(u) + b
        PROVE  j = k
    <3>1. g[j] = v[a] /\ g[k] = v[b]
      BY <1>2, <2>6
    <3>. QED
      BY <1>7, <2>2, <2>6, <3>1
  <2>. QED
    BY <1>3, <2>3, <2>4, <2>5, <2>6
<1>. QED
  BY <1>2, <1>5, <1>6, <1>7 DEF Distinct, g

LEMMA IndexOfIs ==
  ASSUME NEW items \in Items, Distinct(items)
  PROVE  /\ IndexOf(items) \in Index /\ DOMAIN IndexOf(items) = IdsOf(items)
         /\ \A k \in 1 .. Len(items) : IndexOf(items)[items[k].id] = k - 1
<1> DEFINE at(id) == CHOOSE i \in 0 .. Len(items) - 1 : items[i + 1].id = id
<1>1. DOMAIN items = 1 .. Len(items) /\ Len(items) \in Nat
  BY DEF Items
<1>2. IndexOf(items) = [id \in IdsOf(items) |-> at(id)]
  BY DEF IndexOf, IdsOf
<1>3. ASSUME NEW k \in 1 .. Len(items) PROVE at(items[k].id) = k - 1
  <2>1. k - 1 \in 0 .. Len(items) - 1 /\ (k - 1) + 1 = k
    BY <1>1
  <2>2. /\ at(items[k].id) \in 0 .. Len(items) - 1
        /\ items[at(items[k].id) + 1].id = items[k].id
    BY <2>1
  <2> HIDE DEF at
  <2>3. at(items[k].id) + 1 = k
    <3>1. at(items[k].id) + 1 \in 1 .. Len(items)
      BY <1>1, <2>2
    <3>. QED
      BY <1>1, <2>2, <3>1 DEF Distinct
  <2>. QED
    BY <2>2, <2>3
<1> HIDE DEF at
<1>4. \A id \in IdsOf(items) : at(id) \in Nat
  BY <1>1, <1>3 DEF IdsOf
<1>5. IdsOf(items) \subseteq ItemId
  BY <1>1, ItemsAre DEF IdsOf
<1>6. IndexOf(items) \in [IdsOf(items) -> Nat]
  BY <1>2, <1>4
<1>7. \A k \in 1 .. Len(items) : items[k].id \in IdsOf(items)
  BY <1>1 DEF IdsOf
<1>8. IndexOf(items) \in Index
  BY <1>5, <1>6 DEF Index
<1>. QED
  BY <1>2, <1>3, <1>7, <1>8

LEMMA TurningIs ==
  ASSUME NEW c, c.items \in Items
  PROVE  /\ Turning(c) <=> \A x \in ElemsOf(c.items) :
                               x.spins => x.id \in c.ticks \union c.paused
         /\ Ids(c) = IdsOf(c.items)
         /\ IdsOf(c.items) = {x.id : x \in ElemsOf(c.items)}
         /\ Indexed(c) => Distinct(c.items)
<1>1. DOMAIN c.items = 1 .. Len(c.items)
  BY DEF Items
<1>2. Indexed(c) => Distinct(c.items)
  BY <1>1, KnownIs DEF Distinct
<1>. QED
  BY <1>1, <1>2 DEF Turning, ElemsOf, Ids, IdsOf

(* Nothing but the items and their index has changed.                      *)
LEMMA AppendIs ==
  ASSUME NEW c, Loose(c), NEW items \in Items, Distinct(items),
         IdsOf(items) \intersect Ids(c) = {},
         \A x \in ElemsOf(items) : x.spins => x.id \in c.ticks \union c.paused
  PROVE  LET d == AppendMessages(c, items)
         IN /\ Loose(d)
            /\ Good(c) /\ c.items # <<>> => Good(d)
            /\ ElemsOf(d.items) = ElemsOf(c.items) \union ElemsOf(items)
            /\ Ids(d) = Ids(c) \union IdsOf(items)
            /\ d.follow = c.follow /\ d.ticks = c.ticks /\ d.paused = c.paused
            /\ d.items = c.items \o items
<1> DEFINE new == IndexOf(items)
           n == Len(c.items)
           D == IdsOf(items) \union Ids(c)
           ix == [id \in D |-> IF id \in IdsOf(items) THEN n + new[id]
                               ELSE c.idInxMap[id]]
           longer == c.items \o items
           d == [c EXCEPT !.items = longer, !.idInxMap = ix]
<1>1. /\ c \in Chats /\ c.items \in Items /\ n \in Nat /\ Indexed(c) /\ Turning(c)
      /\ DOMAIN c.items = 1 .. n /\ DOMAIN c.idInxMap = Ids(c)
      /\ \A k \in 1 .. n : c.idInxMap[c.items[k].id] = k - 1
  BY ChatIs DEF Loose, Items, Indexed
<1>2. DOMAIN items = 1 .. Len(items) /\ Len(items) \in Nat
  BY DEF Items
<1>3. /\ DOMAIN new = IdsOf(items)
      /\ \A k \in 1 .. Len(items) : new[items[k].id] = k - 1
  BY IndexOfIs
<1>4. /\ longer \in Items /\ Len(longer) = n + Len(items)
      /\ \A k \in 1 .. n : longer[k] = c.items[k]
      /\ \A k \in 1 .. Len(items) : longer[n + k] = items[k]
      /\ ElemsOf(longer) = ElemsOf(c.items) \union ElemsOf(items)
      /\ IdsOf(longer) = Ids(c) \union IdsOf(items)
  BY <1>1, JoinIs, TurningIs
<1>5. AppendMessages(c, items) = d
  BY <1>1, <1>3 DEF AppendMessages, AppendItems, Chats
<1>6. /\ \A k \in 1 .. n : c.items[k].id \in D /\ c.items[k].id \notin IdsOf(items)
      /\ \A k \in 1 .. Len(items) : items[k].id \in D /\ items[k].id \in IdsOf(items)
  BY <1>1, <1>2 DEF Ids, IdsOf
<1>7. /\ \A k \in 1 .. n : ix[c.items[k].id] = k - 1
      /\ \A k \in 1 .. Len(items) : ix[items[k].id] = n + (k - 1)
  <2> HIDE DEF D, n, new
  <2>. QED
    BY <1>1, <1>3, <1>6
<1>8. ix \in Index /\ DOMAIN ix = D
  <2>1. c.idInxMap \in Index
    BY <1>1, ChatIs
  <2>2. PICK S \in SUBSET ItemId : c.idInxMap \in [S -> Nat]
    BY <2>1 DEF Index
  <2>3. S = Ids(c) /\ \A id \in Ids(c) : c.idInxMap[id] \in Nat
    BY <1>1, <2>2
  <2>4. IdsOf(items) \subseteq ItemId /\ \A id \in IdsOf(items) : new[id] \in Nat
    BY <1>2, <1>3, ItemsAre DEF IdsOf
  <2>5. D \in SUBSET ItemId
    BY <2>3, <2>4
  <2>6. ix \in [D -> Nat]
    <3> HIDE DEF n, new
    <3>. QED
      BY <1>1, <2>3, <2>4
  <2> HIDE DEF ix, D
  <2>. QED
    BY <2>5, <2>6 DEF Index
<1> HIDE DEF new, ix, longer
<1>9. /\ d \in Chats /\ d.items = longer /\ d.height = c.height
      /\ d.selectedIdx = c.selectedIdx /\ d.idInxMap = ix /\ d.offsetIdx = c.offsetIdx
      /\ d.paused = c.paused /\ d.ticks = c.ticks /\ d.follow = c.follow
  BY <1>1, <1>4, <1>8 DEF Chats
<1> HIDE DEF d
<1>10. Ids(d) = D
  BY <1>4, <1>9, TurningIs
<1> HIDE DEF D
<1>11. Indexed(d)
  <2>1. ASSUME NEW k \in 1 .. Len(longer) PROVE ix[longer[k].id] = k - 1
    <3>1. CASE k \in 1 .. n
      BY <1>4, <1>7, <3>1
    <3>2. CASE k \notin 1 .. n
      <4>1. PICK j \in 1 .. Len(items) : k = n + j
        <5>1. k - n \in 1 .. Len(items) /\ k = n + (k - n)
          BY <1>1, <1>2, <1>4, <3>2
        <5>. QED
          BY <5>1
      <4>2. longer[k] = items[j] /\ n + (j - 1) = k - 1
        BY <1>1, <1>4, <4>1
      <4>. QED
        BY <1>7, <4>2
    <3>. QED
      BY <3>1, <3>2
  <2>. QED
    BY <1>8, <1>9, <1>10, <2>1 DEF Indexed
<1>12. Turning(d)
  BY <1>1, <1>4, <1>9, TurningIs
<1>13. /\ \A i \in Indices(c) : i \in Indices(d)
       /\ d.items = <<>> => c.items = <<>>
  <2>1. \A i \in Indices(c) : i \in Indices(d)
    BY <1>1, <1>2, <1>4, <1>9 DEF Indices, LastIdx
  <2>2. d.items = <<>> => Len(d.items) = 0
    OBVIOUS
  <2>3. d.items = <<>> => c.items = <<>>
    BY <1>1, <1>2, <1>4, <1>9, <2>2 DEF Items
  <2>. QED
    BY <2>1, <2>3
<1>14. Loose(d)
  BY <1>9, <1>11, <1>12, <1>13 DEF Loose
<1>15. Good(c) /\ c.items # <<>> => Good(d)
  BY <1>9, <1>13, <1>14 DEF Good, Loose, Begins
<1>. QED
  BY <1>4, <1>5, <1>9, <1>10, <1>14, <1>15 DEF D, longer

LEMMA ReplaceIs ==
  ASSUME NEW c, Good(c), NEW x \in OneItem, Known(c, x.id),
         x.spins => x.id \in c.ticks \union c.paused
  PROVE  LET d == ReplaceItem(c, x)
         IN /\ Good(d) /\ Ids(d) = Ids(c) /\ d.items # <<>>
            /\ ElemsOf(d.items) = {y \in ElemsOf(c.items) : y.id # x.id} \union {x}
            /\ d.follow = c.follow /\ d.ticks = c.ticks /\ d.paused = c.paused
<1>1. /\ c \in Chats /\ c.items \in Items /\ Len(c.items) \in Nat /\ Indexed(c)
      /\ Turning(c) /\ DOMAIN c.items = 1 .. Len(c.items) /\ Begins(c)
      /\ c.height \in ViewHeight
  BY GoodIs DEF Good
<1>2. PICK k \in 1 .. Len(c.items) : c.items[k].id = x.id /\ c.idInxMap[x.id] = k - 1
  <2>1. PICK k \in 1 .. Len(c.items) : c.items[k].id = x.id
    BY <1>1, KnownIs
  <2>2. c.idInxMap[c.items[k].id] = k - 1
    BY <1>1, KnownIs
  <2>. QED
    BY <2>1, <2>2
<1> DEFINE items == [c.items EXCEPT ![k] = x]
           d == [c EXCEPT !.items = items]
<1>3. ReplaceItem(c, x) = d
  <2>1. (k - 1) + 1 = k
    BY <1>1
  <2>. QED
    BY <1>1, <1>2, <2>1 DEF ReplaceItem, Chats
<1>4. /\ items \in Items /\ Len(items) = Len(c.items) /\ DOMAIN items = 1 .. Len(c.items)
      /\ \A j \in 1 .. Len(c.items) : items[j] = IF j = k THEN x ELSE c.items[j]
  BY <1>1 DEF Items
<1> HIDE DEF items
<1>5. /\ d \in Chats /\ d.items = items /\ d.height = c.height
      /\ d.selectedIdx = c.selectedIdx /\ d.idInxMap = c.idInxMap
      /\ d.offsetIdx = c.offsetIdx /\ d.paused = c.paused /\ d.ticks = c.ticks
      /\ d.follow = c.follow
  BY <1>1, <1>4 DEF Chats
<1> HIDE DEF d
<1>6. \A j \in 1 .. Len(c.items) : items[j].id = c.items[j].id
  BY <1>2, <1>4
<1>7. Ids(d) = Ids(c)
  BY <1>1, <1>4, <1>5, <1>6 DEF Ids
<1>8. Indexed(d)
  BY <1>1, <1>4, <1>5, <1>6, <1>7 DEF Indexed
<1>9. \A j \in 1 .. Len(c.items) : c.items[j].id = x.id <=> j = k
  <2>1. \A i, j \in 1 .. Len(c.items) : c.items[i].id = c.items[j].id => i = j
    BY <1>1, KnownIs
  <2>. QED
    BY <1>2, <2>1
<1>10. ElemsOf(items) = {y \in ElemsOf(c.items) : y.id # x.id} \union {x}
  BY <1>1, <1>4, <1>9 DEF ElemsOf
<1>11. Turning(d)
  BY <1>1, <1>4, <1>5 DEF Turning
<1>12. /\ Indices(d) = Indices(c) /\ d.items # <<>> /\ c.items # <<>>
  BY <1>1, <1>2, <1>4, <1>5 DEF Indices, LastIdx
<1>13. Begins(d)
  BY <1>1, <1>5, <1>12 DEF Begins
<1>. QED
  BY <1>1, <1>3, <1>5, <1>7, <1>8, <1>10, <1>11, <1>12, <1>13 DEF Good

LEMMA WithoutIs ==
  ASSUME NEW u \in Items, NEW idx \in 0 .. Len(u) - 1
  PROVE  LET g == SubSeq(u, 1, idx) \o SubSeq(u, idx + 2, Len(u))
         IN /\ g \in Items /\ Len(g) = Len(u) - 1 /\ DOMAIN g = 1 .. Len(u) - 1
            /\ \A k \in 1 .. Len(u) - 1 :
                   g[k] = IF k <= idx THEN u[k] ELSE u[k + 1]
<1> DEFINE n == Len(u)
           a == SubSeq(u, 1, idx)
           b == SubSeq(u, idx + 2, n)
           g == a \o b
<1>1. n \in Nat /\ idx \in Nat /\ idx < n /\ n >= 1
  BY DEF Items
<1>2. /\ a \in Items /\ Len(a) = idx
      /\ \A k \in 1 .. idx : a[k] = u[k]
  <2> HIDE DEF n
  <2>. QED
    BY <1>1 DEF Items, n
<1>3. /\ b \in Items /\ Len(b) = n - 1 - idx
      /\ \A k \in 1 .. n - 1 - idx : b[k] = u[idx + 1 + k]
  <2>1. u \in Seq(OneItem) /\ idx + 2 \in Nat \ {0} /\ idx + 2 <= n + 1
    BY <1>1 DEF Items
  <2>2. \A i \in idx + 2 .. n : u[i] \in OneItem
    BY <1>1, ItemsAre
  <2>3. b = [k \in 1 .. n - 1 - idx |-> u[idx + 1 + k]]
    BY <1>1, <2>1
  <2> HIDE DEF b
  <2>4. \A k \in 1 .. n - 1 - idx : idx + 1 + k \in idx + 2 .. n
    BY <1>1
  <2>5. n - 1 - idx \in Nat
    BY <1>1
  <2>. QED
    BY <2>2, <2>3, <2>4, <2>5 DEF Items
<1> HIDE DEF a, b
<1>4. /\ g \in Items /\ Len(g) = idx + (n - 1 - idx)
      /\ \A k \in 1 .. idx : g[k] = a[k]
      /\ \A k \in 1 .. n - 1 - idx : g[idx + k] = b[k]
  <2>1. /\ g \in Items /\ Len(g) = Len(a) + Len(b)
        /\ \A k \in 1 .. Len(a) : g[k] = a[k]
        /\ \A k \in 1 .. Len(b) : g[Len(a) + k] = b[k]
    BY <1>2, <1>3, JoinIs
  <2> HIDE DEF g, n
  <2>. QED
    BY <1>2, <1>3, <2>1
<1> HIDE DEF g
<1>5. Len(g) = n - 1 /\ DOMAIN g = 1 .. n - 1
  <2>1. Len(g) = n - 1
    BY <1>1, <1>4
  <2>. QED
    BY <1>4, <2>1 DEF Items
<1>6. ASSUME NEW k \in 1 .. n - 1
      PROVE  g[k] = IF k <= idx THEN u[k] ELSE u[k + 1]
  <2>1. CASE k <= idx
    <3>1. k \in 1 .. idx
      BY <1>1, <2>1
    <3>. QED
      BY <1>2, <1>4, <2>1, <3>1
  <2>2. CASE ~(k <= idx)
    <3> DEFINE j == k - idx
    <3>1. j \in 1 .. n - 1 - idx /\ idx + j = k /\ idx + 1 + j = k + 1
      BY <1>1, <2>2
    <3> HIDE DEF j
    <3>2. g[idx + j] = b[j] /\ b[j] = u[idx + 1 + j]
      BY <1>3, <1>4, <3>1
    <3>. QED
      BY <2>2, <3>1, <3>2
  <2>. QED
    BY <2>1, <2>2
<1>. QED
  BY <1>4, <1>5, <1>6 DEF g, a, b

LEMMA RemoveIs ==
  ASSUME NEW c, Good(c), NEW id, Known(c, id)
  PROVE  LET d == RemoveMessage(c, id)
         IN /\ Good(d)
            /\ ElemsOf(d.items) = {y \in ElemsOf(c.items) : y.id # id}
            /\ Ids(d) = Ids(c) \ {id}
            /\ d.follow = c.follow /\ d.ticks = c.ticks
<1>1. /\ c \in Chats /\ c.items \in Items /\ Len(c.items) \in Nat /\ Indexed(c)
      /\ Turning(c) /\ DOMAIN c.items = 1 .. Len(c.items) /\ Begins(c)
      /\ c.height \in ViewHeight
  BY GoodIs DEF Good
<1>2. PICK idx \in 0 .. Len(c.items) - 1 :
        c.items[idx + 1].id = id /\ c.idInxMap[id] = idx
  <2>1. PICK k \in 1 .. Len(c.items) : c.items[k].id = id /\ c.idInxMap[id] = k - 1
    <3>1. PICK k \in 1 .. Len(c.items) : c.items[k].id = id
      BY <1>1, KnownIs
    <3>2. c.idInxMap[c.items[k].id] = k - 1
      BY <1>1, KnownIs
    <3>. QED
      BY <3>1, <3>2
  <2>2. k - 1 \in 0 .. Len(c.items) - 1 /\ (k - 1) + 1 = k
    BY <1>1
  <2>. QED
    BY <2>1, <2>2
<1> DEFINE n == Len(c.items)
           items == SubSeq(c.items, 1, idx) \o SubSeq(c.items, idx + 2, n)
<1>3. /\ items \in Items /\ Len(items) = n - 1 /\ DOMAIN items = 1 .. n - 1
      /\ \A k \in 1 .. n - 1 : items[k] = IF k <= idx THEN c.items[k] ELSE c.items[k + 1]
  BY <1>1, <1>2, WithoutIs
<1> DEFINE left == RemoveItem(c, idx)
           behind(x) == {i \in Indices(left) : i >= idx /\ ItemAt(left, i).id = x}
           D == DOMAIN c.idInxMap \ {id}
           ix == [x \in D |-> IF behind(x) = {} THEN c.idInxMap[x]
                              ELSE CHOOSE i \in behind(x) : TRUE]
           d == RemoveMessage(c, id)
           pastEnd == c.offsetIdx = idx /\ idx >= n - 1
           off == IF c.offsetIdx > idx THEN c.offsetIdx - 1
                  ELSE IF pastEnd THEN AtLeastZero((n - 1) - 1) ELSE c.offsetIdx
           sel == IF c.selectedIdx = idx THEN -1
                  ELSE IF c.selectedIdx > idx THEN c.selectedIdx - 1
                  ELSE c.selectedIdx
           line == IF pastEnd THEN 0 ELSE c.offsetLine
<1>4. /\ off \in Int /\ sel \in Int /\ line \in Nat /\ c.offsetIdx \in Int
      /\ c.selectedIdx \in Int
  BY <1>1, <1>2, ChatIs DEF AtLeastZero
<1>5. left = [c EXCEPT !.items = items, !.selectedIdx = sel, !.offsetIdx = off,
                       !.offsetLine = line]
  <2>1. (n - 1) + 1 = n
    BY <1>1
  <2>. QED
    BY <2>1 DEF RemoveItem
<1>6. d = [left EXCEPT !.idInxMap = [x \in DOMAIN @ \ {id} |->
                 IF behind(x) = {} THEN @[x] ELSE CHOOSE i \in behind(x) : TRUE],
                       !.paused = @ \ {id}]
  BY <1>2 DEF RemoveMessage
<1> HIDE DEF items, sel, off, line
<1>7. /\ left \in Chats /\ left.items = items /\ left.height = c.height
      /\ left.idInxMap = c.idInxMap /\ left.paused = c.paused /\ left.ticks = c.ticks
      /\ left.follow = c.follow /\ left.selectedIdx = sel /\ left.offsetIdx = off
  BY <1>1, <1>3, <1>4, <1>5 DEF Chats
<1>8. \A i : i \in Indices(left) <=> i \in 0 .. n - 2
  BY <1>1, <1>3, <1>7 DEF Indices, LastIdx
<1> HIDE DEF left
<1>9. D = Ids(c) \ {id}
  BY <1>1 DEF Indexed
<1>10. \A x \in D : ix[x] = IF behind(x) = {} THEN c.idInxMap[x]
                            ELSE CHOOSE i \in behind(x) : TRUE
  OBVIOUS
<1>11. ASSUME NEW k \in 1 .. n - 1
       PROVE  items[k].id \in D /\ ix[items[k].id] = k - 1
  <2> DEFINE x == items[k].id
  <2>1. x \in D
    <3>1. CASE k <= idx
      <4>1. k \in 1 .. n /\ idx + 1 \in 1 .. n /\ items[k] = c.items[k] /\ k # idx + 1
        BY <1>1, <1>2, <1>3, <3>1
      <4>2. x # id /\ x \in Ids(c)
        BY <1>1, <1>2, <4>1, KnownIs DEF Ids
      <4>. QED
        BY <1>9, <4>2
    <3>2. CASE ~(k <= idx)
      <4>1. k + 1 \in 1 .. n /\ idx + 1 \in 1 .. n /\ items[k] = c.items[k + 1]
            /\ k + 1 # idx + 1
        BY <1>1, <1>2, <1>3, <3>2
      <4>2. x # id /\ x \in Ids(c)
        BY <1>1, <1>2, <4>1, KnownIs DEF Ids
      <4>. QED
        BY <1>9, <4>2
    <3>. QED
      BY <3>1, <3>2
  <2>2. \A i \in behind(x) : /\ i + 1 \in 1 .. n - 1 /\ i >= idx /\ i \in Nat
                             /\ items[i + 1].id = x /\ items[i + 1] = c.items[i + 2]
                             /\ i + 2 \in 1 .. n
    <3> SUFFICES ASSUME NEW i \in behind(x)
                 PROVE  /\ i + 1 \in 1 .. n - 1 /\ i >= idx /\ i \in Nat
                        /\ items[i + 1].id = x /\ items[i + 1] = c.items[i + 2]
                        /\ i + 2 \in 1 .. n
      OBVIOUS
    <3>1. i \in 0 .. n - 2 /\ i >= idx /\ ItemAt(left, i).id = x
      BY <1>8
    <3>2. i + 1 \in 1 .. n - 1 /\ ~(i + 1 <= idx) /\ (i + 1) + 1 = i + 2
          /\ i + 2 \in 1 .. n /\ i \in Nat
      BY <1>1, <1>2, <3>1
    <3>3. items[i + 1] = c.items[i + 2]
      BY <1>3, <3>2
    <3>. QED
      BY <1>7, <3>1, <3>2, <3>3 DEF ItemAt
  <2>3. CASE k <= idx
    <3>1. k \in 1 .. n /\ items[k] = c.items[k]
      BY <1>1, <1>2, <1>3, <2>3
    <3>2. c.idInxMap[x] = k - 1
      BY <1>1, <3>1, KnownIs
    <3>3. behind(x) = {}
      <4> SUFFICES ASSUME NEW i \in behind(x) PROVE FALSE
        OBVIOUS
      <4>1. i + 2 \in 1 .. n /\ c.items[i + 2].id = c.items[k].id /\ i >= idx /\ i \in Nat
        BY <2>2, <3>1
      <4>2. i + 2 = k
        BY <1>1, <3>1, <4>1, KnownIs
      <4>. QED
        BY <1>2, <2>3, <4>1, <4>2
    <3> HIDE DEF behind, ix, D
    <3>. QED
      BY <1>10, <2>1, <3>2, <3>3
  <2>4. CASE ~(k <= idx)
    <3>1. k + 1 \in 1 .. n /\ items[k] = c.items[k + 1] /\ k - 1 \in 0 .. n - 2
          /\ k - 1 >= idx /\ (k - 1) + 1 = k
      BY <1>1, <1>2, <1>3, <2>4
    <3>2. k - 1 \in behind(x)
      BY <1>7, <1>8, <3>1 DEF ItemAt
    <3>3. ASSUME NEW i \in behind(x) PROVE i = k - 1
      <4>1. i + 2 \in 1 .. n /\ c.items[i + 2].id = c.items[k + 1].id /\ i \in Nat
        BY <2>2, <3>1
      <4>2. i + 2 = k + 1
        BY <1>1, <3>1, <4>1, KnownIs
      <4>. QED
        BY <4>1, <4>2
    <3> HIDE DEF behind, ix, D
    <3>4. (CHOOSE i \in behind(x) : TRUE) = k - 1
      BY <3>2, <3>3
    <3>. QED
      BY <1>10, <2>1, <3>2, <3>4
  <2>. QED
    BY <2>1, <2>3, <2>4
<1>12. IdsOf(items) = D
  <2>1. IdsOf(items) \subseteq D
    BY <1>3, <1>11 DEF IdsOf
  <2>2. ASSUME NEW k \in 1 .. n, c.items[k].id # id
        PROVE  \E j \in 1 .. n - 1 : items[j] = c.items[k]
    <3>1. k # idx + 1
      BY <1>2, <2>2
    <3>2. CASE k <= idx
      <4>1. k \in 1 .. n - 1 /\ items[k] = c.items[k]
        BY <1>1, <1>2, <1>3, <3>2
      <4>. QED
        BY <4>1
    <3>3. CASE ~(k <= idx)
      <4>1. k - 1 \in 1 .. n - 1 /\ ~(k - 1 <= idx) /\ (k - 1) + 1 = k
        BY <1>1, <1>2, <3>1, <3>3
      <4>2. items[k - 1] = c.items[k]
        BY <1>3, <4>1
      <4>. QED
        BY <4>1, <4>2
    <3>. QED
      BY <3>2, <3>3
  <2>3. D \subseteq IdsOf(items)
    <3>1. ASSUME NEW x \in D PROVE x \in IdsOf(items)
      <4>1. x \in Ids(c) /\ x # id
        BY <1>9
      <4>2. PICK k \in 1 .. n : c.items[k].id = x
        BY <1>1, <4>1 DEF Ids
      <4>3. PICK j \in 1 .. n - 1 : items[j] = c.items[k]
        BY <2>2, <4>1, <4>2
      <4>. QED
        BY <1>3, <4>2, <4>3 DEF IdsOf
    <3>. QED
      BY <3>1
  <2>. QED
    BY <2>1, <2>3
<1>13. ElemsOf(items) = {y \in ElemsOf(c.items) : y.id # id}
  <2>1. ASSUME NEW k \in 1 .. n - 1
        PROVE  items[k] \in ElemsOf(c.items) /\ items[k].id # id
    <3>1. items[k].id # id
      BY <1>11
    <3>2. \E j \in 1 .. n : items[k] = c.items[j]
      <4>1. k \in 1 .. n /\ k + 1 \in 1 .. n
        BY <1>1
      <4>. QED
        BY <1>3, <4>1
    <3>. QED
      BY <1>1, <3>1, <3>2 DEF ElemsOf
  <2>2. ASSUME NEW k \in 1 .. n, c.items[k].id # id
        PROVE  c.items[k] \in ElemsOf(items)
    <3>1. k # idx + 1
      BY <1>2, <2>2
    <3>2. CASE k <= idx
      <4>1. k \in 1 .. n - 1 /\ items[k] = c.items[k]
        BY <1>1, <1>2, <1>3, <3>2
      <4>. QED
        BY <1>3, <4>1 DEF ElemsOf
    <3>3. CASE ~(k <= idx)
      <4>1. k - 1 \in 1 .. n - 1 /\ ~(k - 1 <= idx) /\ (k - 1) + 1 = k
        BY <1>1, <1>2, <3>1, <3>3
      <4>2. items[k - 1] = c.items[k]
        BY <1>3, <4>1
      <4>. QED
        BY <1>3, <4>1, <4>2 DEF ElemsOf
    <3>. QED
      BY <3>2, <3>3
  <2>3. ElemsOf(items) \subseteq {y \in ElemsOf(c.items) : y.id # id}
    BY <1>3, <2>1 DEF ElemsOf
  <2>4. {y \in ElemsOf(c.items) : y.id # id} \subseteq ElemsOf(items)
    BY <1>1, <2>2 DEF ElemsOf
  <2>. QED
    BY <2>3, <2>4
<1>14. ix \in Index /\ DOMAIN ix = D
  <2>1. ASSUME NEW x \in D PROVE ix[x] \in Nat
    <3>1. \E k \in 1 .. n - 1 : items[k].id = x
      BY <1>3, <1>12 DEF IdsOf
    <3> HIDE DEF ix, D
    <3>. QED
      BY <1>1, <1>11, <3>1
  <2>2. D \in SUBSET ItemId
    BY <1>3, <1>12, ItemsAre DEF IdsOf
  <2>3. ix \in [D -> Nat]
    <3> HIDE DEF behind, D
    <3>1. ix = [x \in D |-> ix[x]]
      OBVIOUS
    <3> HIDE DEF ix
    <3>. QED
      BY <2>1, <3>1
  <2> HIDE DEF ix, D
  <2>. QED
    BY <2>2, <2>3 DEF Index
<1>15. d = [left EXCEPT !.idInxMap = ix, !.paused = c.paused \ {id}]
  <2> HIDE DEF behind
  <2>. QED
    BY <1>6, <1>7 DEF Chats
<1> HIDE DEF ix, d, behind
<1>16. /\ d \in Chats /\ d.items = items /\ d.height = c.height
       /\ d.selectedIdx = sel /\ d.idInxMap = ix /\ d.offsetIdx = off
       /\ d.paused = c.paused \ {id} /\ d.ticks = c.ticks /\ d.follow = c.follow
  BY <1>7, <1>14, <1>15 DEF Chats
<1>17. Ids(d) = D
  BY <1>3, <1>12, <1>16, TurningIs
<1> HIDE DEF D
<1>18. Indexed(d)
  BY <1>3, <1>11, <1>14, <1>16, <1>17 DEF Indexed
<1>19. Turning(d)
  BY <1>1, <1>3, <1>13, <1>16, TurningIs
<1>20. \A i : i \in Indices(d) <=> i \in 0 .. n - 2
  BY <1>1, <1>3, <1>16 DEF Indices, LastIdx
<1>21. Begins(d)
  <2>1. /\ c.offsetIdx \in 0 .. n - 1 /\ c.selectedIdx \in -1 .. n - 1 /\ idx \in 0 .. n - 1
        /\ n \in Nat
    <3>1. c.items # <<>>
      BY <1>1, <1>2
    <3>. QED
      BY <1>1, <1>2, <3>1, GoodIs DEF Begins
  <2>N. off = IF c.offsetIdx > idx THEN c.offsetIdx - 1
              ELSE IF c.offsetIdx = idx /\ idx >= n - 1
              THEN AtLeastZero((n - 1) - 1) ELSE c.offsetIdx
    BY DEF off
  <2>L. Len(items) = n - 1 /\ n - 1 \in Nat
    BY <1>3, <2>1
  <2>S. sel = IF c.selectedIdx = idx THEN -1
              ELSE IF c.selectedIdx > idx THEN c.selectedIdx - 1
              ELSE c.selectedIdx
    BY DEF sel
  <2> HIDE DEF n
  <2>2. n - 1 = 0 => off = 0
    BY <2>1, <2>N DEF AtLeastZero
  <2>3. n - 1 # 0 => off \in 0 .. n - 2
    BY <2>1, <2>N DEF AtLeastZero
  <2>4. sel \in -1 .. n - 2
    BY <2>1, <2>S
  <2>5. d.items = <<>> <=> n - 1 = 0
    <3>1. items \in Seq(OneItem) /\ d.items = items
      BY <1>3, <1>16 DEF Items
    <3>2. items = <<>> <=> Len(items) = 0
      BY <3>1
    <3>. QED
      BY <2>L, <3>1, <3>2
  <2>. QED
    BY <1>16, <1>20, <2>1, <2>2, <2>3, <2>4, <2>5 DEF Begins
<1>. QED
  BY <1>1, <1>9, <1>13, <1>16, <1>17, <1>18, <1>19, <1>21 DEF Good, d

-----------------------------------------------------------------------------
(* The stored messages, and the items that stand for them.                 *)

Message ==
    [role : {"user", "assistant"}, text : BOOLEAN, tool : {"none", "open", "done"},
     finish : {"no", "end", "canceled", "tool_use"}]

MsgsOK(ms) ==
    /\ ms \in Seq(Message)
    /\ ms # <<>> => ms[1].role = "user"
    /\ \A n \in 1 .. Len(ms) :
           ms[n].role = "user" => ms[n].tool = "none" /\ ms[n].finish = "no"

(* Loading the session builds this part of the message.                    *)
Has(m, part) ==
    \/ part = "text" /\ (m.role = "user" \/ ShouldRenderAssistantMessage(m))
    \/ part = "tool" /\ m.tool # "none"
    \/ part = "info" /\ m.finish = "end"

StoredOf(ms) == {id \in ItemId : id.msg \in 1 .. Len(ms) /\ Has(ms[id.msg], id.part)}

(* A text that nothing in the chat stands for.                             *)
Late(id, late) == id.part = "text" /\ id.msg \in late

(* The chat shows what is stored, and the tools that are open spin.        *)
Built(c, ms, late) ==
    /\ Ids(c) = {id \in StoredOf(ms) : ~Late(id, late)}
    /\ \A x \in ElemsOf(c.items) :
           x.id.part = "tool" => (x.spins <=> ms[x.id.msg].tool = "open")

LEMMA IdIs ==
  ASSUME NEW n \in Nat, NEW part \in Part
  PROVE  /\ Id(n, part) \in ItemId /\ Id(n, part).msg = n /\ Id(n, part).part = part
         /\ \A x \in ItemId : x.msg = n /\ x.part = part => x = Id(n, part)
         /\ \A k, p : Id(k, p) = Id(n, part) <=> k = n /\ p = part
<1>1. Id(n, part) \in ItemId /\ Id(n, part).msg = n /\ Id(n, part).part = part
  BY DEF Id, ItemId
<1>2. \A x \in ItemId : x.msg = n /\ x.part = part => x = Id(n, part)
  BY DEF Id, ItemId
<1>3. \A k, p : Id(k, p) = Id(n, part) <=> k = n /\ p = part
  BY DEF Id
<1>. QED
  BY <1>1, <1>2, <1>3

LEMMA PartsAre == "text" \in Part /\ "tool" \in Part /\ "info" \in Part
  BY DEF Part

LEMMA ItemIs ==
  ASSUME NEW n \in Nat, NEW m \in Message, NEW rows \in Nat \ {0}, NEW part \in Part
  PROVE  LET x == Item(n, m, part, rows)
         IN /\ x \in OneItem /\ x.id = Id(n, part) /\ x.spins = isSpinning(m, part)
            /\ x.id \in ItemId /\ x.id.msg = n /\ x.id.part = part
            /\ part = "tool" => (x.spins <=> m.tool = "open")
            /\ part # "text" => x = Item(n, m, part, 1)
<1>1. isSpinning(m, part) \in BOOLEAN
  <2>1. part = "text" \/ part = "tool" \/ part = "info"
    BY DEF Part
  <2>. QED
    BY <2>1 DEF isSpinning
<1>2. Id(n, part) \in ItemId /\ Id(n, part).msg = n /\ Id(n, part).part = part
  BY IdIs
<1>3. Item(n, m, part, rows) \in OneItem
  BY <1>1, <1>2 DEF Item, OneItem
<1>4. /\ Item(n, m, part, rows).id = Id(n, part)
      /\ Item(n, m, part, rows).spins = isSpinning(m, part)
  BY DEF Item
<1>5. part = "tool" => (isSpinning(m, part) <=> m.tool = "open")
  BY DEF isSpinning
<1>6. part # "text" => Item(n, m, part, rows) = Item(n, m, part, 1)
  BY DEF Item
<1>. QED
  BY <1>2, <1>3, <1>4, <1>5, <1>6

(* The items of parts that a message may have or not.                      *)
LEMMA OptionIs ==
  ASSUME NEW x \in OneItem, NEW b \in BOOLEAN
  PROVE  LET u == IF b THEN <<x>> ELSE <<>>
         IN /\ u \in Items /\ Distinct(u)
            /\ \A y : y \in ElemsOf(u) <=> b /\ y = x
            /\ \A id : id \in IdsOf(u) <=> b /\ id = x.id
<1>1. CASE b
  BY <1>1, OneIs
<1>2. CASE ~b
  BY <1>2, NoneIs
<1>. QED
  BY <1>1, <1>2

LEMMA HasText ==
  ASSUME NEW m
  PROVE  /\ Has(m, "text") <=> (m.role = "user" \/ ShouldRenderAssistantMessage(m))
         /\ Has(m, "tool") <=> m.tool # "none"
         /\ Has(m, "info") <=> m.finish = "end"
  BY DEF Has

LEMMA ExtractIs ==
  ASSUME NEW n \in Nat, NEW m \in Message, NEW rows \in Nat \ {0}
  PROVE  LET u == ExtractMessageItems(n, m, rows)
         IN /\ u \in Items /\ Distinct(u)
            /\ \A x : x \in ElemsOf(u) <=>
                   \/ Has(m, "text") /\ x = Item(n, m, "text", rows)
                   \/ Has(m, "tool") /\ x = Item(n, m, "tool", rows)
            /\ \A id : id \in IdsOf(u) <=>
                   \/ Has(m, "text") /\ id = Id(n, "text")
                   \/ Has(m, "tool") /\ id = Id(n, "tool")
<1> DEFINE x == Item(n, m, "text", rows)
           y == Item(n, m, "tool", rows)
           a == m.role = "user" \/ ShouldRenderAssistantMessage(m)
           b == m.tool # "none"
           u == IF a THEN <<x>> ELSE <<>>
           v == IF b THEN <<y>> ELSE <<>>
<1>1. /\ x \in OneItem /\ y \in OneItem /\ x.id = Id(n, "text") /\ y.id = Id(n, "tool")
      /\ Id(n, "text") # Id(n, "tool")
  <2>1. Id(n, "text") # Id(n, "tool")
    BY IdIs, PartsAre
  <2>2. x \in OneItem /\ x.id = Id(n, "text")
    BY ItemIs, PartsAre
  <2>3. y \in OneItem /\ y.id = Id(n, "tool")
    BY ItemIs, PartsAre
  <2>. QED
    BY <2>1, <2>2, <2>3
<1>2. ExtractMessageItems(n, m, rows) = u \o v
  BY DEF ExtractMessageItems
<1>3. a \in BOOLEAN /\ b \in BOOLEAN /\ (a <=> Has(m, "text")) /\ (b <=> Has(m, "tool"))
  BY HasText
<1> HIDE DEF x, y, a, b
<1>4. /\ u \in Items /\ Distinct(u)
      /\ \A z : z \in ElemsOf(u) <=> a /\ z = x
      /\ \A id : id \in IdsOf(u) <=> a /\ id = x.id
  BY <1>1, <1>3, OptionIs
<1>5. /\ v \in Items /\ Distinct(v)
      /\ \A z : z \in ElemsOf(v) <=> b /\ z = y
      /\ \A id : id \in IdsOf(v) <=> b /\ id = y.id
  BY <1>1, <1>3, OptionIs
<1> HIDE DEF u, v
<1>6. IdsOf(u) \intersect IdsOf(v) = {}
  BY <1>1, <1>4, <1>5
<1>7. /\ u \o v \in Items /\ Distinct(u \o v)
      /\ ElemsOf(u \o v) = ElemsOf(u) \union ElemsOf(v)
      /\ IdsOf(u \o v) = IdsOf(u) \union IdsOf(v)
  BY <1>4, <1>5, <1>6, JoinIs
<1>8. /\ \A z : z \in ElemsOf(u \o v) <=> ((Has(m, "text") /\ z = x) \/ (Has(m, "tool") /\ z = y))
      /\ \A id : id \in IdsOf(u \o v) <=>
           ((Has(m, "text") /\ id = Id(n, "text")) \/ (Has(m, "tool") /\ id = Id(n, "tool")))
  BY <1>1, <1>3, <1>4, <1>5, <1>7
<1>. QED
  BY <1>2, <1>7, <1>8 DEF x, y

LEMMA FooterIs ==
  ASSUME NEW n \in Nat, NEW m \in Message
  PROVE  LET u == Footer(n, m)
         IN /\ u \in Items /\ Distinct(u)
            /\ \A x : x \in ElemsOf(u) <=> Has(m, "info") /\ x = Item(n, m, "info", 1)
            /\ \A id : id \in IdsOf(u) <=> Has(m, "info") /\ id = Id(n, "info")
<1> DEFINE x == Item(n, m, "info", 1)
           b == m.finish = "end"
           u == IF b THEN <<x>> ELSE <<>>
<1>1. x \in OneItem /\ x.id = Id(n, "info")
  BY ItemIs, PartsAre
<1>2. Footer(n, m) = u
  BY DEF Footer
<1>3. b \in BOOLEAN /\ (b <=> Has(m, "info"))
  BY HasText
<1> HIDE DEF x, b
<1>4. /\ u \in Items /\ Distinct(u)
      /\ \A z : z \in ElemsOf(u) <=> b /\ z = x
      /\ \A id : id \in IdsOf(u) <=> b /\ id = x.id
  BY <1>1, <1>3, OptionIs
<1>. QED
  BY <1>1, <1>2, <1>3, <1>4 DEF x

LEMMA BlockItems ==
  ASSUME NEW n \in Nat, NEW m \in Message, NEW rows \in Nat \ {0}
  PROVE  LET u == ExtractMessageItems(n, m, rows) \o Footer(n, m)
         IN /\ u \in Items /\ Distinct(u)
            /\ \A x : x \in ElemsOf(u) <=>
                   \E p \in Part : Has(m, p) /\ x = Item(n, m, p, rows)
            /\ \A id : id \in IdsOf(u) => id \in ItemId /\ id.msg = n
<1> DEFINE e == ExtractMessageItems(n, m, rows)
           f == Footer(n, m)
<1>1. /\ e \in Items /\ Distinct(e)
      /\ \A x : x \in ElemsOf(e) <=>
             \/ Has(m, "text") /\ x = Item(n, m, "text", rows)
             \/ Has(m, "tool") /\ x = Item(n, m, "tool", rows)
      /\ \A id : id \in IdsOf(e) <=>
             \/ Has(m, "text") /\ id = Id(n, "text")
             \/ Has(m, "tool") /\ id = Id(n, "tool")
  BY ExtractIs
<1>2. /\ f \in Items /\ Distinct(f)
      /\ \A x : x \in ElemsOf(f) <=> Has(m, "info") /\ x = Item(n, m, "info", 1)
      /\ \A id : id \in IdsOf(f) <=> Has(m, "info") /\ id = Id(n, "info")
  BY FooterIs
<1>3. Item(n, m, "info", rows) = Item(n, m, "info", 1)
  BY ItemIs, PartsAre
<1> HIDE DEF e, f
<1>4. \A p \in Part : Id(n, p) \in ItemId /\ Id(n, p).msg = n
  BY IdIs
<1>5. Id(n, "text") # Id(n, "info") /\ Id(n, "tool") # Id(n, "info")
  BY IdIs, PartsAre
<1>6. /\ e \o f \in Items /\ Distinct(e \o f)
      /\ ElemsOf(e \o f) = ElemsOf(e) \union ElemsOf(f)
      /\ IdsOf(e \o f) = IdsOf(e) \union IdsOf(f)
  <2>1. IdsOf(e) \intersect IdsOf(f) = {}
    BY <1>1, <1>2, <1>5
  <2>. QED
    BY <1>1, <1>2, <2>1, JoinIs
<1>7. \A x : x \in ElemsOf(e \o f) <=> \E p \in Part : Has(m, p) /\ x = Item(n, m, p, rows)
  <2>1. \A x : (\E p \in Part : Has(m, p) /\ x = Item(n, m, p, rows)) <=>
               \/ Has(m, "text") /\ x = Item(n, m, "text", rows)
               \/ Has(m, "tool") /\ x = Item(n, m, "tool", rows)
               \/ Has(m, "info") /\ x = Item(n, m, "info", rows)
    BY Zenon DEF Part
  <2>2. \A x : x \in ElemsOf(e \o f) <=> (x \in ElemsOf(e) \/ x \in ElemsOf(f))
    BY <1>6
  <2>. QED
    BY <1>1, <1>2, <1>3, <2>1, <2>2
<1>8. \A id : id \in IdsOf(e \o f) => id \in ItemId /\ id.msg = n
  BY <1>1, <1>2, <1>4, <1>6, PartsAre
<1>. QED
  BY <1>6, <1>7, <1>8 DEF e, f

(* Loading the session builds what is stored, item by item.                *)
LEMMA AllIs ==
  ASSUME MsgsOK(msgs), NEW rows \in TextHeight
  PROVE  LET all == AllItems(rows)
         IN /\ all \in Items /\ Distinct(all)
            /\ \A x : x \in ElemsOf(all) <=>
                   \E n \in 1 .. Len(msgs) : \E p \in Part :
                       Has(msgs[n], p) /\ x = Item(n, msgs[n], p, rows)
<1> DEFINE N == Len(msgs)
           block(n) == ExtractMessageItems(n, msgs[n], rows) \o Footer(n, msgs[n])
           m == [n \in DOMAIN msgs |-> block(n)]
           Of(n, x) == \E p \in Part : Has(msgs[n], p) /\ x = Item(n, msgs[n], p, rows)
           Is(u, k) == /\ u \in Items /\ Distinct(u)
                       /\ \A x : x \in ElemsOf(u) <=> \E n \in 1 .. k : Of(n, x)
                       /\ \A id : id \in IdsOf(u) => id \in ItemId /\ id.msg \in 1 .. k
<1>1. /\ N \in Nat /\ DOMAIN msgs = 1 .. N
      /\ \A n \in 1 .. N : n \in Nat /\ msgs[n] \in Message
      /\ rows \in Nat \ {0}
  BY HeightsPositive DEF MsgsOK
<1>2. AllItems(rows) = FlattenSeq(m)
  BY DEF AllItems
<1>3. ASSUME NEW n \in 1 .. N
      PROVE  /\ block(n) \in Items /\ Distinct(block(n))
             /\ \A x : x \in ElemsOf(block(n)) <=> Of(n, x)
             /\ \A id : id \in IdsOf(block(n)) => id \in ItemId /\ id.msg = n
  BY <1>1, BlockItems
<1>4. CASE N = 0
  <2>1. m = <<>> /\ Len(m) = 0
    BY <1>1, <1>4
  <2>2. FlattenSeq(m) = m
    BY <2>1, Zenon DEF FlattenSeq
  <2>3. \A x : ~ \E n \in 1 .. N : \E p \in Part :
            Has(msgs[n], p) /\ x = Item(n, msgs[n], p, rows)
    BY <1>4
  <2>. QED
    BY <1>2, <2>1, <2>2, <2>3, NoneIs
<1>5. CASE N # 0
  <2>1. Len(m) = N /\ \A n \in 1 .. N : m[n] = block(n)
    BY <1>1
  <2> HIDE DEF m
  <2>2. PICK f : /\ f[1] = m[1]
                 /\ \A i \in 1 .. N - 1 : f[i + 1] = f[i] \o m[i + 1]
                 /\ FlattenSeq(m) = f[N]
    <3>1. Len(m) \in Nat \ {0}
      BY <1>1, <1>5, <2>1
    <3>. QED
      BY <2>1, <3>1, FlattenIs
  <2>3. Is(f[1], 1)
    <3>1. 1 \in 1 .. N
      BY <1>1, <1>5
    <3>2. f[1] = block(1)
      BY <2>1, <2>2, <3>1
    <3>3. \A x : Of(1, x) <=> \E n \in 1 .. 1 : Of(n, x)
      <4> HIDE DEF Of
      <4>1. \A n : n \in 1 .. 1 <=> n = 1
        OBVIOUS
      <4>. QED
        BY <4>1, Zenon
    <3>4. 1 \in 1 .. 1
      OBVIOUS
    <3> HIDE DEF block, Of
    <3>. QED
      BY <1>3, <3>1, <3>2, <3>3, <3>4
  <2>4. ASSUME NEW k \in 1 .. N - 1, Is(f[k], k) PROVE Is(f[k + 1], k + 1)
    <3> DEFINE u == f[k]
               v == block(k + 1)
    <3>1. k + 1 \in 1 .. N /\ f[k + 1] = u \o v /\ k \in Nat
      <4>1. k + 1 \in 1 .. N /\ k \in Nat
        BY <1>1
      <4>2. m[k + 1] = v
        BY <2>1, <4>1, Zenon
      <4>. QED
        BY <2>2, <4>1, <4>2, Zenon
    <3>2. /\ v \in Items /\ Distinct(v)
          /\ \A x : x \in ElemsOf(v) <=> Of(k + 1, x)
          /\ \A id : id \in IdsOf(v) => id \in ItemId /\ id.msg = k + 1
      BY <1>3, <3>1
    <3>3. /\ u \in Items /\ Distinct(u)
          /\ \A x : x \in ElemsOf(u) <=> \E n \in 1 .. k : Of(n, x)
          /\ \A id : id \in IdsOf(u) => id \in ItemId /\ id.msg \in 1 .. k
      BY <2>4
    <3> HIDE DEF u, v, Of
    <3>4. IdsOf(u) \intersect IdsOf(v) = {}
      <4> SUFFICES ASSUME NEW id \in IdsOf(u), id \in IdsOf(v) PROVE FALSE
        OBVIOUS
      <4>1. id.msg = k + 1 /\ id.msg \in 1 .. k
        BY <3>2, <3>3
      <4>. QED
        BY <3>1, <4>1
    <3>5. /\ u \o v \in Items /\ Distinct(u \o v)
          /\ ElemsOf(u \o v) = ElemsOf(u) \union ElemsOf(v)
          /\ IdsOf(u \o v) = IdsOf(u) \union IdsOf(v)
      BY <3>2, <3>3, <3>4, JoinIs
    <3>6. \A n : n \in 1 .. k + 1 <=> (n \in 1 .. k \/ n = k + 1)
      BY <3>1
    <3>7. \A x : x \in ElemsOf(u \o v) <=> \E n \in 1 .. k + 1 : Of(n, x)
      <4>1. \A x : (\E n \in 1 .. k + 1 : Of(n, x)) <=>
                       ((\E n \in 1 .. k : Of(n, x)) \/ Of(k + 1, x))
        BY <3>6, Zenon
      <4>2. \A x : x \in ElemsOf(u \o v) <=> (x \in ElemsOf(u) \/ x \in ElemsOf(v))
        BY <3>5
      <4>. QED
        BY <3>2, <3>3, <4>1, <4>2, Zenon
    <3>8. \A id : id \in IdsOf(u \o v) => id \in ItemId /\ id.msg \in 1 .. k + 1
      BY <3>2, <3>3, <3>5, <3>6
    <3>9. Is(u \o v, k + 1)
      BY <3>5, <3>7, <3>8
    <3> HIDE DEF Is
    <3>. QED
      BY <3>1, <3>9
  <2> HIDE DEF Is
  <2> DEFINE T == {k \in Nat : k + 1 \in 1 .. N => Is(f[k + 1], k + 1)}
  <2>5. 0 \in T
    <3>1. 0 + 1 = 1
      OBVIOUS
    <3>. QED
      BY <2>3, <3>1
  <2>6. ASSUME NEW k \in Nat, k \in T PROVE k + 1 \in T
    <3> SUFFICES ASSUME (k + 1) + 1 \in 1 .. N PROVE Is(f[(k + 1) + 1], (k + 1) + 1)
      BY <1>1
    <3>1. k + 1 \in 1 .. N - 1 /\ k + 1 \in 1 .. N
      BY <1>1
    <3>. QED
      BY <2>4, <2>6, <3>1
  <2> HIDE DEF T
  <2>7. \A k \in Nat : k \in T
    BY <2>5, <2>6, Induction
  <2>8. Is(f[N], N)
    <3>1. N - 1 \in T /\ (N - 1) + 1 = N /\ N \in 1 .. N
      BY <1>1, <1>5, <2>7
    <3> HIDE DEF N
    <3>. QED
      BY <3>1 DEF T
  <2>. QED
    BY <1>2, <2>2, <2>8 DEF Is, Of
<1>. QED
  BY <1>4, <1>5

(* What the items that are built for the stored messages show.             *)
LEMMA BuiltIs ==
  ASSUME NEW ms, MsgsOK(ms), NEW c, c.items \in Items, NEW rows \in TextHeight,
         \A x : x \in ElemsOf(c.items) <=>
             \E n \in 1 .. Len(ms) : \E p \in Part :
                 Has(ms[n], p) /\ x = Item(n, ms[n], p, rows)
  PROVE  Built(c, ms, {})
<1>1. /\ \A n \in 1 .. Len(ms) : n \in Nat /\ ms[n] \in Message
      /\ rows \in Nat \ {0}
  BY HeightsPositive DEF MsgsOK
<1>2. Ids(c) = {x.id : x \in ElemsOf(c.items)}
  BY TurningIs
<1>3. \A id : id \in Ids(c) <=>
          \E n \in 1 .. Len(ms) : \E p \in Part : Has(ms[n], p) /\ id = Id(n, p)
  <2>1. \A n \in 1 .. Len(ms), p \in Part : Item(n, ms[n], p, rows).id = Id(n, p)
    BY <1>1, ItemIs
  <2>. QED
    BY <1>2, <2>1
<1>4. \A id : id \in StoredOf(ms) <=>
          \E n \in 1 .. Len(ms) : \E p \in Part : Has(ms[n], p) /\ id = Id(n, p)
  <2>1. ASSUME NEW id \in StoredOf(ms)
        PROVE  \E n \in 1 .. Len(ms) : \E p \in Part : Has(ms[n], p) /\ id = Id(n, p)
    <3>1. /\ id \in ItemId /\ id.msg \in 1 .. Len(ms) /\ Has(ms[id.msg], id.part)
          /\ id.part \in Part
      BY DEF StoredOf, ItemId
    <3>2. id = Id(id.msg, id.part)
      BY <1>1, <3>1, IdIs
    <3>. QED
      BY <3>1, <3>2
  <2>2. ASSUME NEW n \in 1 .. Len(ms), NEW p \in Part, Has(ms[n], p)
        PROVE  Id(n, p) \in StoredOf(ms)
    BY <1>1, <2>2, IdIs DEF StoredOf
  <2>. QED
    BY <2>1, <2>2
<1>5. \A id : ~Late(id, {})
  BY DEF Late
<1>6. ASSUME NEW x \in ElemsOf(c.items), x.id.part = "tool"
      PROVE  x.spins <=> ms[x.id.msg].tool = "open"
  <2>1. PICK n \in 1 .. Len(ms), p \in Part : x = Item(n, ms[n], p, rows)
    OBVIOUS
  <2>2. x.id.msg = n /\ x.id.part = p /\ (p = "tool" => (x.spins <=> ms[n].tool = "open"))
    BY <1>1, <2>1, ItemIs
  <2>. QED
    BY <1>6, <2>2
<1>. QED
  BY <1>3, <1>4, <1>5, <1>6 DEF Built

LEMMA BuiltNone ==
  ASSUME NEW c, c.items = <<>>
  PROVE  Good(c) => ElemsOf(c.items) = {} /\ Ids(c) = {}
  BY NoneIs, TurningIs DEF Ids, IdsOf

LEMMA SpinningIs ==
  ASSUME NEW items \in Items
  PROVE  /\ Spinning(items) \in SUBSET ItemId
         /\ \A x \in ElemsOf(items) : x.spins => x.id \in Spinning(items)
<1>1. DOMAIN items = 1 .. Len(items)
  BY DEF Items
<1>. QED
  BY <1>1, ItemsAre DEF Spinning, ElemsOf

LEMMA TicksGood ==
  ASSUME NEW c, Good(c), NEW new \in SUBSET ItemId
  PROVE  LET d == [c EXCEPT !.ticks = c.ticks \union new]
         IN /\ Keeps(c, d) /\ Looks(c, d) /\ d.follow = c.follow
            /\ d.ticks = c.ticks \union new /\ d.paused = c.paused
<1> DEFINE t == c.ticks \union new
           d == [c EXCEPT !.ticks = t]
<1>1. c \in Chats /\ Begins(c) /\ c.height \in ViewHeight
  BY DEF Good
<1>2. t \in SUBSET ItemId
  BY <1>1, ChatIs
<1>3. c.ticks \union c.paused \subseteq t \union c.paused
  OBVIOUS
<1> HIDE DEF t
<1>4. /\ d \in Chats /\ d.items = c.items /\ d.height = c.height
      /\ d.selectedIdx = c.selectedIdx /\ d.idInxMap = c.idInxMap
      /\ d.offsetIdx = c.offsetIdx /\ d.offsetLine = c.offsetLine
      /\ d.paused = c.paused /\ d.ticks = t /\ d.follow = c.follow
  BY <1>1, <1>2 DEF Chats
<1> HIDE DEF d
<1>5. Same(c, d) /\ Looks(c, d)
  BY <1>4 DEF Same, Looks
<1>6. Begins(d)
  BY <1>1, <1>4, SameRows DEF Begins
<1>7. Keeps(c, d)
  BY <1>1, <1>3, <1>4, <1>5, <1>6, GoodAgain, GoodLoose DEF Keeps
<1>. QED
  BY <1>4, <1>5, <1>7 DEF d, t

LEMMA StartsGood ==
  ASSUME NEW c, Good(c), NEW items \in Items
  PROVE  LET s == StartAnimations(c, items)
         IN /\ Keeps(c, s) /\ Looks(c, s) /\ s.follow = c.follow
            /\ s.ticks = c.ticks \union Spinning(items) /\ s.paused = c.paused
  BY SpinningIs, TicksGood DEF StartAnimations

(* A list that gets new items.                                             *)
LEMMA ItemsGood ==
  ASSUME NEW c, Good(c), NEW items \in Items, Distinct(items),
         \A x \in ElemsOf(items) : x.spins => x.id \in c.ticks
  PROVE  LET d == SetMessages(c, items)
         IN Good(d) /\ Ends(d) /\ d.items = items
<1> DEFINE last == Len(items) - 1
           sel == Min({c.selectedIdx, last})
           off == Min({c.offsetIdx, last})
           ix == IndexOf(items)
           k == [c EXCEPT !.items = items, !.selectedIdx = sel, !.offsetIdx = off,
                          !.offsetLine = 0]
           l == [k EXCEPT !.idInxMap = ix, !.paused = {}]
<1>1. /\ c \in Chats /\ c.selectedIdx \in Int /\ c.offsetIdx \in Int /\ last \in Int
      /\ Len(items) \in Nat /\ DOMAIN items = 1 .. Len(items)
      /\ c.selectedIdx >= -1 /\ c.offsetIdx >= -1 /\ c.height \in ViewHeight
      /\ (items = <<>> <=> Len(items) = 0)
  <2>1. c \in Chats /\ Begins(c) /\ c.height \in ViewHeight
    BY DEF Good
  <2>2. c.selectedIdx \in Int /\ c.offsetIdx \in Int
    BY <2>1, ChatIs
  <2>3. \A i : i \in Indices(c) <=> i \in 0 .. Len(c.items) - 1
    BY GoodIs
  <2>4. c.selectedIdx >= -1 /\ c.offsetIdx >= -1
    BY <2>1, <2>3 DEF Begins
  <2>5. Len(items) \in Nat /\ DOMAIN items = 1 .. Len(items) /\ (items = <<>> <=> Len(items) = 0)
    BY DEF Items
  <2>. QED
    BY <2>1, <2>2, <2>4, <2>5
<1>2. sel \in -1 .. last /\ off \in -1 .. last
  <2> HIDE DEF last
  <2>1. sel = (IF c.selectedIdx <= last THEN c.selectedIdx ELSE last)
    BY <1>1, MinPair
  <2>2. off = (IF c.offsetIdx <= last THEN c.offsetIdx ELSE last)
    BY <1>1, MinPair
  <2>3. last >= -1
    BY <1>1 DEF last
  <2> HIDE DEF sel, off
  <2>. QED
    BY <1>1, <2>1, <2>2, <2>3
<1>3. ix \in Index /\ DOMAIN ix = IdsOf(items)
      /\ \A j \in 1 .. Len(items) : ix[items[j].id] = j - 1
  BY IndexOfIs
<1>4. SetMessages(c, items) = ScrollToBottom(l)
  BY <1>1 DEF SetMessages, setItems, Chats
<1> HIDE DEF sel, off, last, ix
<1>5. /\ l \in Chats /\ l.items = items /\ l.height = c.height /\ l.selectedIdx = sel
      /\ l.offsetIdx = off /\ l.idInxMap = ix /\ l.ticks = c.ticks
  <2>1. sel \in Int /\ off \in Int
    BY <1>1, <1>2
  <2>2. /\ k \in Chats /\ k.items = items /\ k.height = c.height /\ k.selectedIdx = sel
        /\ k.offsetIdx = off /\ k.ticks = c.ticks
    BY <1>1, <2>1 DEF Chats
  <2> HIDE DEF k
  <2>. QED
    BY <1>3, <2>2 DEF Chats
<1> HIDE DEF k, l
<1>6. \A i : i \in Indices(l) <=> i \in 0 .. last
  BY <1>5 DEF Indices, LastIdx, last
<1>7. Indexed(l)
  BY <1>3, <1>5, TurningIs DEF Indexed
<1>8. Turning(l)
  BY <1>5, TurningIs
<1>9. Loose(l)
  <2>1. sel \in {-1} \union Indices(l)
    BY <1>2, <1>6 DEF last
  <2>2. items = <<>> => off \in {-1, 0}
    BY <1>1, <1>2 DEF last
  <2>. QED
    BY <1>1, <1>5, <1>7, <1>8, <2>1, <2>2 DEF Loose
<1>. QED
  BY <1>4, <1>5, <1>9, BottomGood DEF Keeps

LEMMA LoadGood ==
  ASSUME NEW c, Good(c), NEW items \in Items, Distinct(items)
  PROVE  LET d == setSessionMessages(c, items)
         IN /\ Good(d) /\ d.items = items
<1> DEFINE s == StartAnimations(c, items)
           e == SetMessages(s, items)
           f == ScrollToBottom(e)
           g == Animated(f)
<1>1. Good(s) /\ s.ticks = c.ticks \union Spinning(items)
  BY StartsGood DEF Keeps
<1> HIDE DEF s
<1>2. Good(e) /\ e.items = items
  BY <1>1, SpinningIs, ItemsGood
<1> HIDE DEF e
<1>3. Good(f) /\ f.items = items
  BY <1>2, BottomGood, GoodLoose DEF Keeps
<1> HIDE DEF f
<1>4. Good(g) /\ g.items = items
  BY <1>3, AnimatedGood DEF Keeps, Looks
<1> HIDE DEF g
<1>5. Good(SelectLast(g)) /\ SelectLast(g).items = items
  BY <1>4, SelectionsAre, SelectionGood DEF Keeps, Looks
<1>6. setSessionMessages(c, items) = SelectLast(g)
  BY DEF setSessionMessages, ScrollToBottomAndAnimate, s, e, f, g
<1>. QED
  BY <1>5, <1>6

LEMMA ClearGood ==
  ASSUME NEW c, Good(c)
  PROVE  Good(ClearMessages(c)) /\ ClearMessages(c).items = <<>>
<1> DEFINE items == <<>>
           last == Len(items) - 1
           sel == Min({c.selectedIdx, last})
           off == Min({c.offsetIdx, last})
           none == <<>>
           k == [c EXCEPT !.items = items, !.selectedIdx = sel, !.offsetIdx = off,
                          !.offsetLine = 0]
           d == [k EXCEPT !.idInxMap = none, !.paused = {}, !.click = FALSE]
<1>1. /\ c \in Chats /\ c.selectedIdx \in Int /\ c.offsetIdx \in Int /\ last = -1
      /\ c.selectedIdx >= -1 /\ c.offsetIdx >= -1 /\ c.height \in ViewHeight
  <2>1. c \in Chats /\ Begins(c) /\ c.height \in ViewHeight
    BY DEF Good
  <2>2. c.selectedIdx \in Int /\ c.offsetIdx \in Int
    BY <2>1, ChatIs
  <2>3. \A i : i \in Indices(c) <=> i \in 0 .. Len(c.items) - 1
    BY GoodIs
  <2>4. c.selectedIdx >= -1 /\ c.offsetIdx >= -1
    BY <2>1, <2>3 DEF Begins
  <2>. QED
    BY <2>1, <2>2, <2>4
<1>2. sel = -1 /\ off = -1
  <2> HIDE DEF last
  <2>1. sel = (IF c.selectedIdx <= last THEN c.selectedIdx ELSE last)
    BY <1>1, MinPair
  <2>2. off = (IF c.offsetIdx <= last THEN c.offsetIdx ELSE last)
    BY <1>1, MinPair
  <2> HIDE DEF sel, off
  <2>. QED
    BY <1>1, <2>1, <2>2
<1>3. ClearMessages(c) = d
  BY <1>1 DEF ClearMessages, ClearMouse, setItems, Chats
<1> HIDE DEF sel, off, last
<1>4. none \in Index /\ DOMAIN none = {}
  <2>1. none \in [{} -> Nat] /\ {} \in SUBSET ItemId
    OBVIOUS
  <2>. QED
    BY <2>1 DEF Index
<1>5. items \in Items /\ items = <<>> /\ Len(items) = 0 /\ DOMAIN items = {}
  BY NoneIs
<1> HIDE DEF items, none
<1>6. /\ d \in Chats /\ d.items = items /\ d.height = c.height /\ d.selectedIdx = -1
      /\ d.offsetIdx = -1 /\ d.idInxMap = none
  <2>1. sel \in Int /\ off \in Int
    BY <1>2
  <2>2. /\ k \in Chats /\ k.items = items /\ k.height = c.height /\ k.selectedIdx = sel
        /\ k.offsetIdx = off
    BY <1>1, <1>5, <2>1 DEF Chats
  <2> HIDE DEF k
  <2>. QED
    BY <1>2, <1>4, <2>2 DEF Chats
<1> HIDE DEF k, d
<1>7. Ids(d) = {}
  BY <1>6, <1>5, TurningIs, NoneIs
<1>8. Indexed(d) /\ Turning(d) /\ Begins(d)
  BY <1>4, <1>5, <1>6, <1>7 DEF Indexed, Turning, Begins
<1>. QED
  BY <1>1, <1>3, <1>5, <1>6, <1>8 DEF Good

(* What the view does leaves what is shown as it is.                       *)
LEMMA BuiltSame ==
  ASSUME NEW c, NEW d, c.items \in Items, d.items \in Items, Same(c, d)
  PROVE  /\ \A ms, late : Built(c, ms, late) <=> Built(d, ms, late)
         /\ c.items = <<>> <=> d.items = <<>>
         /\ Ids(d) = Ids(c)
<1>1. /\ Len(d.items) = Len(c.items)
      /\ \A k \in 1 .. Len(c.items) :
             d.items[k].id = c.items[k].id /\ d.items[k].spins = c.items[k].spins
  BY DEF Same
<1>2. DOMAIN c.items = 1 .. Len(c.items) /\ DOMAIN d.items = 1 .. Len(c.items)
      /\ (c.items = <<>> <=> Len(c.items) = 0) /\ (d.items = <<>> <=> Len(d.items) = 0)
  BY <1>1 DEF Items
<1>3. Ids(d) = Ids(c)
  BY <1>1, <1>2 DEF Ids
<1>4. ASSUME NEW ms
      PROVE  (\A x \in ElemsOf(c.items) :
                  x.id.part = "tool" => (x.spins <=> ms[x.id.msg].tool = "open"))
          <=> (\A x \in ElemsOf(d.items) :
                  x.id.part = "tool" => (x.spins <=> ms[x.id.msg].tool = "open"))
  <2> DEFINE ok(id, spins) == id.part = "tool" => (spins <=> ms[id.msg].tool = "open")
  <2>1. (\A x \in ElemsOf(c.items) : ok(x.id, x.spins))
            <=> \A k \in 1 .. Len(c.items) : ok(c.items[k].id, c.items[k].spins)
    <3> HIDE DEF ok
    <3>. QED
      BY <1>2, Zenon DEF ElemsOf
  <2>2. (\A x \in ElemsOf(d.items) : ok(x.id, x.spins))
            <=> \A k \in 1 .. Len(c.items) : ok(d.items[k].id, d.items[k].spins)
    <3> HIDE DEF ok
    <3>. QED
      BY <1>2, Zenon DEF ElemsOf
  <2>3. (\A k \in 1 .. Len(c.items) : ok(c.items[k].id, c.items[k].spins))
            <=> \A k \in 1 .. Len(c.items) : ok(d.items[k].id, d.items[k].spins)
    <3> HIDE DEF ok
    <3>. QED
      BY <1>1, Zenon
  <2>. QED
    BY <2>1, <2>2, <2>3
<1>. QED
  BY <1>1, <1>2, <1>3, <1>4 DEF Built

-----------------------------------------------------------------------------
(* What becomes of the messages.                                           *)

LEMMA MessagesAre ==
  ASSUME NEW ms, MsgsOK(ms)
  PROVE  /\ ms \in Seq(Message) /\ Len(ms) \in Nat /\ DOMAIN ms = 1 .. Len(ms)
         /\ (ms = <<>> <=> Len(ms) = 0)
         /\ \A n \in 1 .. Len(ms) : n \in Nat /\ ms[n] \in Message
         /\ \A n \in 1 .. Len(ms) :
                ms[n].role = "user" => ms[n].tool = "none" /\ ms[n].finish = "no"
  BY DEF MsgsOK

LEMMA CreatedMessages ==
  ASSUME NEW ms, MsgsOK(ms), NEW role \in {"user", "assistant"},
         role = "assistant" => Len(ms) > 0
  PROVE  LET m == NewMessage(role)
             new == Append(ms, m)
         IN /\ m \in Message /\ m.role = role /\ m.tool = "none" /\ m.finish = "no"
            /\ MsgsOK(new) /\ Len(new) = Len(ms) + 1 /\ new[Len(ms) + 1] = m
            /\ \A k \in 1 .. Len(ms) : new[k] = ms[k]
<1> DEFINE m == NewMessage(role)
           new == Append(ms, m)
<1>1. m \in Message /\ m.role = role /\ m.tool = "none" /\ m.finish = "no"
  BY DEF NewMessage, Message
<1>2. ms \in Seq(Message) /\ Len(ms) \in Nat /\ (ms = <<>> <=> Len(ms) = 0)
      /\ (ms # <<>> => ms[1].role = "user")
      /\ \A n \in 1 .. Len(ms) :
             ms[n].role = "user" => ms[n].tool = "none" /\ ms[n].finish = "no"
  BY MessagesAre DEF MsgsOK
<1> HIDE DEF m
<1>3. /\ new \in Seq(Message) /\ Len(new) = Len(ms) + 1 /\ new[Len(ms) + 1] = m
      /\ \A k \in 1 .. Len(ms) : new[k] = ms[k]
  BY <1>1, <1>2
<1> HIDE DEF new
<1>4. new[1].role = "user"
  <2>1. CASE Len(ms) = 0
    <3>1. new[1] = m /\ role = "user"
      BY <1>3, <2>1
    <3>. QED
      BY <1>1, <3>1
  <2>2. CASE Len(ms) # 0
    <3>1. 1 \in 1 .. Len(ms)
      BY <1>2, <2>2
    <3>. QED
      BY <1>2, <1>3, <2>2, <3>1
  <2>. QED
    BY <2>1, <2>2
<1>5. ASSUME NEW n \in 1 .. Len(new), new[n].role = "user"
      PROVE  new[n].tool = "none" /\ new[n].finish = "no"
  <2>1. n \in 1 .. Len(ms) \/ n = Len(ms) + 1
    BY <1>2, <1>3
  <2>. QED
    BY <1>1, <1>2, <1>3, <1>5, <2>1
<1>6. MsgsOK(new)
  BY <1>3, <1>4, <1>5 DEF MsgsOK
<1>. QED
  BY <1>1, <1>3, <1>6 DEF m, new

(* How an answer goes on: its text never spins any more.                   *)
LEMMA ProgressIs ==
  ASSUME NEW a \in Message, a.role = "assistant", a.finish = "no", NEW m \in Progress(a)
  PROVE  /\ m \in Message /\ m.role = "assistant"
         /\ m.tool = "none" => a.tool = "none"
         /\ a.tool # "none" => m.tool # "none"
         /\ m.tool = "open" => a.tool \in {"none", "open"}
         /\ ~isSpinning(m, "text")
<1>0. /\ a.text \in BOOLEAN /\ a.tool \in {"none", "open", "done"}
      /\ \A t \in {"none", "open", "done"} :
             /\ [a EXCEPT !.tool = t] \in Message /\ [a EXCEPT !.tool = t].tool = t
             /\ [a EXCEPT !.tool = t].role = a.role /\ [a EXCEPT !.tool = t].text = a.text
      /\ \A f \in {"no", "end", "canceled", "tool_use"} :
             /\ [a EXCEPT !.finish = f] \in Message /\ [a EXCEPT !.finish = f].finish = f
             /\ [a EXCEPT !.finish = f].tool = a.tool /\ [a EXCEPT !.finish = f].role = a.role
      /\ [a EXCEPT !.text = TRUE] \in Message /\ [a EXCEPT !.text = TRUE].text = TRUE
      /\ [a EXCEPT !.text = TRUE].role = a.role /\ [a EXCEPT !.text = TRUE].tool = a.tool
  BY DEF Message
<1>1. \/ m = [a EXCEPT !.text = TRUE]
      \/ a.tool = "none" /\ m = [a EXCEPT !.tool = "open"]
      \/ a.tool = "open" /\ m = [a EXCEPT !.tool = "done"]
      \/ \E f \in {"end", "canceled", "tool_use"} : m = [a EXCEPT !.finish = f]
  <2>1. CASE m \in {[a EXCEPT !.text = TRUE]}
    BY <2>1
  <2>2. CASE m \in {[a EXCEPT !.tool = t] : t \in
               CASE a.tool = "none" -> {"open"} [] a.tool = "open" -> {"done"}
                 [] OTHER -> {}}
    <3>1. CASE a.tool = "none"
      BY <2>2, <3>1
    <3>2. CASE a.tool = "open"
      BY <2>2, <3>2
    <3>3. CASE a.tool = "done"
      BY <2>2, <3>3
    <3>. QED
      BY <1>0, <3>1, <3>2, <3>3
  <2>3. CASE m \in {[a EXCEPT !.finish = f] : f \in
               CASE a.tool = "none" -> {"end", "canceled"}
                 [] a.tool = "open" -> {}
                 [] a.tool = "done" -> {"end", "canceled", "tool_use"}}
    <3>1. CASE a.tool = "none"
      BY <2>3, <3>1
    <3>2. CASE a.tool = "open"
      BY <2>3, <3>2
    <3>3. CASE a.tool = "done"
      BY <2>3, <3>3
    <3>. QED
      BY <1>0, <3>1, <3>2, <3>3
  <2>. QED
    BY <2>1, <2>2, <2>3 DEF Progress
<1>2. CASE m = [a EXCEPT !.text = TRUE]
  BY <1>0, <1>2 DEF isSpinning
<1>3. CASE a.tool = "none" /\ m = [a EXCEPT !.tool = "open"]
  BY <1>0, <1>3 DEF isSpinning
<1>4. CASE a.tool = "open" /\ m = [a EXCEPT !.tool = "done"]
  BY <1>0, <1>4 DEF isSpinning
<1>5. ASSUME NEW f \in {"end", "canceled", "tool_use"}, m = [a EXCEPT !.finish = f]
      PROVE  /\ m \in Message /\ m.role = "assistant" /\ m.tool = a.tool
             /\ ~isSpinning(m, "text")
  BY <1>0, <1>5 DEF isSpinning
<1>. QED
  BY <1>0, <1>1, <1>2, <1>3, <1>4, <1>5

LEMMA UpdatedMessages ==
  ASSUME NEW ms, MsgsOK(ms), NEW n \in 1 .. Len(ms), ms[n].role = "assistant",
         NEW m \in Message, m.role = "assistant"
  PROVE  LET new == [ms EXCEPT ![n] = m]
         IN /\ MsgsOK(new) /\ Len(new) = Len(ms) /\ new[n] = m
            /\ \A k \in 1 .. Len(ms) : k # n => new[k] = ms[k]
            /\ n # 1
<1> DEFINE new == [ms EXCEPT ![n] = m]
<1>1. /\ ms \in Seq(Message) /\ Len(ms) \in Nat /\ ms[1].role = "user"
      /\ \A k \in 1 .. Len(ms) :
             ms[k].role = "user" => ms[k].tool = "none" /\ ms[k].finish = "no"
  BY MessagesAre DEF MsgsOK
<1>2. /\ new \in Seq(Message) /\ Len(new) = Len(ms) /\ new[n] = m
      /\ \A k \in 1 .. Len(ms) : k # n => new[k] = ms[k]
  BY <1>1
<1> HIDE DEF new
<1>3. n # 1 /\ new[1] = ms[1]
  <2>1. n # 1
    BY <1>1
  <2>2. 1 \in 1 .. Len(ms)
    BY <1>1
  <2>. QED
    BY <1>2, <2>1, <2>2
<1>4. MsgsOK(new)
  BY <1>1, <1>2, <1>3 DEF MsgsOK
<1>. QED
  BY <1>2, <1>3, <1>4 DEF new

LEMMA DeletedMessages ==
  ASSUME NEW ms, MsgsOK(ms), ms # <<>>
  PROVE  LET n == Len(ms)
             new == SubSeq(ms, 1, n - 1)
         IN /\ MsgsOK(new) /\ Len(new) = n - 1
            /\ \A k \in 1 .. n - 1 : new[k] = ms[k]
<1> DEFINE n == Len(ms)
           new == SubSeq(ms, 1, n - 1)
<1>1. /\ ms \in Seq(Message) /\ n \in Nat /\ n # 0 /\ ms[1].role = "user"
      /\ \A k \in 1 .. n :
             ms[k].role = "user" => ms[k].tool = "none" /\ ms[k].finish = "no"
  BY MessagesAre DEF MsgsOK
<1>2. /\ new \in Seq(Message) /\ Len(new) = n - 1
      /\ \A k \in 1 .. n - 1 : new[k] = ms[k]
  <2> DEFINE j == n - 1
             left == SubSeq(ms, 1, j)
  <2>1. j \in Nat /\ j < n
    BY <1>1
  <2>2. left \in Seq(Message) /\ Len(left) = j /\ \A k \in 1 .. j : left[k] = ms[k]
    <3> HIDE DEF j, n
    <3>. QED
      BY <1>1, <2>1 DEF n
  <2>. QED
    BY <2>2
<1> HIDE DEF new
<1>3. \A k \in 1 .. n - 1 : k \in 1 .. n
  BY <1>1
<1>4. new # <<>> => new[1] = ms[1]
  <2> SUFFICES ASSUME new # <<>> PROVE new[1] = ms[1]
    OBVIOUS
  <2>1. Len(new) # 0
    BY <1>2
  <2>2. 1 \in 1 .. n - 1
    BY <1>1, <1>2, <2>1
  <2>. QED
    BY <1>2, <2>2
<1>5. MsgsOK(new)
  BY <1>1, <1>2, <1>3, <1>4 DEF MsgsOK
<1>. QED
  BY <1>2, <1>5 DEF new

-----------------------------------------------------------------------------
(* Events of messages keep what is shown and what is stored together.      *)

Shown(c, ms, late) ==
    /\ MsgsOK(ms) /\ Good(c)
    /\ late \subseteq {n \in 1 .. Len(ms) : ms[n].tool # "none"}
    /\ Built(c, ms, late)

LEMMA KnownBuilt ==
  ASSUME NEW c, NEW ms, NEW late, Shown(c, ms, late)
  PROVE  /\ \A id : Known(c, id) <=> id \in Ids(c)
         /\ \A n \in 1 .. Len(ms), p \in Part :
                Id(n, p) \in Ids(c) <=> Has(ms[n], p) /\ ~(p = "text" /\ n \in late)
         /\ \A p : Id(Len(ms) + 1, p) \notin Ids(c)
         /\ \A x \in Ids(c) : x \in ItemId /\ x.msg \in 1 .. Len(ms)
         /\ Len(ms) > 0 => Id(1, "text") \in Ids(c)
<1>1. \A id : Known(c, id) <=> id \in Ids(c)
  BY DEF Known, Shown, Good, Indexed
<1>2. Ids(c) = {id \in StoredOf(ms) : ~Late(id, late)}
  BY DEF Shown, Built
<1>3. Len(ms) \in Nat /\ \A n \in 1 .. Len(ms) : n \in Nat
  BY MessagesAre DEF Shown
<1>4. ASSUME NEW n \in 1 .. Len(ms), NEW p \in Part
      PROVE  Id(n, p) \in Ids(c) <=> Has(ms[n], p) /\ ~(p = "text" /\ n \in late)
  <2>1. Id(n, p) \in ItemId /\ Id(n, p).msg = n /\ Id(n, p).part = p
    BY <1>3, IdIs
  <2>. QED
    BY <1>2, <2>1 DEF StoredOf, Late
<1>5. \A x \in Ids(c) : x \in ItemId /\ x.msg \in 1 .. Len(ms)
  BY <1>2 DEF StoredOf
<1>6. \A p : Id(Len(ms) + 1, p) \notin Ids(c)
  <2>1. \A p : Id(Len(ms) + 1, p).msg = Len(ms) + 1
    BY DEF Id
  <2>2. Len(ms) + 1 \notin 1 .. Len(ms)
    BY <1>3
  <2>. QED
    BY <1>5, <2>1, <2>2
<1>7. Len(ms) > 0 => Id(1, "text") \in Ids(c)
  <2> SUFFICES ASSUME Len(ms) > 0 PROVE Id(1, "text") \in Ids(c)
    OBVIOUS
  <2>1. 1 \in 1 .. Len(ms) /\ ms # <<>>
    BY <1>3
  <2>2. ms[1].role = "user" /\ ms[1].tool = "none"
    BY <2>1 DEF Shown, MsgsOK
  <2>3. 1 \notin late
    BY <2>2 DEF Shown
  <2>. QED
    BY <1>4, <2>1, <2>2, <2>3, PartsAre, HasText
<1>. QED
  BY <1>1, <1>4, <1>5, <1>6, <1>7

LEMMA NotEmpty ==
  ASSUME NEW c, c.items \in Items, NEW id, id \in Ids(c)
  PROVE  c.items # <<>>
<1>1. \E k \in DOMAIN c.items : TRUE
  BY DEF Ids
<1>2. DOMAIN <<>> = {}
  OBVIOUS
<1>. QED
  BY <1>1, <1>2

(* The tools of what is shown, by the ids of the items.                    *)
LEMMA ToolsAre ==
  ASSUME NEW c, NEW ms, NEW late, Shown(c, ms, late)
  PROVE  \A x \in ElemsOf(c.items) :
             /\ x.id \in Ids(c) /\ x.id \in ItemId
             /\ x.id.msg \in 1 .. Len(ms)
             /\ x.id.part = "tool" => (x.spins <=> ms[x.id.msg].tool = "open")
<1>1. \A x \in ElemsOf(c.items) : x.id \in Ids(c)
  BY DEF ElemsOf, Ids
<1>2. \A x \in Ids(c) : x \in ItemId /\ x.msg \in 1 .. Len(ms)
  BY KnownBuilt
<1>3. \A x \in ElemsOf(c.items) :
          x.id.part = "tool" => (x.spins <=> ms[x.id.msg].tool = "open")
  BY Zenon DEF Shown, Built
<1>. QED
  BY <1>1, <1>2, <1>3, Zenon

LEMMA CreatedGood ==
  ASSUME NEW c, NEW ms, NEW late, Shown(c, ms, late),
         NEW role \in {"user", "assistant"}, role = "assistant" => Len(ms) > 0,
         NEW rows \in TextHeight
  PROVE  LET m == NewMessage(role)
             d == appendSessionMessage(c, Len(ms) + 1, m, rows)
         IN Shown(d, Append(ms, m), late) /\ Ends(d)
<1> DEFINE m == NewMessage(role)
           n == Len(ms) + 1
           new == Append(ms, m)
           items == ExtractMessageItems(n, m, rows)
           s == StartAnimations(c, items)
           long == AppendMessages(s, items)
           d == appendSessionMessage(c, n, m, rows)
<1>1. /\ m \in Message /\ m.role = role /\ m.tool = "none" /\ m.finish = "no"
      /\ MsgsOK(new) /\ Len(new) = n /\ new[n] = m
      /\ \A k \in 1 .. Len(ms) : new[k] = ms[k]
  BY CreatedMessages DEF Shown
<1>2. /\ Len(ms) \in Nat /\ n \in Nat /\ n \in 1 .. n /\ rows \in Nat \ {0}
      /\ \A k : k \in 1 .. n <=> (k \in 1 .. Len(ms) \/ k = n)
      /\ n \notin 1 .. Len(ms)
  BY MessagesAre, HeightsPositive DEF Shown
<1>3. Good(c) /\ c.items \in Items
  BY GoodIs DEF Shown
<1> HIDE DEF m, n, new
<1>4. /\ items \in Items /\ Distinct(items)
      /\ \A x : x \in ElemsOf(items) <=> x = Item(n, m, "text", rows)
      /\ \A id : id \in IdsOf(items) <=> id = Id(n, "text")
  <2>1. Has(m, "text") /\ ~Has(m, "tool")
    BY <1>1, HasText DEF ShouldRenderAssistantMessage
  <2>. QED
    BY <1>1, <1>2, <2>1, ExtractIs
<1> HIDE DEF items
<1>5. /\ Good(s) /\ s.items = c.items /\ s.ticks = c.ticks \union Spinning(items)
      /\ s.follow = c.follow
  BY <1>3, <1>4, StartsGood DEF Keeps, Looks
<1>6. Ids(s) = Ids(c)
  BY <1>5 DEF Ids
<1> HIDE DEF s
<1>7. /\ Loose(long)
      /\ c.items # <<>> => Good(long)
      /\ ElemsOf(long.items) = ElemsOf(c.items) \union ElemsOf(items)
      /\ Ids(long) = Ids(c) \union IdsOf(items)
  <2>1. IdsOf(items) \intersect Ids(s) = {}
    BY <1>4, <1>6, KnownBuilt DEF n
  <2>2. \A x \in ElemsOf(items) : x.spins => x.id \in s.ticks \union s.paused
    BY <1>4, <1>5, SpinningIs
  <2>. QED
    BY <1>4, <1>5, <1>6, <2>1, <2>2, AppendIs, GoodLoose
<1> HIDE DEF long
<1>8. d = IF m.role = "user" THEN ScrollToBottomAndAnimate(long) ELSE IfFollowToBottom(long)
  <2>1. ~Known(c, Id(n, "text"))
    BY KnownBuilt DEF n
  <2>. QED
    BY <2>1 DEF appendSessionMessage, items, s, long
<1> HIDE DEF d
<1>9. Keeps(long, d) /\ Ends(d)
  <2>1. CASE role = "user"
    BY <1>1, <1>7, <1>8, <2>1, BottomAnimated
  <2>2. CASE role = "assistant"
    <3>1. Good(long)
      BY <1>3, <1>7, <2>2, KnownBuilt, NotEmpty
    <3>. QED
      BY <1>1, <1>8, <2>2, <3>1, FollowGood
  <2>. QED
    BY <2>1, <2>2
<1>10. Built(long, new, late)
  <2>1. \A p \in Part : Has(m, p) <=> p = "text"
    BY <1>1, HasText DEF ShouldRenderAssistantMessage, Part
  <2>2. n \notin late
    BY <1>2 DEF Shown
  <2>3. ASSUME NEW id
        PROVE  id \in Ids(long) <=> id \in StoredOf(new) /\ ~Late(id, late)
    <3>1. id \in Ids(long) <=> (id \in Ids(c) \/ id = Id(n, "text"))
      BY <1>4, <1>7
    <3>2. id \in Ids(c) <=> id \in StoredOf(ms) /\ ~Late(id, late)
      BY DEF Shown, Built
    <3>3. id \in StoredOf(new) <=> (id \in StoredOf(ms) \/ id = Id(n, "text"))
      <4>1. CASE id \in ItemId /\ id.msg \in 1 .. Len(ms)
        <5>1. id # Id(n, "text")
          BY <1>2, <4>1, IdIs, PartsAre
        <5>. QED
          BY <1>1, <1>2, <4>1, <5>1 DEF StoredOf
      <4>2. CASE id \in ItemId /\ id.msg = n
        <5>1. id.part \in Part /\ (id = Id(n, "text") <=> id.part = "text")
          BY <1>2, <4>2, IdIs, PartsAre DEF ItemId
        <5>. QED
          BY <1>1, <1>2, <2>1, <4>2, <5>1 DEF StoredOf
      <4>3. CASE ~(id \in ItemId /\ id.msg \in 1 .. n)
        BY <1>1, <1>2, <4>3, IdIs, PartsAre DEF StoredOf
      <4>. QED
        BY <1>2, <4>1, <4>2, <4>3
    <3>4. ~Late(Id(n, "text"), late)
      BY <1>2, <2>2, IdIs, PartsAre DEF Late
    <3>. QED
      BY <3>1, <3>2, <3>3, <3>4
  <2>4. ASSUME NEW x \in ElemsOf(long.items), x.id.part = "tool"
        PROVE  x.spins <=> new[x.id.msg].tool = "open"
    <3>1. CASE x \in ElemsOf(c.items)
      BY <1>1, <2>4, <3>1, ToolsAre
    <3>2. CASE x \in ElemsOf(items)
      <4>1. x.id.part = "text"
        BY <1>1, <1>2, <1>4, <3>2, ItemIs, PartsAre
      <4>. QED
        BY <2>4, <4>1
    <3>. QED
      BY <1>7, <3>1, <3>2
  <2>. QED
    BY <2>3, <2>4 DEF Built
<1>11. Built(d, new, late)
  <2>1. long.items \in Items /\ d.items \in Items
    <3>1. long \in Chats /\ Good(d)
      BY <1>7, <1>9 DEF Loose, Keeps
    <3>. QED
      BY <3>1, ChatIs, GoodIs
  <2>. QED
    BY <1>9, <1>10, <2>1, BuiltSame DEF Keeps
<1>12. late \subseteq {k \in 1 .. Len(new) : new[k].tool # "none"}
  BY <1>1, <1>2 DEF Shown
<1>. QED
  BY <1>1, <1>9, <1>11, <1>12 DEF Shown, Keeps, d, n, m, new

LEMMA TicksLess ==
  ASSUME NEW c, Good(c), NEW id, id \notin Ids(c)
  PROVE  LET d == [c EXCEPT !.ticks = @ \ {id}]
         IN Keeps(c, d) /\ Looks(c, d) /\ d.follow = c.follow /\ d.items = c.items
<1> DEFINE t == c.ticks \ {id}
           d == [c EXCEPT !.ticks = t]
<1>1. /\ c \in Chats /\ Begins(c) /\ c.height \in ViewHeight /\ Turning(c)
      /\ DOMAIN c.items = 1 .. Len(c.items)
  BY GoodIs DEF Good
<1>2. t \in SUBSET ItemId
  BY <1>1, ChatIs
<1> HIDE DEF t
<1>3. /\ d \in Chats /\ d.items = c.items /\ d.height = c.height
      /\ d.selectedIdx = c.selectedIdx /\ d.idInxMap = c.idInxMap
      /\ d.offsetIdx = c.offsetIdx /\ d.offsetLine = c.offsetLine
      /\ d.paused = c.paused /\ d.ticks = t /\ d.follow = c.follow
  BY <1>1, <1>2 DEF Chats
<1> HIDE DEF d
<1>4. Same(c, d) /\ Looks(c, d)
  BY <1>3 DEF Same, Looks
<1>5. Begins(d)
  BY <1>1, <1>3, SameRows DEF Begins
<1>6. Turning(d)
  <2>1. \A k \in 1 .. Len(c.items) : c.items[k].id # id
    BY <1>1 DEF Ids
  <2>. QED
    BY <1>1, <1>3, <2>1 DEF Turning, t
<1>7. Keeps(c, d)
  BY <1>1, <1>3, <1>4, <1>5, <1>6, GoodTurning, GoodLoose DEF Keeps
<1>8. d = [c EXCEPT !.ticks = @ \ {id}]
  BY <1>1 DEF Chats, d, t
<1>. QED
  BY <1>3, <1>4, <1>7, <1>8

LEMMA DeletedGood ==
  ASSUME NEW c, NEW ms, NEW late, Shown(c, ms, late), ms # <<>>,
         ms[Len(ms)].role = "assistant", ms[Len(ms)].finish = "no",
         ms[Len(ms)].tool = "none"
  PROVE  LET gone == Id(Len(ms), "text")
             r == RemoveMessage(c, gone)
             d == [r EXCEPT !.ticks = @ \ {gone}]
         IN Shown(d, SubSeq(ms, 1, Len(ms) - 1), late)
<1> DEFINE n == Len(ms)
           new == SubSeq(ms, 1, n - 1)
           gone == Id(n, "text")
           r == RemoveMessage(c, gone)
           d == [r EXCEPT !.ticks = @ \ {gone}]
<1>1. /\ MsgsOK(new) /\ Len(new) = n - 1
      /\ \A k \in 1 .. n - 1 : new[k] = ms[k]
  BY DeletedMessages DEF Shown
<1>2. /\ n \in Nat /\ n \in 1 .. n
      /\ \A k : k \in 1 .. n - 1 <=> k \in 1 .. n /\ k # n
      /\ Good(c)
  BY MessagesAre DEF Shown
<1>3. n \notin late
  BY DEF Shown
<1> HIDE DEF n, new
<1>4. \A p \in Part : Has(ms[n], p) <=> p = "text"
  BY HasText DEF ShouldRenderAssistantMessage, Part, n
<1>5. gone \in Ids(c) /\ Known(c, gone)
  BY <1>2, <1>3, <1>4, KnownBuilt, PartsAre DEF n
<1>6. /\ Good(r) /\ ElemsOf(r.items) = {y \in ElemsOf(c.items) : y.id # gone}
      /\ Ids(r) = Ids(c) \ {gone}
  BY <1>2, <1>5, RemoveIs
<1> HIDE DEF r
<1>7. Good(d) /\ d.items = r.items
  BY <1>6, TicksLess DEF Keeps
<1> HIDE DEF d
<1>8. Ids(d) = Ids(r)
  BY <1>7 DEF Ids
<1>9. ASSUME NEW id
      PROVE  id \in Ids(d) <=> id \in StoredOf(new) /\ ~Late(id, late)
  <2>1. id \in Ids(d) <=> id \in Ids(c) /\ id # gone
    BY <1>6, <1>8
  <2>2. id \in Ids(c) <=> id \in StoredOf(ms) /\ ~Late(id, late)
    BY DEF Shown, Built
  <2>3. id \in StoredOf(new) <=> id \in StoredOf(ms) /\ id # gone
    <3>1. CASE id \in ItemId /\ id.msg \in 1 .. n - 1
      <4>1. id # gone /\ id.msg \in 1 .. n
        BY <1>2, <3>1, IdIs, PartsAre
      <4>. QED
        BY <1>1, <3>1, <4>1 DEF StoredOf, n
    <3>2. CASE id \in ItemId /\ id.msg = n
      <4>1. id.part \in Part /\ (id = gone <=> id.part = "text")
        BY <1>2, <3>2, IdIs, PartsAre DEF ItemId
      <4>2. id.msg \notin 1 .. Len(new)
        BY <1>1, <1>2, <3>2
      <4>3. id \in StoredOf(ms) <=> id = gone
        BY <1>2, <1>4, <3>2, <4>1 DEF StoredOf, n
      <4>. QED
        BY <4>2, <4>3 DEF StoredOf
    <3>3. CASE ~(id \in ItemId /\ id.msg \in 1 .. n)
      BY <1>1, <1>2, <3>3 DEF StoredOf, n
    <3>. QED
      BY <1>2, <3>1, <3>2, <3>3
  <2>. QED
    BY <2>1, <2>2, <2>3
<1>10. ASSUME NEW x \in ElemsOf(d.items), x.id.part = "tool"
       PROVE  x.spins <=> new[x.id.msg].tool = "open"
  <2>1. x \in ElemsOf(c.items) /\ x.id # gone
    BY <1>6, <1>7
  <2>2. x.id.msg \in 1 .. n /\ x.id \in Ids(c) /\ x.id \in ItemId
        /\ (x.spins <=> ms[x.id.msg].tool = "open")
    BY <1>10, <2>1, ToolsAre DEF n
  <2>3. x.id.msg # n
    <3> SUFFICES ASSUME x.id.msg = n PROVE FALSE
      OBVIOUS
    <3>1. x.id = Id(n, "tool")
      BY <1>2, <1>10, <2>2, IdIs, PartsAre
    <3>2. ~Has(ms[n], "tool")
      BY <1>4, PartsAre
    <3>. QED
      BY <1>2, <2>2, <3>1, <3>2, KnownBuilt, PartsAre DEF n
  <2>4. x.id.msg \in 1 .. n - 1
    BY <1>2, <2>2, <2>3
  <2>. QED
    BY <1>1, <2>2, <2>4
<1>11. Built(d, new, late)
  BY <1>9, <1>10 DEF Built
<1>12. late \subseteq {k \in 1 .. Len(new) : new[k].tool # "none"}
  <2> SUFFICES ASSUME NEW k \in late PROVE k \in 1 .. Len(new) /\ new[k].tool # "none"
    OBVIOUS
  <2>1. k \in 1 .. n /\ ms[k].tool # "none" /\ k # n
    BY <1>3 DEF Shown, n
  <2>2. k \in 1 .. n - 1
    BY <1>2, <2>1
  <2>. QED
    BY <1>1, <2>1, <2>2
<1>. QED
  BY <1>1, <1>7, <1>11, <1>12 DEF Shown, n, new, d, r

(* The items of tools are untouched.                                       *)
Tools(c, d) ==
    \A x : x.id.part = "tool" => (x \in ElemsOf(d.items) <=> x \in ElemsOf(c.items))

LEMMA TextGood ==
  ASSUME NEW c, Good(c), NEW n \in Nat, NEW m \in Message, ~isSpinning(m, "text"),
         NEW rows \in Nat \ {0}
  PROVE  LET d == UpdateText(c, n, m, rows)
         IN Good(d) /\ Ids(d) = Ids(c) /\ Tools(c, d)
<1> DEFINE x == Item(n, m, "text", rows)
           d == UpdateText(c, n, m, rows)
<1>1. /\ x \in OneItem /\ x.id = Id(n, "text") /\ x.id.part = "text" /\ ~x.spins
  BY ItemIs, PartsAre
<1>2. d = IF Known(c, Id(n, "text")) THEN ReplaceItem(c, x) ELSE c
  BY DEF UpdateText
<1> HIDE DEF x, d
<1>3. CASE Known(c, Id(n, "text"))
  <2>1. /\ Good(d) /\ Ids(d) = Ids(c)
        /\ ElemsOf(d.items) = {y \in ElemsOf(c.items) : y.id # x.id} \union {x}
    BY <1>1, <1>2, <1>3, ReplaceIs
  <2>2. Tools(c, d)
    BY <1>1, <2>1 DEF Tools
  <2>. QED
    BY <2>1, <2>2 DEF d
<1>4. CASE ~Known(c, Id(n, "text"))
  BY <1>2, <1>4 DEF Tools, d
<1>. QED
  BY <1>3, <1>4

LEMMA DropGood ==
  ASSUME NEW c, Good(c), NEW n \in Nat, NEW m \in Message, Id(n, "info") \notin Ids(c)
  PROVE  LET d == DropEmptyText(c, n, m)
         IN /\ Good(d) /\ Tools(c, d)
            /\ Ids(d) = IF ShouldRenderAssistantMessage(m) THEN Ids(c)
                        ELSE Ids(c) \ {Id(n, "text")}
<1> DEFINE d == DropEmptyText(c, n, m)
           id == Id(n, "text")
           info == Id(n, "info")
           r == RemoveMessage(c, id)
<1>1. m.tool = "none" => ShouldRenderAssistantMessage(m)
  BY DEF ShouldRenderAssistantMessage
<1>2. d = IF ShouldRenderAssistantMessage(m) \/ ~Known(c, id) THEN c
          ELSE IF m.finish = "end" THEN r ELSE RemoveMessage(r, info)
  BY <1>1 DEF DropEmptyText
<1>3. Known(c, id) <=> id \in Ids(c)
  BY DEF Known, Good, Indexed
<1>4. id.part = "text"
  BY IdIs, PartsAre
<1> HIDE DEF d, r, id, info
<1>5. CASE ShouldRenderAssistantMessage(m) \/ ~Known(c, id)
  BY <1>2, <1>3, <1>5 DEF Tools, d, id
<1>6. CASE ~ShouldRenderAssistantMessage(m) /\ Known(c, id)
  <2>1. /\ Good(r) /\ Ids(r) = Ids(c) \ {id}
        /\ ElemsOf(r.items) = {y \in ElemsOf(c.items) : y.id # id}
    BY <1>6, RemoveIs DEF r
  <2>2. ~Known(r, info)
    BY <2>1 DEF Known, Good, Indexed, info
  <2>3. d = r
    BY <1>2, <1>6, <2>2 DEF RemoveMessage
  <2>4. Tools(c, r)
    BY <1>4, <2>1 DEF Tools
  <2>. QED
    BY <1>6, <2>1, <2>3, <2>4 DEF d, id
<1>. QED
  BY <1>5, <1>6

LEMMA FooterGood ==
  ASSUME NEW c, Good(c), c.items # <<>>, NEW n \in Nat, NEW m \in Message,
         Id(n, "info") \notin Ids(c)
  PROVE  LET d == AddFooter(c, n, m)
         IN /\ Good(d) /\ Tools(c, d)
            /\ \A id : id \in Ids(d) <=>
                   (id \in Ids(c) \/ (Has(m, "info") /\ id = Id(n, "info")))
<1> DEFINE d == AddFooter(c, n, m)
           u == Footer(n, m)
<1>1. ~Known(c, Id(n, "info"))
  BY DEF Known, Good, Indexed
<1>2. d = AppendMessages(c, u)
  BY <1>1 DEF AddFooter
<1>3. /\ u \in Items /\ Distinct(u)
      /\ \A x : x \in ElemsOf(u) <=> Has(m, "info") /\ x = Item(n, m, "info", 1)
      /\ \A id : id \in IdsOf(u) <=> Has(m, "info") /\ id = Id(n, "info")
  BY FooterIs
<1>4. Item(n, m, "info", 1).id.part = "info" /\ ~Item(n, m, "info", 1).spins
  <2>1. 1 \in Nat \ {0} /\ ~isSpinning(m, "info")
    BY DEF isSpinning
  <2>. QED
    BY <2>1, ItemIs, PartsAre
<1> HIDE DEF d, u
<1>5. IdsOf(u) \intersect Ids(c) = {} /\ \A x \in ElemsOf(u) : ~x.spins
  BY <1>3, <1>4
<1>6. /\ Good(d) /\ ElemsOf(d.items) = ElemsOf(c.items) \union ElemsOf(u)
      /\ Ids(d) = Ids(c) \union IdsOf(u)
  BY <1>2, <1>3, <1>5, AppendIs, GoodLoose
<1>7. Tools(c, d)
  BY <1>3, <1>4, <1>6 DEF Tools
<1>8. \A id : id \in Ids(d) <=> (id \in Ids(c) \/ (Has(m, "info") /\ id = Id(n, "info")))
  BY <1>3, <1>6
<1>. QED
  BY <1>6, <1>7, <1>8 DEF d

(* A tool that opens spins from its first item on.                         *)
LEMMA ToolGood ==
  ASSUME NEW c, Good(c), c.items # <<>>, NEW n \in Nat, NEW m \in Message,
         \A x \in ElemsOf(c.items) :
             x.id = Id(n, "tool") /\ m.tool = "open" => x.spins
  PROVE  LET d == UpdateTool(c, n, m)
         IN /\ Good(d)
            /\ \A id : id \in Ids(d) <=>
                   (id \in Ids(c) \/ (Has(m, "tool") /\ id = Id(n, "tool")))
            /\ \A x \in ElemsOf(d.items) :
                   \/ x \in ElemsOf(c.items) /\ (Has(m, "tool") => x.id # Id(n, "tool"))
                   \/ x.id = Id(n, "tool") /\ (x.spins <=> m.tool = "open")
<1> DEFINE d == UpdateTool(c, n, m)
           id == Id(n, "tool")
           x == Item(n, m, "tool", 1)
           new == <<x>>
           s == StartAnimations(c, new)
           old == MessageItem(c, id)
           y == [old EXCEPT !.spins = isSpinning(m, "tool")]
<1>1. /\ x \in OneItem /\ x.id = id /\ (x.spins <=> m.tool = "open")
      /\ (Has(m, "tool") <=> m.tool # "none")
  <2>1. 1 \in Nat \ {0}
    OBVIOUS
  <2>2. x \in OneItem /\ x.id = id /\ (x.spins <=> m.tool = "open")
    BY <2>1, ItemIs, PartsAre
  <2>. QED
    BY <2>2, HasText
<1>2. d = IF m.tool = "none" THEN c
          ELSE IF Known(c, id) THEN ReplaceItem(c, y) ELSE AppendMessages(s, new)
  BY DEF UpdateTool
<1>3. Known(c, id) <=> id \in Ids(c)
  BY DEF Known, Good, Indexed
<1>4. (isSpinning(m, "tool") <=> m.tool = "open") /\ isSpinning(m, "tool") \in BOOLEAN
  BY DEF isSpinning
<1> HIDE DEF d, x, id
<1>5. CASE m.tool = "none"
  BY <1>1, <1>2, <1>5 DEF d, id
<1>6. CASE m.tool # "none" /\ Known(c, id)
  <2>1. PICK k \in 1 .. Len(c.items) : c.items[k].id = id /\ old = c.items[k]
    <3>1. Indexed(c) /\ c.items \in Items
      BY GoodIs DEF Good
    <3>2. PICK k \in 1 .. Len(c.items) : c.items[k].id = id
      BY <1>6, <3>1, KnownIs
    <3>3. MessageItem(c, c.items[k].id) = c.items[k]
      BY <3>1, KnownIs
    <3>. QED
      BY <3>2, <3>3
  <2>2. old \in OneItem /\ old \in ElemsOf(c.items) /\ old.id = id
    <3>1. c.items \in Items /\ DOMAIN c.items = 1 .. Len(c.items)
      BY GoodIs
    <3>. QED
      BY <2>1, <3>1, ItemsAre DEF ElemsOf
  <2> HIDE DEF old
  <2>3. y \in OneItem /\ y.id = id /\ (y.spins <=> m.tool = "open")
    BY <1>4, <2>2 DEF OneItem
  <2>4. y.spins => y.id \in c.ticks \union c.paused
    <3>1. m.tool = "open" => old.spins
      BY <2>2 DEF id
    <3>2. old.spins => old.id \in c.ticks \union c.paused
      BY <2>2, GoodIs, TurningIs DEF Good
    <3>. QED
      BY <2>2, <2>3, <3>1, <3>2
  <2> HIDE DEF y
  <2>5. /\ Good(d) /\ Ids(d) = Ids(c)
        /\ ElemsOf(d.items) = {z \in ElemsOf(c.items) : z.id # id} \union {y}
    BY <1>2, <1>6, <2>3, <2>4, ReplaceIs
  <2>6. \A z : z \in Ids(d) <=> (z \in Ids(c) \/ (Has(m, "tool") /\ z = id))
    BY <1>3, <1>6, <2>5
  <2>7. \A z \in ElemsOf(d.items) :
            \/ z \in ElemsOf(c.items) /\ (Has(m, "tool") => z.id # id)
            \/ z.id = id /\ (z.spins <=> m.tool = "open")
    BY <2>3, <2>5
  <2>. QED
    BY <2>5, <2>6, <2>7 DEF d, id
<1>7. CASE m.tool # "none" /\ ~Known(c, id)
  <2>1. new \in Items /\ Distinct(new) /\ ElemsOf(new) = {x} /\ IdsOf(new) = {id}
    BY <1>1, OneIs
  <2> HIDE DEF new
  <2>2. /\ Good(s) /\ s.items = c.items /\ s.ticks = c.ticks \union Spinning(new)
    BY <2>1, StartsGood DEF Keeps, Looks
  <2>3. Ids(s) = Ids(c)
    BY <2>2 DEF Ids
  <2> HIDE DEF s
  <2>4. \A z \in ElemsOf(new) : z.spins => z.id \in s.ticks \union s.paused
    BY <2>1, <2>2, SpinningIs
  <2>5. /\ Good(d) /\ ElemsOf(d.items) = ElemsOf(c.items) \union {x}
        /\ Ids(d) = Ids(c) \union {id}
    <3>1. IdsOf(new) \intersect Ids(s) = {} /\ Loose(s) /\ s.items # <<>>
      BY <1>3, <1>7, <2>1, <2>2, <2>3, GoodLoose
    <3>2. d = AppendMessages(s, new)
      BY <1>2, <1>7
    <3>3. /\ Good(AppendMessages(s, new))
          /\ ElemsOf(AppendMessages(s, new).items) = ElemsOf(s.items) \union ElemsOf(new)
          /\ Ids(AppendMessages(s, new)) = Ids(s) \union IdsOf(new)
      <4>1. new \in Items /\ Distinct(new) /\ Good(s)
        BY <2>1, <2>2
      <4>. QED
        BY <2>4, <3>1, <4>1, AppendIs
    <3>. QED
      BY <2>1, <2>2, <2>3, <3>2, <3>3
  <2>6. \A z : z \in Ids(d) <=> (z \in Ids(c) \/ (Has(m, "tool") /\ z = id))
    BY <1>1, <1>7, <2>5
  <2>7. \A z \in ElemsOf(c.items) : z.id # id
    BY <1>3, <1>7 DEF ElemsOf, Ids
  <2>8. \A z \in ElemsOf(d.items) :
            \/ z \in ElemsOf(c.items) /\ (Has(m, "tool") => z.id # id)
            \/ z.id = id /\ (z.spins <=> m.tool = "open")
    BY <1>1, <2>5, <2>7
  <2>. QED
    BY <2>5, <2>6, <2>8 DEF d, id
<1>. QED
  BY <1>5, <1>6, <1>7

LEMMA UpdatedGood ==
  ASSUME NEW c, NEW ms, NEW late, Shown(c, ms, late), ms # <<>>,
         ms[Len(ms)].role = "assistant", ms[Len(ms)].finish = "no",
         NEW m \in Progress(ms[Len(ms)]), NEW rows \in TextHeight
  PROVE  LET n == Len(ms)
             d == updateSessionMessage(c, n, m, rows)
             after == IF ShouldRenderAssistantMessage(m) /\ ~Known(c, Id(n, "text"))
                      THEN late \union {n} ELSE late
         IN Shown(d, [ms EXCEPT ![n] = m], after) /\ Ends(d)
<1> DEFINE n == Len(ms)
           a == ms[n]
           new == [ms EXCEPT ![n] = m]
           text == Id(n, "text")
           tool == Id(n, "tool")
           info == Id(n, "info")
           after == IF ShouldRenderAssistantMessage(m) /\ ~Known(c, text)
                    THEN late \union {n} ELSE late
           u == UpdateText(c, n, m, rows)
           t == DropEmptyText(u, n, m)
           f == AddFooter(t, n, m)
           w == UpdateTool(f, n, m)
           d == updateSessionMessage(c, n, m, rows)
<1>1. /\ n \in Nat /\ n \in 1 .. n /\ a \in Message /\ Len(ms) > 0
      /\ rows \in Nat \ {0}
      /\ \A k \in 1 .. n : k \in Nat
  BY MessagesAre, HeightsPositive DEF Shown
<1>2. /\ m \in Message /\ m.role = "assistant"
      /\ m.tool = "none" => a.tool = "none"
      /\ a.tool # "none" => m.tool # "none"
      /\ m.tool = "open" => a.tool \in {"none", "open"}
      /\ ~isSpinning(m, "text")
  BY <1>1, ProgressIs
<1>3. /\ MsgsOK(new) /\ Len(new) = n /\ new[n] = m
      /\ \A k \in 1 .. n : k # n => new[k] = ms[k]
      /\ n # 1
  BY <1>1, <1>2, UpdatedMessages DEF Shown
<1>4. /\ Has(a, "text") <=> ShouldRenderAssistantMessage(a)
      /\ Has(a, "tool") <=> a.tool # "none"
      /\ ~Has(a, "info")
      /\ Has(m, "text") <=> ShouldRenderAssistantMessage(m)
      /\ Has(m, "tool") <=> m.tool # "none"
  BY <1>2, HasText
<1>5. /\ text \in Ids(c) <=> Has(a, "text") /\ n \notin late
      /\ tool \in Ids(c) <=> Has(a, "tool")
      /\ info \notin Ids(c)
      /\ Known(c, text) <=> text \in Ids(c)
      /\ Id(1, "text") \in Ids(c)
  BY <1>1, <1>4, KnownBuilt, PartsAre
<1>6. /\ text.part = "text" /\ tool.part = "tool" /\ info.part = "info"
      /\ text # Id(1, "text")
      /\ text \in ItemId /\ tool \in ItemId /\ info \in ItemId
      /\ text.msg = n /\ tool.msg = n /\ info.msg = n
  BY <1>1, <1>3, IdIs, PartsAre
<1>7. Good(c)
  BY DEF Shown
<1>8. \A x \in ElemsOf(c.items) :
          /\ x.id \in Ids(c) /\ x.id \in ItemId /\ x.id.msg \in 1 .. n
          /\ x.id.part = "tool" => (x.spins <=> ms[x.id.msg].tool = "open")
  BY ToolsAre
<1>9. \A id : id \in Ids(c) <=> id \in StoredOf(ms) /\ ~Late(id, late)
  BY DEF Shown, Built
<1>10. d = IF w.follow THEN SelectLast(ScrollToBottomAndAnimate(w)) ELSE w
  BY DEF updateSessionMessage
<1> HIDE DEF n, a, new, text, tool, info
<1>11. Good(u) /\ Ids(u) = Ids(c) /\ Tools(c, u)
  BY <1>1, <1>2, <1>7, TextGood
<1> HIDE DEF u
<1>12. /\ Good(t) /\ Tools(u, t)
       /\ Ids(t) = IF ShouldRenderAssistantMessage(m) THEN Ids(c) ELSE Ids(c) \ {text}
  BY <1>1, <1>2, <1>5, <1>11, DropGood DEF text, info
<1>13. t.items # <<>>
  BY <1>5, <1>6, <1>12, GoodIs, NotEmpty
<1>14. info \notin Ids(t)
  BY <1>5, <1>12
<1> HIDE DEF t
<1>15. /\ Good(f) /\ Tools(t, f)
       /\ \A id : id \in Ids(f) <=> (id \in Ids(t) \/ (Has(m, "info") /\ id = info))
  BY <1>1, <1>2, <1>12, <1>13, <1>14, FooterGood DEF info
<1> HIDE DEF f
<1>16. f.items # <<>>
  BY <1>5, <1>6, <1>12, <1>15, GoodIs, NotEmpty
<1>17. Tools(c, f)
  BY <1>11, <1>12, <1>15 DEF Tools
<1>18. ASSUME NEW x \in ElemsOf(f.items), x.id = tool, m.tool = "open"
       PROVE  x.spins
  <2>1. x \in ElemsOf(c.items)
    BY <1>6, <1>17, <1>18 DEF Tools
  <2>2. tool \in Ids(c) /\ (x.spins <=> a.tool = "open")
    BY <1>6, <1>8, <1>18, <2>1 DEF a
  <2>. QED
    BY <1>2, <1>4, <1>5, <1>18, <2>2
<1>19. /\ Good(w)
       /\ \A id : id \in Ids(w) <=> (id \in Ids(f) \/ (Has(m, "tool") /\ id = tool))
       /\ \A x \in ElemsOf(w.items) :
              \/ x \in ElemsOf(f.items) /\ (Has(m, "tool") => x.id # tool)
              \/ x.id = tool /\ (x.spins <=> m.tool = "open")
  <2>1. \A x \in ElemsOf(f.items) : x.id = tool /\ m.tool = "open" => x.spins
    BY <1>18
  <2>. QED
    BY <1>1, <1>2, <1>15, <1>16, <2>1, ToolGood DEF tool
<1> HIDE DEF w, d
<1>20. Keeps(w, d) /\ Ends(d)
  <2>1. CASE w.follow
    <3>1. Keeps(w, ScrollToBottomAndAnimate(w)) /\ Ends(ScrollToBottomAndAnimate(w))
      BY <1>19, BottomAnimated, GoodLoose
    <3>2. SelectionOnly(ScrollToBottomAndAnimate(w), SelectLast(ScrollToBottomAndAnimate(w)))
      BY <3>1, SelectionsAre DEF Keeps
    <3>. QED
      BY <1>10, <2>1, <3>1, <3>2, SelectionAfter
  <2>2. CASE ~w.follow
    BY <1>10, <1>19, <2>2, SameSelf DEF Keeps, Ends
  <2>. QED
    BY <2>1, <2>2
<1>21. ASSUME NEW id
       PROVE  id \in Ids(w) <=> id \in StoredOf(new) /\ ~Late(id, after)
  <2>1. id \in Ids(w) <=>
          \/ id \in Ids(c) /\ (id = text => ShouldRenderAssistantMessage(m))
          \/ Has(m, "info") /\ id = info
          \/ Has(m, "tool") /\ id = tool
    BY <1>12, <1>15, <1>19
  <2>2. CASE id \in ItemId /\ id.msg \in 1 .. n /\ id.msg # n
    <3>1. id # text /\ id # tool /\ id # info
      BY <1>6, <2>2
    <3>2. id \in StoredOf(new) <=> id \in StoredOf(ms)
      BY <1>3, <2>2 DEF StoredOf, n
    <3>3. Late(id, after) <=> Late(id, late)
      BY <2>2 DEF Late
    <3> HIDE DEF after
    <3>. QED
      BY <1>9, <2>1, <3>1, <3>2, <3>3
  <2>3. CASE id \in ItemId /\ id.msg = n
    <3>1. id \in StoredOf(new) <=> Has(m, id.part)
      BY <1>1, <1>3, <2>3 DEF StoredOf
    <3>2. \/ id = text /\ id.part = "text"
          \/ id = tool /\ id.part = "tool"
          \/ id = info /\ id.part = "info"
      <4>1. id.part = "text" \/ id.part = "tool" \/ id.part = "info"
        BY <2>3 DEF ItemId, Part
      <4>. QED
        BY <1>1, <2>3, <4>1, IdIs, PartsAre DEF text, tool, info
    <3>3. CASE id = text
      <4>1. id \in Ids(w) <=> id \in Ids(c) /\ ShouldRenderAssistantMessage(m)
        BY <1>6, <2>1, <3>3
      <4>2. Late(id, after) <=> n \in after
        BY <1>6, <3>3 DEF Late
      <4>3. ShouldRenderAssistantMessage(m) =>
                (n \in after <=> (n \in late \/ text \notin Ids(c)))
        BY <1>5
      <4> HIDE DEF after
      <4>. QED
        BY <1>4, <1>5, <1>6, <3>1, <3>3, <4>1, <4>2, <4>3
    <3>4. CASE id = tool
      <4>1. id \in Ids(w) <=> (id \in Ids(c) \/ Has(m, "tool"))
        BY <1>6, <2>1, <3>4
      <4>2. ~Late(id, after)
        BY <1>6, <3>4 DEF Late
      <4>3. id \in Ids(c) => Has(m, "tool")
        BY <1>2, <1>4, <1>5, <3>4
      <4>. QED
        BY <1>6, <3>1, <3>4, <4>1, <4>2, <4>3
    <3>5. CASE id = info
      <4>1. id \in Ids(w) <=> Has(m, "info")
        BY <1>5, <1>6, <2>1, <3>5
      <4>2. ~Late(id, after)
        BY <1>6, <3>5 DEF Late
      <4>. QED
        BY <1>6, <3>1, <3>5, <4>1, <4>2
    <3>. QED
      BY <3>2, <3>3, <3>4, <3>5
  <2>4. CASE ~(id \in ItemId /\ id.msg \in 1 .. n)
    <3>1. id # text /\ id # tool /\ id # info
      BY <1>1, <1>6, <2>4
    <3>2. id \notin StoredOf(new) /\ id \notin StoredOf(ms)
      BY <1>3, <2>4 DEF StoredOf, n
    <3>. QED
      BY <1>9, <2>1, <3>1, <3>2
  <2>. QED
    BY <2>2, <2>3, <2>4
<1>22. ASSUME NEW x \in ElemsOf(w.items), x.id.part = "tool"
       PROVE  x.spins <=> new[x.id.msg].tool = "open"
  <2>1. CASE x.id = tool /\ (x.spins <=> m.tool = "open")
    BY <1>3, <1>6, <2>1
  <2>2. CASE x \in ElemsOf(f.items) /\ (Has(m, "tool") => x.id # tool)
    <3>1. x \in ElemsOf(c.items)
      BY <1>17, <1>22, <2>2 DEF Tools
    <3>2. x.id \in Ids(c) /\ x.id \in ItemId /\ x.id.msg \in 1 .. n
          /\ (x.spins <=> ms[x.id.msg].tool = "open")
      BY <1>8, <1>22, <3>1
    <3>3. x.id.msg # n
      <4> SUFFICES ASSUME x.id.msg = n PROVE FALSE
        OBVIOUS
      <4>1. x.id = tool
        BY <1>1, <1>22, <3>2, IdIs, PartsAre DEF tool
      <4>. QED
        BY <1>2, <1>4, <1>5, <2>2, <3>2, <4>1
    <3>. QED
      BY <1>3, <3>2, <3>3
  <2>. QED
    BY <1>19, <2>1, <2>2
<1>23. Built(w, new, after)
  <2> HIDE DEF after
  <2>. QED
    BY <1>21, <1>22 DEF Built
<1>24. Built(d, new, after)
  <2>1. w.items \in Items /\ d.items \in Items
    BY <1>19, <1>20, GoodIs DEF Keeps
  <2>. QED
    BY <1>20, <1>23, <2>1, BuiltSame DEF Keeps
<1>25. after \subseteq {k \in 1 .. Len(new) : new[k].tool # "none"}
  <2>1. late \subseteq {k \in 1 .. n : ms[k].tool # "none"}
    BY DEF Shown, n
  <2>2. ASSUME NEW k \in late PROVE k \in 1 .. n /\ new[k].tool # "none"
    <3>1. k \in 1 .. n /\ ms[k].tool # "none"
      BY <2>1
    <3>2. CASE k = n
      BY <1>2, <1>3, <3>1, <3>2 DEF a
    <3>3. CASE k # n
      BY <1>3, <3>1, <3>3
    <3>. QED
      BY <3>1, <3>2, <3>3
  <2>3. ShouldRenderAssistantMessage(m) /\ ~Known(c, text) => m.tool # "none"
    <3> SUFFICES ASSUME ~Known(c, text), m.tool = "none" PROVE FALSE
      OBVIOUS
    <3>1. a.tool = "none" /\ ShouldRenderAssistantMessage(a)
      BY <1>2 DEF ShouldRenderAssistantMessage
    <3>2. n \in late
      BY <1>4, <1>5, <3>1
    <3>. QED
      BY <2>1, <3>1, <3>2 DEF a
  <2>. QED
    BY <1>1, <1>3, <2>2, <2>3
<1>. QED
  BY <1>3, <1>20, <1>24, <1>25 DEF Shown, Keeps, n, new, text, d

-----------------------------------------------------------------------------
(* The handlers that change the view only.                                 *)

Others == UNCHANGED <<msgs, session, lateText>>

LEMMA MovedGood ==
  ASSUME NEW lines \in Int, Good(chat)
  PROVE  Keeps(chat, Moved(lines)) /\ Ends(Moved(lines))
<1>1. Keeps(chat, ScrollBy(chat, lines)) /\ Ends(ScrollBy(chat, lines))
  BY ByGood
<1>. QED
  BY <1>1, AnimatedEnds DEF Moved

LEMMA SelectedGood ==
  ASSUME Good(chat), NEW e, SelectionOnly(chat, e)
  PROVE  LET d == Animated(ScrollToSelected(e)) IN Keeps(chat, d) /\ Ends(d)
<1>1. Keeps(chat, e)
  BY SelectionGood
<1>2. Keeps(e, ScrollToSelected(e)) /\ Ends(ScrollToSelected(e))
  BY <1>1, ToSelectedGood DEF Keeps
<1>3. Keeps(chat, ScrollToSelected(e))
  BY <1>1, <1>2, SameIs DEF Keeps
<1>. QED
  BY <1>2, <1>3, AnimatedEnds

LEMMA ScrollingSettles ==
  ASSUME Good(chat), Scrolling
  PROVE  Keeps(chat, chat') /\ Ends(chat') /\ Others
<1>0. /\ MouseScrollThreshold \in Int /\ -MouseScrollThreshold \in Int
      /\ 1 \in Int /\ -1 \in Int
  BY HeightsPositive
<1>1. ASSUME NEW lines \in Int, NEW e, SelectionOnly(Moved(lines), e),
             chat' = BringSelection(Moved(lines), e)
      PROVE  Keeps(chat, chat') /\ Ends(chat')
  BY <1>1, MovedGood, BringGood
<1>2. ASSUME NEW lines \in Int
      PROVE  /\ SelectionOnly(Moved(lines), SelectPrev(Moved(lines)))
             /\ SelectionOnly(Moved(lines), SelectNext(Moved(lines)))
             /\ SelectionOnly(Moved(lines), SelectLast(Moved(lines)))
  BY MovedGood, SelectionsAre DEF Keeps
<1>3. CASE WheelUp
  BY <1>0, <1>1, <1>2, <1>3 DEF WheelUp, ByHand, Others
<1>4. CASE WheelDown
  <2> DEFINE c == Moved(MouseScrollThreshold)
             e == IF AtBottom(c) THEN SelectLast(c) ELSE SelectNext(c)
  <2>1. chat' = BringSelection(c, e) /\ Others
    BY <1>4 DEF WheelDown, ByHand, Others
  <2>2. SelectionOnly(c, e)
    BY <1>0, <1>2
  <2> HIDE DEF e
  <2>. QED
    BY <1>0, <1>1, <2>1, <2>2
<1>5. CASE LineUp
  BY <1>0, <1>1, <1>2, <1>5 DEF LineUp, ByHand, Others
<1>6. CASE LineDown
  BY <1>0, <1>1, <1>2, <1>6 DEF LineDown, ByHand, Others
<1>7. CASE ItemUp
  BY <1>7, SelectionsAre, SelectedGood DEF ItemUp, ByHand, Others
<1>8. CASE ItemDown
  BY <1>8, SelectionsAre, SelectedGood DEF ItemDown, ByHand, Others
<1>. QED
  BY <1>3, <1>4, <1>5, <1>6, <1>7, <1>8 DEF Scrolling

LEMMA PagingSettles ==
  ASSUME Good(chat), Paging
  PROVE  Keeps(chat, chat') /\ Ends(chat') /\ Others
<1>0. \A lines \in {chat.height, chat.height \div 2} : lines \in Int /\ -lines \in Int
  BY GoodIs
<1>1. ASSUME NEW c, NEW e, Keeps(chat, c), Ends(c), SelectionOnly(c, e)
      PROVE  Keeps(chat, e) /\ Ends(e)
  BY <1>1, SelectionAfter
<1>2. CASE PageUp
  <2>1. PICK lines \in {chat.height, chat.height \div 2} :
          chat' = SelectFirstInView(Moved(-lines)) /\ Others
    BY <1>2 DEF PageUp, ByHand, Others
  <2>2. Keeps(chat, Moved(-lines)) /\ Ends(Moved(-lines))
    BY <1>0, MovedGood
  <2>. QED
    BY <1>1, <2>1, <2>2, SelectionsAre DEF Keeps
<1>3. CASE PageDown
  <2>1. PICK lines \in {chat.height, chat.height \div 2} :
          chat' = SelectLastInView(Moved(lines)) /\ Others
    BY <1>3 DEF PageDown, ByHand, Others
  <2>2. Keeps(chat, Moved(lines)) /\ Ends(Moved(lines))
    BY <1>0, MovedGood
  <2>. QED
    BY <1>1, <2>1, <2>2, SelectionsAre DEF Keeps
<1>4. CASE Home
  <2> DEFINE c == Animated(ScrollToTop(chat))
  <2>1. Keeps(chat, c) /\ Ends(c)
    BY TopGood, AnimatedEnds
  <2>2. chat' = SelectFirst(c) /\ Others
    BY <1>4 DEF Home, ByHand, Others
  <2> HIDE DEF c
  <2>. QED
    BY <1>1, <2>1, <2>2, SelectionsAre DEF Keeps
<1>5. CASE End
  <2> DEFINE c == ScrollToBottomAndAnimate(chat)
  <2>1. Keeps(chat, c) /\ Ends(c)
    BY BottomAnimated, GoodLoose
  <2>2. chat' = SelectLast(c) /\ Others
    BY <1>5 DEF End, ByHand, Others
  <2> HIDE DEF c
  <2>. QED
    BY <1>1, <2>1, <2>2, SelectionsAre DEF Keeps
<1>. QED
  BY <1>2, <1>3, <1>4, <1>5 DEF Paging

LEMMA ToggledGood ==
  ASSUME NEW c, Good(c), SelectedPart(c) # "none"
  PROVE  Keeps(c, Anchor(ToggleExpanded(c)))
<1>1. c.selectedIdx \in Indices(c)
  BY DEF SelectedPart
<1>. QED
  BY <1>1, ToggleGood, AnchorGood

(* The mouse only selects.                                                 *)
LEMMA MouseKeeps ==
  ASSUME Good(chat), HandleMouseDown
  PROVE  /\ Keeps(chat, chat') /\ Others
         /\ Ends(chat) => Ends(chat')
<1>1. PICK idx \in {findItemAtY(chat, y) : y \in 0 .. chat.height - 1},
           click \in BOOLEAN :
        chat' = [Select(chat, idx) EXCEPT !.click = click] /\ Others
  BY DEF HandleMouseDown, ByHand, Others
<1> DEFINE c == Select(chat, idx)
<1>2. Keeps(chat, c) /\ (Ends(c) <=> Ends(chat))
  BY SelectIs, SelectionGood, LooksShown DEF Ends
<1> HIDE DEF c
<1> DEFINE d == [c EXCEPT !.click = click]
<1>3. Keeps(c, d) /\ Looks(c, d) /\ d.follow = c.follow
  BY <1>2, ClickGood DEF Keeps
<1>4. chat' = d
  BY <1>1 DEF c
<1> HIDE DEF d
<1>5. Keeps(chat, d) /\ (Ends(d) <=> Ends(c))
  BY <1>2, <1>3, SameIs, LooksShown DEF Keeps, Ends
<1>. QED
  BY <1>1, <1>2, <1>4, <1>5

(* A tool may open or close.                                               *)
LEMMA PointingKeeps ==
  ASSUME Good(chat), Pointing
  PROVE  Keeps(chat, chat') /\ Others
<1>1. CASE ToggleExpandedSelectedItem
  BY <1>1, ToggledGood DEF ToggleExpandedSelectedItem, ByHand, Others
<1>2. CASE HandleMouseDown
  BY <1>2, MouseKeeps
<1>3. CASE HandleDelayedClick
  <2> DEFINE c == ClearMouse(chat)
  <2>1. Keeps(chat, c)
    BY ClickGood DEF ClearMouse
  <2>2. /\ Others
        /\ \/ chat' = c
           \/ SelectedPart(c) = "tool" /\ chat' = Anchor(ToggleExpanded(c))
           \/ chat' = Anchor(c)
    BY <1>3 DEF HandleDelayedClick, Others
  <2> HIDE DEF c
  <2>3. CASE chat' = c
    BY <2>1, <2>2, <2>3
  <2>4. CASE SelectedPart(c) = "tool" /\ chat' = Anchor(ToggleExpanded(c))
    <3>1. Keeps(c, chat')
      BY <2>1, <2>4, ToggledGood DEF Keeps
    <3>. QED
      BY <2>1, <2>2, <3>1, SameIs DEF Keeps
  <2>5. CASE chat' = Anchor(c)
    BY <2>1, <2>2, <2>5, AnchorGood
  <2>. QED
    BY <2>2, <2>3, <2>4, <2>5
<1>. QED
  BY <1>1, <1>2, <1>3 DEF Pointing

(* After a resize, or a change of the pills, the chat follows again.       *)
LEMMA LayoutKeeps ==
  ASSUME Good(chat), Layout, session = "none" => chat.items = <<>>
  PROVE  /\ Keeps(chat, chat') /\ Others
         /\ Resize \/ togglePillsExpanded => Ends(chat')
<1>1. CASE Resize
  <2>1. PICK then \in ViewHeight, rows \in TextHeight :
          LET c == updateLayoutAndSize(chat, then, rows)
          IN chat' = IF session = "none" THEN c ELSE IfFollowToBottom(c)
    BY <1>1 DEF Resize
  <2> DEFINE c == updateLayoutAndSize(chat, then, rows)
  <2>2. Keeps(chat, c) /\ (chat.items = <<>> => c.items = <<>>)
    BY LayoutGood
  <2>3. chat' = (IF session = "none" THEN c ELSE IfFollowToBottom(c)) /\ Others
    BY <1>1, <2>1 DEF Resize, Others
  <2> HIDE DEF c
  <2>4. CASE session = "none"
    BY <2>2, <2>3, <2>4, EmptyShown DEF Ends
  <2>5. CASE session # "none"
    <3>1. Keeps(c, chat') /\ Ends(chat')
      BY <2>2, <2>3, <2>5, FollowGood DEF Keeps
    <3>. QED
      BY <2>2, <2>3, <3>1, SameIs DEF Keeps
  <2>. QED
    BY <2>4, <2>5
<1>2. CASE togglePillsExpanded
  <2>1. PICK then \in ViewHeight, rows \in TextHeight :
          LET c == updateLayoutAndSize(chat, then, rows)
          IN chat' = (IF c.follow THEN ScrollToBottom(c) ELSE c) /\ Others
    BY <1>2 DEF togglePillsExpanded, ByHand, Others
  <2> DEFINE c == updateLayoutAndSize(chat, then, rows)
  <2>2. Keeps(chat, c)
    BY LayoutGood
  <2>3. chat' = (IF c.follow THEN ScrollToBottom(c) ELSE c) /\ Others
    BY <2>1
  <2> HIDE DEF c
  <2>4. CASE c.follow
    <3>1. Keeps(c, chat') /\ Ends(chat')
      BY <2>2, <2>3, <2>4, BottomGood, GoodLoose DEF Keeps
    <3>. QED
      BY <2>2, <2>3, <3>1, SameIs DEF Keeps
  <2>5. CASE ~c.follow
    BY <2>2, <2>3, <2>5 DEF Ends
  <2>. QED
    BY <2>4, <2>5
<1>3. ASSUME Relayout \/ FocusChat
      PROVE  Keeps(chat, chat') /\ Others
  <2>1. CASE Relayout
    BY <2>1, LayoutGood DEF Relayout, Others
  <2>2. CASE FocusChat
    <3>1. PICK then \in ViewHeight, rows \in TextHeight :
            LET c == updateLayoutAndSize(chat, then, rows)
            IN chat' = SetSelected(c, LastIdx(c)) /\ Others
      BY <2>2 DEF FocusChat, ByHand, Others
    <3> DEFINE c == updateLayoutAndSize(chat, then, rows)
    <3>2. Keeps(chat, c)
      BY LayoutGood
    <3>3. chat' = SetSelected(c, LastIdx(c)) /\ Others
      BY <3>1
    <3> HIDE DEF c
    <3>4. SelectionOnly(c, chat')
      BY <3>2, <3>3, SelectionsAre DEF Keeps
    <3>. QED
      BY <3>2, <3>3, <3>4, SelectionAfter
  <2>. QED
    BY <1>3, <2>1, <2>2
<1>4. Keeps(chat, chat') /\ Others
  BY <1>1, <1>2, <1>3 DEF Layout
<1>5. Resize \/ togglePillsExpanded => Ends(chat')
  BY <1>1, <1>2
<1>. QED
  BY <1>4, <1>5

LEMMA TickSettles ==
  ASSUME Good(chat), Tick, session = "none" => chat.items = <<>>
  PROVE  Keeps(chat, chat') /\ Ends(chat') /\ Others
<1>1. PICK id \in chat.ticks :
        chat' = IF session = "none" THEN [chat EXCEPT !.ticks = @ \ {id}]
                ELSE IfFollowToBottom(Animate(chat, id))
  BY DEF Tick
<1>2. Others
  BY DEF Tick, Others
<1>3. CASE session = "none"
  <2>1. chat.items = <<>>
    BY <1>3
  <2>2. id \notin Ids(chat)
    BY <2>1, BuiltNone
  <2> DEFINE d == [chat EXCEPT !.ticks = @ \ {id}]
  <2>3. Keeps(chat, d) /\ d.items = chat.items
    BY <2>2, TicksLess
  <2>4. chat' = d
    BY <1>1, <1>3
  <2> HIDE DEF d
  <2>. QED
    BY <1>2, <2>1, <2>3, <2>4, EmptyShown DEF Ends
<1>4. CASE session # "none"
  <2> DEFINE c == Animate(chat, id)
  <2>1. Keeps(chat, c)
    BY TickGood
  <2>2. chat' = IfFollowToBottom(c)
    BY <1>1, <1>4
  <2> HIDE DEF c
  <2>3. Keeps(c, chat') /\ Ends(chat')
    BY <2>1, <2>2, FollowGood DEF Keeps
  <2>. QED
    BY <1>2, <2>1, <2>3, SameIs DEF Keeps
<1>. QED
  BY <1>3, <1>4

LEMMA ResultSettles ==
  ASSUME Good(chat), ToolResult
  PROVE  Keeps(chat, chat') /\ Ends(chat') /\ Others
  BY FollowGood DEF ToolResult, Others

-----------------------------------------------------------------------------
(* The inductive invariant: the chat is good, and while it shows the       *)
(* session it holds what is stored; otherwise it is empty.                 *)

IInv ==
    /\ MsgsOK(msgs)
    /\ session \in {"this", "other", "none"}
    /\ lateText \subseteq {n \in 1 .. Len(msgs) : msgs[n].tool # "none"}
    /\ Good(chat)
    /\ IF session = "this" THEN Built(chat, msgs, lateText)
       ELSE chat.items = <<>> /\ lateText = {}

LEMMA InitInv == Init => IInv
<1> SUFFICES ASSUME Init PROVE IInv
  OBVIOUS
<1> DEFINE none == <<>>
<1>1. PICK h \in ViewHeight :
        chat = [items |-> none, height |-> h, selectedIdx |-> -1,
                offsetIdx |-> 0, offsetLine |-> 0, follow |-> FALSE,
                idInxMap |-> none, paused |-> {}, ticks |-> {},
                click |-> FALSE]
  BY DEF Init
<1>2. h \in Nat \ {0}
  BY HeightsPositive
<1>3. none \in Index /\ DOMAIN none = {} /\ Len(none) = 0
  <2>1. none \in [{} -> Nat] /\ {} \in SUBSET ItemId
    OBVIOUS
  <2>. QED
    BY <2>1 DEF Index
<1>4. none \in Items
  BY NoneIs
<1>5. msgs = none /\ session = "none" /\ lateText = {}
  BY DEF Init
<1>6. MsgsOK(msgs)
  BY <1>5 DEF MsgsOK
<1> HIDE DEF none
<1>7. /\ chat \in Chats /\ chat.items = none /\ chat.height = h
      /\ chat.selectedIdx = -1 /\ chat.offsetIdx = 0 /\ chat.idInxMap = none
  BY <1>1, <1>2, <1>3, <1>4 DEF Chats
<1>8. Ids(chat) = {}
  BY <1>3, <1>7 DEF Ids
<1>9. Indexed(chat) /\ Turning(chat)
  BY <1>3, <1>7, <1>8 DEF Indexed, Turning
<1>10. Begins(chat)
  BY <1>7 DEF Begins, none
<1>11. Good(chat)
  BY <1>7, <1>9, <1>10 DEF Good
<1>12. chat.items = <<>>
  BY <1>7 DEF none
<1>. QED
  BY <1>5, <1>6, <1>11, <1>12 DEF IInv

LEMMA ViewInv ==
  ASSUME IInv, Keeps(chat, chat'), Others
  PROVE  IInv'
<1>1. msgs' = msgs /\ session' = session /\ lateText' = lateText
  BY DEF Others
<1>2. Good(chat) /\ Good(chat') /\ Same(chat, chat')
  BY DEF IInv, Keeps
<1>3. chat.items \in Items /\ chat'.items \in Items
  BY <1>2, GoodIs
<1>4. /\ Built(chat, msgs, lateText) <=> Built(chat', msgs, lateText)
      /\ chat.items = <<>> <=> chat'.items = <<>>
  BY <1>2, <1>3, BuiltSame
<1>. QED
  BY <1>1, <1>2, <1>4 DEF IInv

LEMMA ShownInv ==
  ASSUME IInv, session = "this"
  PROVE  Shown(chat, msgs, lateText)
  BY DEF IInv, Shown

LEMMA InvShown ==
  ASSUME Shown(chat, msgs, lateText)', session' = "this"
  PROVE  IInv'
  BY DEF IInv, Shown

(* What the events of messages come to.                                    *)
LEMMA CreatedInv ==
  ASSUME IInv, MessageCreated
  PROVE  IInv' /\ (session = "this" => Ends(chat'))
<1>1. PICK role \in {"user", "assistant"}, rows \in TextHeight :
        LET m == NewMessage(role)
        IN /\ role = "assistant" => Number > 0
           /\ msgs' = Append(msgs, m)
           /\ Shows(appendSessionMessage(chat, Number + 1, m, rows))
  BY DEF MessageCreated
<1>2. session' = session /\ lateText' = lateText
  BY DEF MessageCreated
<1> DEFINE m == NewMessage(role)
           d == appendSessionMessage(chat, Len(msgs) + 1, m, rows)
<1>3. /\ role = "assistant" => Len(msgs) > 0
      /\ msgs' = Append(msgs, m)
      /\ chat' = IF session = "this" THEN d ELSE chat
  BY <1>1 DEF Number, Shows
<1>4. CASE session = "this"
  <2>1. Shown(d, Append(msgs, m), lateText) /\ Ends(d)
    BY <1>3, <1>4, ShownInv, CreatedGood
  <2> HIDE DEF d, m
  <2>2. Shown(chat', msgs', lateText')
    BY <1>2, <1>3, <1>4, <2>1
  <2>. QED
    BY <1>2, <1>3, <1>4, <2>1, <2>2, InvShown
<1>5. CASE session # "this"
  <2>1. MsgsOK(Append(msgs, m))
    BY <1>3, CreatedMessages DEF IInv
  <2> HIDE DEF d, m
  <2>. QED
    BY <1>2, <1>3, <1>5, <2>1 DEF IInv
<1>. QED
  BY <1>4, <1>5

LEMMA UpdatedInv ==
  ASSUME IInv, MessageUpdated
  PROVE  IInv' /\ (session = "this" => Ends(chat'))
<1>1. /\ msgs # <<>> /\ msgs[Len(msgs)].role = "assistant"
      /\ msgs[Len(msgs)].finish = "no" /\ session' = session
  BY DEF MessageUpdated, Unfinished, Current, Number
<1>2. PICK m \in Progress(msgs[Len(msgs)]), rows \in TextHeight :
        /\ msgs' = [msgs EXCEPT ![Len(msgs)] = m]
        /\ lateText' = IF /\ session = "this"
                          /\ ShouldRenderAssistantMessage(m)
                          /\ ~Known(chat, Id(Len(msgs), "text"))
                       THEN lateText \union {Len(msgs)} ELSE lateText
        /\ chat' = IF session = "this"
                   THEN updateSessionMessage(chat, Len(msgs), m, rows) ELSE chat
  BY DEF MessageUpdated, Current, Number, Shows
<1> DEFINE d == updateSessionMessage(chat, Len(msgs), m, rows)
           after == IF /\ ShouldRenderAssistantMessage(m)
                       /\ ~Known(chat, Id(Len(msgs), "text"))
                    THEN lateText \union {Len(msgs)} ELSE lateText
           new == [msgs EXCEPT ![Len(msgs)] = m]
<1>3. CASE session = "this"
  <2>1. Shown(d, new, after) /\ Ends(d)
    BY <1>1, <1>3, ShownInv, UpdatedGood
  <2>2. chat' = d /\ msgs' = new /\ lateText' = after
    BY <1>2, <1>3
  <2> HIDE DEF d, new, after
  <2>3. Shown(chat', msgs', lateText')
    BY <2>1, <2>2
  <2>. QED
    BY <1>1, <1>3, <2>1, <2>2, <2>3, InvShown
<1>4. CASE session # "this"
  <2>1. MsgsOK(new)
    <3>1. Len(msgs) \in 1 .. Len(msgs) /\ msgs[Len(msgs)] \in Message /\ MsgsOK(msgs)
      BY <1>1, MessagesAre DEF IInv
    <3>2. m \in Message /\ m.role = "assistant"
      BY <1>1, <3>1, ProgressIs
    <3>. QED
      BY <1>1, <3>1, <3>2, UpdatedMessages
  <2>2. msgs' = new /\ lateText' = lateText /\ chat' = chat
    BY <1>2, <1>4
  <2> HIDE DEF new
  <2>. QED
    BY <1>1, <1>4, <2>1, <2>2 DEF IInv
<1>. QED
  BY <1>3, <1>4

LEMMA DeletedInv ==
  ASSUME IInv, MessageDeleted
  PROVE  IInv'
<1> DEFINE gone == Id(Len(msgs), "text")
           r == RemoveMessage(chat, gone)
           d == [r EXCEPT !.ticks = @ \ {gone}]
           e == [chat EXCEPT !.ticks = @ \ {gone}]
           new == SubSeq(msgs, 1, Len(msgs) - 1)
<1>1. /\ msgs # <<>> /\ msgs[Len(msgs)].role = "assistant"
      /\ msgs[Len(msgs)].finish = "no" /\ msgs[Len(msgs)].tool = "none"
      /\ session' = session /\ lateText' = lateText /\ msgs' = new
  BY DEF MessageDeleted, Unfinished, Current, Number
<1>2. chat' = LET c == IF session = "this" THEN r ELSE chat
              IN [c EXCEPT !.ticks = @ \ {gone}]
  BY DEF MessageDeleted, Number
<1>3. CASE session = "this"
  <2>1. Shown(d, new, lateText)
    BY <1>1, <1>3, ShownInv, DeletedGood
  <2>2. chat' = d
    BY <1>2, <1>3, Zenon
  <2> HIDE DEF d, new
  <2>3. Shown(chat', msgs', lateText')
    BY <1>1, <2>1, <2>2
  <2>. QED
    BY <1>1, <1>3, <2>3, InvShown
<1>4. CASE session # "this"
  <2>1. MsgsOK(new)
    BY <1>1, DeletedMessages DEF IInv
  <2>2. Good(chat) /\ chat.items = <<>> /\ lateText = {}
    BY <1>4 DEF IInv
  <2>3. gone \notin Ids(chat)
    BY <2>2, BuiltNone
  <2>4. Good(e) /\ e.items = <<>>
    BY <2>2, <2>3, TicksLess DEF Keeps
  <2>5. chat' = e
    BY <1>2, <1>4, Zenon
  <2> HIDE DEF e, new
  <2>. QED
    BY <1>1, <1>4, <2>1, <2>2, <2>4, <2>5 DEF IInv
<1>. QED
  BY <1>3, <1>4

(* Switching sessions.                                                     *)
LEMMA LoadInv ==
  ASSUME IInv, LoadSession
  PROVE  IInv'
<1>0. msgs' = msgs /\ lateText' = {} /\ Good(chat) /\ MsgsOK(msgs)
  BY DEF LoadSession, IInv
<1>1. ASSUME NEW then \in ViewHeight, NEW rows \in TextHeight,
             chat' = SetSize(setSessionMessages(chat, AllItems(rows)), then),
             session' = "this"
      PROVE  IInv'
  <2> DEFINE all == AllItems(rows)
             c == setSessionMessages(chat, all)
             d == SetSize(c, then)
  <2>1. /\ all \in Items /\ Distinct(all)
        /\ \A x : x \in ElemsOf(all) <=>
               \E n \in 1 .. Len(msgs) : \E p \in Part :
                   Has(msgs[n], p) /\ x = Item(n, msgs[n], p, rows)
    BY <1>0, AllIs
  <2> HIDE DEF all
  <2>2. Good(c) /\ c.items = all
    BY <1>0, <2>1, LoadGood
  <2> HIDE DEF c
  <2>3. Good(d) /\ d.items = all
    BY <2>2, SetSizeGood DEF Keeps
  <2>4. chat' = d
    BY <1>1 DEF c, all
  <2> HIDE DEF d
  <2>5. Built(d, msgs, {})
    BY <1>0, <2>1, <2>3, BuiltIs
  <2>. QED
    BY <1>0, <1>1, <2>3, <2>4, <2>5 DEF IInv
<1>2. ASSUME NEW then \in ViewHeight,
             chat' = SetSize(setSessionMessages(chat, <<>>), then),
             session' = "other"
      PROVE  IInv'
  <2> DEFINE all == <<>>
             c == setSessionMessages(chat, all)
             d == SetSize(c, then)
  <2>1. all \in Items /\ Distinct(all)
    BY NoneIs
  <2> HIDE DEF all
  <2>2. Good(c) /\ c.items = all
    BY <1>0, <2>1, LoadGood
  <2> HIDE DEF c
  <2>3. Good(d) /\ d.items = all
    BY <2>2, SetSizeGood DEF Keeps
  <2>4. chat' = d
    BY <1>2 DEF c, all
  <2> HIDE DEF d
  <2>. QED
    BY <1>0, <1>2, <2>3, <2>4 DEF IInv, all
<1>. QED
  BY <1>1, <1>2 DEF LoadSession

LEMMA NewInv ==
  ASSUME IInv, newSession
  PROVE  IInv' /\ chat'.items = <<>>
<1>1. PICK then \in ViewHeight : chat' = ClearMessages(SetSize(chat, then))
  BY DEF newSession
<1>2. Good(SetSize(chat, then))
  BY SetSizeGood DEF IInv, Keeps
<1>3. Good(chat') /\ chat'.items = <<>>
  BY <1>1, <1>2, ClearGood
<1>4. msgs' = msgs /\ session' = "none" /\ lateText' = {}
  BY DEF newSession
<1>. QED
  BY <1>3, <1>4 DEF IInv

LEMMA StepInv == IInv /\ [Next]_vars => IInv'
<1> SUFFICES ASSUME IInv, [Next]_vars PROVE IInv'
  OBVIOUS
<1>0. Good(chat) /\ (session = "none" => chat.items = <<>>)
  BY DEF IInv
<1>1. CASE Event
  BY <1>0, <1>1, CreatedInv, UpdatedInv, DeletedInv, ResultSettles, ViewInv DEF Event
<1>2. CASE Scrolling
  BY <1>0, <1>2, ScrollingSettles, ViewInv
<1>3. CASE Paging
  BY <1>0, <1>3, PagingSettles, ViewInv
<1>4. CASE Pointing
  BY <1>0, <1>4, PointingKeeps, ViewInv
<1>5. CASE Layout
  BY <1>0, <1>5, LayoutKeeps, ViewInv
<1>6. CASE Tick
  BY <1>0, <1>6, TickSettles, ViewInv
<1>7. CASE LoadSession
  BY <1>7, LoadInv
<1>8. CASE newSession
  BY <1>8, NewInv
<1>9. CASE UNCHANGED vars
  BY <1>9 DEF vars, IInv
<1>. QED
  BY <1>1, <1>2, <1>3, <1>4, <1>5, <1>6, <1>7, <1>8, <1>9 DEF Next

-----------------------------------------------------------------------------
(* Theorems.                                                               *)

(* In every state the chat is as the invariant says: its index finds every *)
(* item, the view begins in the list, and the items are those of what is   *)
(* stored (chat.go over list.go, and the handlers of ui.go).               *)
THEOREM InductiveInvariant == Spec => []IInv
<1>. QED
  BY InitInv, StepInv, PTL DEF Spec

(* The view always begins inside the list, at or below the first row of an *)
(* item, and what is selected is there (list.go:29-31).                    *)
THEOREM TypeCorrect == Spec => []TypeOK
<1>1. IInv => TypeOK
  <2> SUFFICES ASSUME IInv PROVE TypeOK
    OBVIOUS
  <2>1. chat \in Chats /\ Begins(chat) /\ chat.height \in ViewHeight
    BY DEF IInv, Good
  <2>. QED
    BY <2>1, ChatIs DEF TypeOK, Begins, IInv
<1>. QED
  BY <1>1, InductiveInvariant, PTL

(* Scrolling moves the view by as many rows as were asked for, whatever    *)
(* the heights of the items, the gap and the view (list.go:184-244).       *)
THEOREM ScrollIsExact == Spec => []ScrollMovesExactly
<1>1. IInv => ScrollMovesExactly
  <2> SUFFICES ASSUME IInv, chat.items # <<>>, Position(chat) <= MaxPosition(chat),
                      NEW n \in Distances(chat)
               PROVE  /\ Position(ListBy(chat, n))
                           = Min({MaxPosition(chat), Snap(chat, Position(chat) + n)})
                      /\ Position(ListBy(chat, -n)) = AtLeastZero(Position(chat) - n)
    BY DEF ScrollMovesExactly
  <2>1. Placed(chat) /\ chat.height \in Nat
    BY GoodIs DEF IInv
  <2>2. n \in Nat \ {0}
    BY <2>1, HeightsPositive DEF Distances
  <2>. QED
    BY <2>1, <2>2, ScrollDown, ScrollUp
<1>. QED
  BY <1>1, InductiveInvariant, PTL

(* A click hits the item that is drawn in its row, and nothing where a gap *)
(* or no item is (list.go:618-650 against 278-336).                        *)
THEOREM ClicksHit == Spec => []ClickHitsWhatIsShown
<1>1. IInv => ClickHitsWhatIsShown
  <2> SUFFICES ASSUME IInv, chat.items # <<>>,
                      chat.offsetLine <= HeightAt(chat, chat.offsetIdx) + gap,
                      NEW y \in 0 .. chat.height - 1
               PROVE  findItemAtY(chat, y)
                        = IF y + 1 \in DOMAIN Render(chat) THEN Render(chat)[y + 1]
                          ELSE -1
    BY DEF ClickHitsWhatIsShown
  <2>1. Placed(chat)
    BY GoodIs DEF IInv
  <2>. QED
    BY <2>1, ClickIs
<1>. QED
  BY <1>1, InductiveInvariant, PTL

LEMMA StoredIdsAre ==
  ASSUME MsgsOK(msgs), NEW late
  PROVE  StoredIds \ {Id(n, "text") : n \in late}
           = {id \in StoredOf(msgs) : ~Late(id, late)}
<1>1. \A n \in 1 .. Len(msgs) : n \in Nat
  BY MessagesAre
<1>2. ASSUME NEW id \in StoredIds
      PROVE  id \in StoredOf(msgs)
  <2>1. PICK n \in 1 .. Len(msgs), p \in Part : id = Id(n, p) /\ Has(msgs[n], p)
    BY MessagesAre, HasText, PartsAre DEF StoredIds
  <2>. QED
    BY <1>1, <2>1, IdIs DEF StoredOf
<1>3. ASSUME NEW id \in StoredOf(msgs)
      PROVE  id \in StoredIds
  <2>1. /\ id \in ItemId /\ id.msg \in DOMAIN msgs /\ Has(msgs[id.msg], id.part)
        /\ id.msg \in Nat /\ id.part \in Part
    BY MessagesAre DEF StoredOf, ItemId
  <2>2. id = Id(id.msg, id.part)
    BY <2>1, IdIs
  <2>3. CASE id.part = "text"
    BY <2>1, <2>2, <2>3, HasText DEF StoredIds
  <2>4. CASE id.part = "tool"
    BY <2>1, <2>2, <2>4, HasText DEF StoredIds
  <2>5. CASE id.part = "info"
    BY <2>1, <2>2, <2>5, HasText DEF StoredIds
  <2>. QED
    BY <2>1, <2>3, <2>4, <2>5 DEF Part
<1>4. ASSUME NEW id \in StoredOf(msgs)
      PROVE  id \in {Id(n, "text") : n \in late} <=> Late(id, late)
  <2>1. id \in ItemId /\ id.msg \in Nat
    BY DEF StoredOf, ItemId
  <2>2. \A n : Id(n, "text").msg = n /\ Id(n, "text").part = "text"
    BY DEF Id
  <2>3. id.part = "text" => id = Id(id.msg, "text")
    BY <2>1, IdIs, PartsAre
  <2>. QED
    BY <2>2, <2>3 DEF Late
<1>. QED
  BY <1>2, <1>3, <1>4

(* What the chat built from events is what loading the session would       *)
(* build, each item once and found by the index (ui.go:920-970 against     *)
(* 1030-1187).                                                             *)
THEOREM ShownItemsAreStored == Spec => []ShownIsStored
<1>1. IInv => ShownIsStored
  <2> SUFFICES ASSUME IInv, session = "this"
               PROVE  /\ IsInjective([i \in DOMAIN chat.items |-> chat.items[i].id])
                      /\ {chat.items[i].id : i \in DOMAIN chat.items}
                           = StoredIds \ {Id(n, "text") : n \in lateText}
                      /\ chat.idInxMap = IndexOf(chat.items)
    BY DEF ShownIsStored
  <2>1. /\ chat.items \in Items /\ Indexed(chat) /\ chat.idInxMap \in Index
        /\ Built(chat, msgs, lateText) /\ MsgsOK(msgs)
        /\ DOMAIN chat.items = 1 .. Len(chat.items)
    BY GoodIs, ChatIs DEF IInv, Good
  <2>2. Distinct(chat.items) /\ Ids(chat) = IdsOf(chat.items)
    BY <2>1, TurningIs
  <2>3. IsInjective([i \in DOMAIN chat.items |-> chat.items[i].id])
    BY <2>2 DEF IsInjective, Distinct
  <2>4. Ids(chat) = StoredIds \ {Id(n, "text") : n \in lateText}
    BY <2>1, StoredIdsAre DEF Built
  <2>5. chat.idInxMap = IndexOf(chat.items)
    <3> DEFINE f == chat.idInxMap
               g == IndexOf(chat.items)
    <3>1. /\ g \in Index /\ DOMAIN g = IdsOf(chat.items)
          /\ \A k \in 1 .. Len(chat.items) : g[chat.items[k].id] = k - 1
      BY <2>1, <2>2, IndexOfIs
    <3>2. /\ f \in Index /\ DOMAIN f = IdsOf(chat.items)
          /\ \A k \in 1 .. Len(chat.items) : f[chat.items[k].id] = k - 1
      BY <2>1, <2>2 DEF Indexed
    <3> HIDE DEF f, g
    <3>3. \A id \in IdsOf(chat.items) : f[id] = g[id]
      BY <2>1, <3>1, <3>2 DEF IdsOf
    <3>4. f \in [IdsOf(chat.items) -> Nat] /\ g \in [IdsOf(chat.items) -> Nat]
      BY <3>1, <3>2 DEF Index
    <3>5. f = g
      BY <3>3, <3>4
    <3>. QED
      BY <3>5 DEF f, g
  <2>. QED
    BY <2>3, <2>4, <2>5 DEF Ids
<1>. QED
  BY <1>1, InductiveInvariant, PTL

(* No spinner is ever forgotten: one that turns has a tick under way or    *)
(* is remembered as paused (chat.go:183-246).                              *)
THEOREM SpinnersKeepTurning == Spec => []SpinnersTurn
<1>1. IInv => SpinnersTurn
  <2> SUFFICES ASSUME IInv PROVE SpinnersTurn
    OBVIOUS
  <2>1. Turning(chat) /\ DOMAIN chat.items = 1 .. Len(chat.items)
    BY GoodIs DEF IInv, Good
  <2>. QED
    BY <2>1 DEF SpinnersTurn, Spinning, Turning
<1>. QED
  BY <1>1, InductiveInvariant, PTL

LEMMA AtTheEndIs ==
  /\ AtTheEnd <=> Ends(chat)
  /\ AtTheEnd' <=> Ends(chat')
  BY DEF AtTheEnd, Ends, EndShown

LEMMA RepairsEnd ==
  ASSUME IInv, Repairs
  PROVE  Ends(chat')
<1>1. session = "this" /\ Good(chat)
  BY DEF IInv, Repairs
<1>. QED
  BY <1>1, TickSettles, CreatedInv, UpdatedInv, ResultSettles DEF Repairs

LEMMA EndKept ==
  ASSUME IInv, [Next]_vars, Ends(chat), ~Loosens
  PROVE  Ends(chat')
<1>0. Good(chat) /\ (session = "none" => chat.items = <<>>)
  BY DEF IInv
<1>1. CASE MessageCreated
  <2>1. session # "this" => chat' = chat
    BY <1>1 DEF MessageCreated, Shows
  <2>. QED
    BY <1>1, <2>1, CreatedInv
<1>2. CASE MessageUpdated
  <2>1. session # "this" => chat' = chat
    BY <1>2 DEF MessageUpdated, Shows
  <2>. QED
    BY <1>2, <2>1, UpdatedInv
<1>3. CASE ToolResult
  BY <1>0, <1>3, ResultSettles
<1>4. CASE Scrolling
  BY <1>0, <1>4, ScrollingSettles
<1>5. CASE Paging
  BY <1>0, <1>5, PagingSettles
<1>6. CASE HandleMouseDown
  BY <1>0, <1>6, MouseKeeps
<1>7. CASE Resize \/ togglePillsExpanded
  BY <1>0, <1>7, LayoutKeeps DEF Layout
<1>8. CASE Tick
  BY <1>0, <1>8, TickSettles
<1>9. CASE newSession
  BY <1>9, NewInv, EmptyShown DEF Ends
<1>10. CASE UNCHANGED vars
  BY <1>10 DEF vars
<1>. QED
  BY <1>1, <1>2, <1>3, <1>4, <1>5, <1>6, <1>7, <1>8, <1>9, <1>10
     DEF Next, Event, Pointing, Layout, Loosens

(* A chat that follows the conversation shows its end after every step but *)
(* the few that are named, and after every event or tick of the session on *)
(* screen (chat.go:265-297, ui.go:670-677, 813-823, 1030-1187).            *)
THEOREM EndIsKept == Spec => EndStaysInView
<1>1. IInv /\ [Next]_vars =>
        [\/ AtTheEnd'
         \/ ~AtTheEnd /\ ~Repairs
         \/ Loosens]_vars
  BY AtTheEndIs, RepairsEnd, EndKept
<1>. QED
  BY <1>1, InductiveInvariant, PTL DEF Spec, EndStaysInView

=============================================================================
