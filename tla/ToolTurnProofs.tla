--------------------------- MODULE ToolTurnProofs ---------------------------
(***************************************************************************)
(* Proofs about ToolTurn, for any tools, inputs, patches and hooks, for    *)
(* any answers of the hooks, and for any window, number of repetitions and *)
(* of steps: the verdict on a call is what the configuration declares in   *)
(* whatever order the hooks end, a tool runs only as it was decided, and   *)
(* the turn stops exactly when it should.                                  *)
(*                                                                         *)
(* The argument.  A verdict is the sum of what the hooks of the call have  *)
(* said (Judged), and the results do not change once it is given; whoever  *)
(* asks or runs has been let through by it (LetThrough).  Every command    *)
(* runs from one place, so a sum over places is a sum over commands.       *)
(*                                                                         *)
(* The sum and the counts of loop detection are folds, that is, recursive  *)
(* functions.  That such a function exists is shown by induction on the    *)
(* places it runs over (FoldExists), and what it computes by induction on  *)
(* its rounds (AggregateIsSum, CountLoop); the induction is that every set *)
(* of naturals has a least element (LeastOf).                              *)
(***************************************************************************)
EXTENDS ToolTurn, FunctionTheorems, FiniteSetTheorems, WellFoundedInduction, TLAPS

-----------------------------------------------------------------------------
(* Induction.                                                              *)

(* A set of naturals has a least element.                                  *)
LEMMA LeastOf ==
  ASSUME NEW T, T \subseteq Nat, T # {}
  PROVE  \E n \in T : \A m \in T : n <= m
<1> DEFINE R == OpToRel(<, Nat)
<1>1. IsWellFoundedOn(R, Nat)
  BY NatLessThanWellFounded
<1>2. \A x \in Nat, y \in Nat : x < y => <<x, y>> \in R
  BY Zenon DEF OpToRel
<1> HIDE DEF R
<1>3. PICK x \in T : \A y \in T : <<y, x>> \notin R
  BY <1>1, WFMin
<1>4. \A y \in T : ~(y < x)
  BY <1>2, <1>3
<1>. QED
  BY <1>3, <1>4

(* A set with 0 that has the successor of each of its members has them all. *)
LEMMA Induction ==
  ASSUME NEW T, 0 \in T, \A n \in Nat : n \in T => n + 1 \in T
  PROVE  \A n \in Nat : n \in T
<1> SUFFICES ASSUME NEW n \in Nat, n \notin T PROVE FALSE
  OBVIOUS
<1> DEFINE Out == {k \in Nat : k \notin T}
<1>1. PICK m \in Out : \A k \in Out : m <= k
  BY LeastOf
<1>2. m # 0 /\ m - 1 \in Nat
  OBVIOUS
<1>3. m - 1 \in T
  BY <1>1, <1>2
<1>. QED
  BY <1>1, <1>2, <1>3

(* The last of some places.                                                *)
LEMMA MaxIs ==
  ASSUME NEW S, S \subseteq Nat, NEW n \in S, \A i \in S : i <= n
  PROVE  InConfigOrder(S) = n
<1>1. n \in S /\ \A y \in S : n >= y
  OBVIOUS
<1>2. \A x \in S : (\A y \in S : x >= y) => x = n
  OBVIOUS
<1>3. Max(S) \in S /\ \A y \in S : Max(S) >= y
  BY <1>1, Zenon DEF Max
<1>. QED
  BY <1>2, <1>3 DEF InConfigOrder

-----------------------------------------------------------------------------
(* The two loops: over the results of hooks, and over the steps of a       *)
(* window.                                                                 *)

Start(input) == [decision |-> "none", halt |-> FALSE, input |-> input]
Uncounted == [x \in {} |-> 0]

Round(loop, acc, x) == IF loop = "hooks" THEN Add(acc, x) ELSE Counted(acc, x)

(* g has what the loop has made of each set of places in w.                *)
Folds(g, loop, w, S, start) ==
    g = [s \in SUBSET S |->
            IF s = {} THEN start
            ELSE Round(loop, g[s \ {InConfigOrder(s)}], w[InConfigOrder(s)])]

(* The two as the library's fold has them.                                 *)
HookFold(g, S, input) ==
    g = [s \in SUBSET S |->
            IF s = {} THEN Start(input)
            ELSE Add(g[s \ {InConfigOrder(s)}], results[InConfigOrder(s)])]
StepFold(g, w) ==
    g = [s \in SUBSET (DOMAIN w) |->
            IF s = {} THEN Uncounted
            ELSE Counted(g[s \ {InConfigOrder(s)}], w[InConfigOrder(s)])]

(* Both are the one recursion Folds, so it is enough to reason about that. *)
LEMMA HookFoldIs ==
  \A g, S, input : HookFold(g, S, input) <=> Folds(g, "hooks", results, S, Start(input))
<1>1. \A acc, x : Round("hooks", acc, x) = Add(acc, x)
  BY Zenon DEF Round
<1>. QED
  BY <1>1, SMT DEF HookFold, Folds

LEMMA StepFoldIs ==
  \A g, w : StepFold(g, w) <=> Folds(g, "steps", w, DOMAIN w, Uncounted)
<1>1. \A acc, x : Round("steps", acc, x) = Counted(acc, x)
  BY DEF Round
<1>. QED
  BY <1>1, SMT DEF StepFold, Folds

LEMMA AggregateIsFold ==
  \A input : aggregate(input) = (CHOOSE g : HookFold(g, running, input))[running]
  BY Zenon DEF aggregate, MapThenFoldSet, HookFold, Start

LEMMA CountsAreFold ==
  \A w : FoldLeft(Counted, Uncounted, w) = (CHOOSE g : StepFold(g, w))[DOMAIN w]
  BY Zenon DEF FoldLeft, MapThenFoldSet, StepFold, InConfigOrder

(* What is known for the places up to n extends to the next place.         *)
LEMMA FoldGrows ==
  ASSUME NEW n \in Nat, NEW S \in SUBSET (1 .. n), NEW loop, NEW w,
         NEW start, NEW g, Folds(g, loop, w, S, start)
  PROVE  \E h : Folds(h, loop, w, S \union {n + 1}, start)
<1> DEFINE U == S \union {n + 1}
           h == [s \in SUBSET U |->
                    IF n + 1 \in s THEN Round(loop, g[s \ {n + 1}], w[n + 1])
                    ELSE g[s]]
<1>1. ASSUME NEW s \in SUBSET U
      PROVE  h[s] = IF s = {} THEN start
                    ELSE Round(loop, h[s \ {InConfigOrder(s)}], w[InConfigOrder(s)])
  <2>1. CASE n + 1 \in s
    <3>1. InConfigOrder(s) = n + 1
      <4>1. s \subseteq Nat /\ \A i \in s : i <= n + 1
        OBVIOUS
      <4>. QED
        BY <2>1, <4>1, MaxIs
    <3>2. s \ {n + 1} \in SUBSET U /\ n + 1 \notin s \ {n + 1}
      OBVIOUS
    <3>3. h[s \ {n + 1}] = g[s \ {n + 1}]
      BY <3>2, Zenon
    <3>4. h[s] = Round(loop, g[s \ {n + 1}], w[n + 1])
      BY <2>1, Zenon
    <3>. QED
      BY <2>1, <3>1, <3>3, <3>4, Zenon
  <2>2. CASE n + 1 \notin s
    <3>1. s \in SUBSET S /\ h[s] = g[s]
      BY <2>2
    <3>2. g[s] = IF s = {} THEN start
                 ELSE Round(loop, g[s \ {InConfigOrder(s)}], w[InConfigOrder(s)])
      BY <3>1, Zenon DEF Folds
    <3>3. h[s \ {InConfigOrder(s)}] = g[s \ {InConfigOrder(s)}]
      BY <2>2, Zenon
    <3>. QED
      BY <3>1, <3>2, <3>3, Zenon
  <2>. QED
    BY <2>1, <2>2
<1>2. Folds(h, loop, w, U, start)
  BY <1>1, Zenon DEF Folds
<1>. QED
  BY <1>2, Zenon

(* The recursive function exists.                                          *)
LEMMA FoldExists ==
  ASSUME NEW loop, NEW w, NEW start
  PROVE  \A n \in Nat : \A S \in SUBSET (1 .. n) : \E g : Folds(g, loop, w, S, start)
<1> DEFINE T == {n \in Nat : \A S \in SUBSET (1 .. n) : \E g : Folds(g, loop, w, S, start)}
<1>1. 0 \in T
  <2>1. Folds([s \in SUBSET {} |-> start], loop, w, {}, start)
    BY Zenon DEF Folds
  <2>2. \A S \in SUBSET (1 .. 0) : S = {}
    OBVIOUS
  <2>. QED
    BY <2>1, <2>2
<1>2. ASSUME NEW n \in Nat, n \in T PROVE n + 1 \in T
  <2>1. ASSUME NEW S \in SUBSET (1 .. n + 1) PROVE \E g : Folds(g, loop, w, S, start)
    <3>1. S \ {n + 1} \in SUBSET (1 .. n)
      OBVIOUS
    <3>2. PICK g : Folds(g, loop, w, S \ {n + 1}, start)
      BY <1>2, <3>1
    <3>3. CASE n + 1 \in S
      <4>1. S = (S \ {n + 1}) \union {n + 1}
        BY <3>3
      <4>2. \E h : Folds(h, loop, w, (S \ {n + 1}) \union {n + 1}, start)
        BY <3>1, <3>2, FoldGrows
      <4>. QED
        BY <4>1, <4>2, Zenon
    <3>4. CASE n + 1 \notin S
      <4>1. S = S \ {n + 1}
        BY <3>4
      <4>. QED
        BY <3>2, <4>1, Zenon
    <3>. QED
      BY <3>3, <3>4
  <2>. QED
    BY <2>1
<1> HIDE DEF T
<1>3. \A n \in Nat : n \in T
  BY <1>1, <1>2, Induction
<1>. QED
  BY <1>3 DEF T

(* The loop as a sequence of rounds.                                       *)
LEMMA FoldStarts ==
  ASSUME NEW S, NEW loop, NEW w, NEW start, NEW g, Folds(g, loop, w, S, start)
  PROVE  g[{}] = start
  BY DEF Folds

LEMMA FoldRounds ==
  ASSUME NEW n \in Nat, NEW S \in SUBSET Nat, n + 1 \in S, NEW loop, NEW w,
         NEW start, NEW g, Folds(g, loop, w, S, start)
  PROVE  g[S \intersect (1 .. n + 1)]
           = Round(loop, g[S \intersect (1 .. n)], w[n + 1])
<1> DEFINE P == S \intersect (1 .. n)
           Q == S \intersect (1 .. n + 1)
<1>1. \A s \in SUBSET S :
         g[s] = IF s = {} THEN start
                ELSE Round(loop, g[s \ {InConfigOrder(s)}], w[InConfigOrder(s)])
  BY Zenon DEF Folds
<1>2. Q \in SUBSET S /\ Q # {} /\ Q \ {n + 1} = P
  OBVIOUS
<1>3. InConfigOrder(Q) = n + 1
  <2>1. Q \subseteq Nat /\ n + 1 \in Q /\ \A i \in Q : i <= n + 1
    OBVIOUS
  <2>. QED
    BY <2>1, MaxIs
<1>. QED
  BY <1>1, <1>2, <1>3, Zenon

-----------------------------------------------------------------------------
(* What the aggregation of the results at some places is.                  *)

Patching(S, input) == {i \in S : Applies(input, results[i].updatedInput)}
Patched(i) == DOMAIN results[i].updatedInput

(* The key has the value of the last patch that sets it.                   *)
LastPatch(k, val, P) ==
    \E i \in P : /\ k \in Patched(i) /\ val = results[i].updatedInput[k]
                 /\ \A j \in P : k \in Patched(j) => j <= i

SummedInput(merged, S, input) ==
    LET P == Patching(S, input) IN
    /\ merged \in Object
    /\ DOMAIN merged = DOMAIN input \union UNION {Patched(i) : i \in P}
    /\ \A k \in DOMAIN merged :
          IF \A i \in P : k \notin Patched(i) THEN merged[k] = input[k]
          ELSE LastPatch(k, merged[k], P)

Summed(agg, S, input) ==
    /\ agg \in AggregateResult
    /\ agg.decision =
          IF \E i \in S : results[i].decision = "deny" THEN "deny"
          ELSE IF \E i \in S : results[i].decision = "allow" THEN "allow"
          ELSE "none"
    /\ agg.halt = (\E i \in S : results[i].halt)
    /\ input = NotObject => agg.input = NotObject
    /\ input # NotObject => SummedInput(agg.input, S, input)

(* Objects.                                                                *)
LEMMA ObjectFacts ==
  ASSUME NEW a \in Object
  PROVE  /\ a \notin {NotObject, NoPatch}
         /\ DOMAIN a \subseteq Key /\ a = [k \in DOMAIN a |-> a[k]]
         /\ \A k \in DOMAIN a : a[k] \in Value
<1>1. PICK keys \in SUBSET Key : a \in [keys -> Value]
  BY DEF Object
<1>. QED
  BY <1>1, NotAnObject

LEMMA IsObject ==
  ASSUME NEW a, DOMAIN a \subseteq Key, a = [k \in DOMAIN a |-> a[k]],
         \A k \in DOMAIN a : a[k] \in Value
  PROVE  a \in Object
<1>1. a \in [DOMAIN a -> Value]
  OBVIOUS
<1>. QED
  BY <1>1 DEF Object

LEMMA OverlayFacts ==
  ASSUME NEW a \in Object, NEW b \in Object
  PROVE  /\ Overlay(a, b) \in Object
         /\ DOMAIN Overlay(a, b) = DOMAIN a \union DOMAIN b
         /\ \A k \in DOMAIN a \union DOMAIN b :
               Overlay(a, b)[k] = IF k \in DOMAIN b THEN b[k] ELSE a[k]
<1> DEFINE c == Overlay(a, b)
<1>1. /\ DOMAIN c = DOMAIN a \union DOMAIN b
      /\ \A k \in DOMAIN c : c[k] = IF k \in DOMAIN b THEN b[k] ELSE a[k]
      /\ c = [k \in DOMAIN c |-> c[k]]
  BY Zenon DEF Overlay
<1>2. DOMAIN c \subseteq Key /\ \A k \in DOMAIN c : c[k] \in Value
  BY <1>1, ObjectFacts
<1>. QED
  BY <1>1, <1>2, IsObject

(* A patch that applies is an object.                                      *)
LEMMA PatchIsObject ==
  ASSUME NEW r \in HookResult, NEW input, Applies(input, r.updatedInput)
  PROVE  r.updatedInput \in Object
<1>1. r.updatedInput \in Patch
  BY DEF HookResult
<1>. QED
  BY <1>1, Inputs DEF Applies

(* One round adds one result to the sum.                                   *)
LEMMA StartIsSummed ==
  ASSUME NEW input \in Input PROVE Summed(Start(input), {}, input)
<1>1. input \in Object \union {NotObject}
  BY Inputs
<1>2. Start(input) \in AggregateResult
  BY <1>1 DEF Start, AggregateResult, Decision
<1>3. /\ Start(input).decision = "none"
      /\ Start(input).halt = FALSE
      /\ Start(input).input = input
  BY Zenon DEF Start
<1>4. input # NotObject => SummedInput(input, {}, input)
  BY <1>1 DEF SummedInput, Patching
<1>. QED
  BY <1>2, <1>3, <1>4, Zenon DEF Summed

LEMMA AddKeepsSum ==
  ASSUME NEW n \in Nat, NEW S \in SUBSET (1 .. n), NEW input \in Input,
         NEW agg, Summed(agg, S, input), results[n + 1] \in HookResult,
         \A i \in S : results[i] \in HookResult
  PROVE  Summed(Add(agg, results[n + 1]), S \union {n + 1}, input)
<1> DEFINE r == results[n + 1]
           new == Add(agg, r)
           U == S \union {n + 1}
           P == Patching(S, input)
           Q == Patching(U, input)
<1>1. /\ r.decision \in Decision /\ r.halt \in BOOLEAN
      /\ agg.decision \in Decision /\ agg.halt \in BOOLEAN
      /\ agg.input \in Object \union {NotObject}
      /\ input \in Object \union {NotObject}
  BY Inputs DEF HookResult, Summed, AggregateResult
<1>2. /\ new.decision = Decide(agg.decision, r)
      /\ new.halt = (agg.halt \/ r.halt)
      /\ new.input = IF Applies(agg.input, r.updatedInput)
                     THEN Overlay(agg.input, r.updatedInput) ELSE agg.input
      /\ new = [decision |-> new.decision, halt |-> new.halt, input |-> new.input]
  BY Zenon DEF Add
<1>3. /\ new.decision \in Decision
      /\ new.decision = IF \E i \in U : results[i].decision = "deny" THEN "deny"
                        ELSE IF \E i \in U : results[i].decision = "allow" THEN "allow"
                        ELSE "none"
  BY <1>1, <1>2 DEF Decide, Decision, Summed
<1>4. new.halt = (\E i \in U : results[i].halt)
  BY <1>2, Zenon DEF Summed
<1>5. new.halt \in BOOLEAN
  BY <1>4
<1>6. agg.input = NotObject <=> input = NotObject
  BY ObjectFacts DEF Summed, SummedInput
<1>7. Applies(agg.input, r.updatedInput) <=> Applies(input, r.updatedInput)
  BY <1>6 DEF Applies
<1>8. input = NotObject => new.input = NotObject
  BY <1>2, <1>6, <1>7 DEF Applies
<1>9. ASSUME input # NotObject PROVE SummedInput(new.input, U, input)
  <2>1. SummedInput(agg.input, S, input) /\ agg.input \in Object
    BY <1>9 DEF Summed, SummedInput
  <2>2. CASE ~Applies(input, r.updatedInput)
    <3>1. new.input = agg.input
      BY <1>2, <1>7, <2>2
    <3>2. Q = P
      BY <2>2 DEF Patching
    <3>. QED
      BY <2>1, <3>1, <3>2 DEF SummedInput
  <2>3. CASE Applies(input, r.updatedInput)
    <3>1. r.updatedInput \in Object
      BY <2>3, PatchIsObject
    <3>2. new.input = Overlay(agg.input, r.updatedInput)
      BY <1>2, <1>7, <2>3
    <3>3. /\ new.input \in Object
          /\ DOMAIN new.input = DOMAIN agg.input \union Patched(n + 1)
          /\ \A k \in DOMAIN new.input :
                new.input[k] = IF k \in Patched(n + 1) THEN r.updatedInput[k]
                               ELSE agg.input[k]
      <4>1. Patched(n + 1) = DOMAIN r.updatedInput
        BY Zenon DEF Patched
      <4> HIDE DEF new, r
      <4>2. /\ new.input \in Object
            /\ DOMAIN new.input = DOMAIN agg.input \union DOMAIN r.updatedInput
            /\ \A k \in DOMAIN agg.input \union DOMAIN r.updatedInput :
                  new.input[k] = IF k \in DOMAIN r.updatedInput
                                 THEN r.updatedInput[k] ELSE agg.input[k]
        <5>1. PICK a \in Object : a = agg.input
          BY <2>1
        <5>2. PICK b \in Object : b = r.updatedInput
          BY <3>1
        <5>3. new.input = Overlay(a, b)
          BY <3>2, <5>1, <5>2
        <5>4. Overlay(a, b) \in Object /\ DOMAIN Overlay(a, b) = DOMAIN a \union DOMAIN b
          BY OverlayFacts
        <5>5. \A k \in DOMAIN a \union DOMAIN b :
                 Overlay(a, b)[k] = IF k \in DOMAIN b THEN b[k] ELSE a[k]
          BY Zenon DEF Overlay
        <5>. QED
          BY <5>1, <5>2, <5>3, <5>4, <5>5, Zenon
      <4>. QED
        BY <4>1, <4>2, Zenon
    <3>4. Q = P \union {n + 1} /\ P \subseteq 1 .. n
      BY <2>3 DEF Patching
    <3>5. /\ DOMAIN agg.input = DOMAIN input \union UNION {Patched(i) : i \in P}
          /\ \A k \in DOMAIN agg.input :
                IF \A i \in P : k \notin Patched(i) THEN agg.input[k] = input[k]
                ELSE LastPatch(k, agg.input[k], P)
      BY <2>1 DEF SummedInput
    <3> HIDE DEF P, Q, new, r
    <3>6. DOMAIN new.input = DOMAIN input \union UNION {Patched(i) : i \in Q}
      BY <3>3, <3>4, <3>5
    <3>7. ASSUME NEW k \in DOMAIN new.input
          PROVE  IF \A i \in Q : k \notin Patched(i) THEN new.input[k] = input[k]
                 ELSE LastPatch(k, new.input[k], Q)
      <4>1. CASE k \in Patched(n + 1)
        <5>1. /\ n + 1 \in Q /\ new.input[k] = results[n + 1].updatedInput[k]
              /\ \A j \in Q : j <= n + 1
          BY <3>3, <3>4, <4>1 DEF r
        <5>2. LastPatch(k, new.input[k], Q)
          BY <4>1, <5>1, Zenon DEF LastPatch
        <5>. QED
          BY <4>1, <5>1, <5>2, Zenon
      <4>2. CASE k \notin Patched(n + 1)
        <5>1. k \in DOMAIN agg.input /\ new.input[k] = agg.input[k]
          BY <3>3, <4>2
        <5>2. CASE \A i \in P : k \notin Patched(i)
          <6>1. \A i \in Q : k \notin Patched(i)
            BY <3>4, <4>2, <5>2
          <6>. QED
            BY <3>5, <5>1, <5>2, <6>1, Zenon
        <5>3. CASE ~\A i \in P : k \notin Patched(i)
          <6>1. LastPatch(k, agg.input[k], P)
            BY <3>5, <5>1, <5>3, Zenon
          <6>2. LastPatch(k, new.input[k], Q)
            BY <3>4, <4>2, <5>1, <6>1, Zenon DEF LastPatch
          <6>. QED
            BY <3>4, <5>3, <6>2, Zenon
        <5>. QED
          BY <5>2, <5>3
      <4>. QED
        BY <4>1, <4>2
    <3>. QED
      BY <3>3, <3>6, <3>7, Zenon DEF SummedInput, Q
  <2>. QED
    BY <2>2, <2>3
<1>10. new.input \in Object \union {NotObject}
  BY <1>1, <1>8, <1>9 DEF SummedInput
<1>11. new \in AggregateResult
  <2> HIDE DEF new
  <2>1. \A d \in Decision, h \in BOOLEAN, m \in Object \union {NotObject} :
           [decision |-> d, halt |-> h, input |-> m] \in AggregateResult
    BY DEF AggregateResult
  <2>. QED
    BY <1>2, <1>3, <1>5, <1>10, <2>1, Zenon
<1>. QED
  BY <1>3, <1>4, <1>8, <1>9, <1>11, Zenon DEF Summed

(* The aggregated result is the sum of what the hooks said.                *)
LEMMA AggregateIsSum ==
  ASSUME NEW input \in Input, NEW N \in Nat, running \subseteq 1 .. N,
         \A i \in running : results[i] \in HookResult
  PROVE  Summed(aggregate(input), running, input)
<1> DEFINE g == CHOOSE g : HookFold(g, running, input)
<1>1. Folds(g, "hooks", results, running, Start(input))
  <2>1. \E h : Folds(h, "hooks", results, running, Start(input))
    BY FoldExists
  <2>2. \E h : HookFold(h, running, input)
    BY <2>1, HookFoldIs, Zenon
  <2>3. HookFold(g, running, input)
    BY <2>2, Zenon
  <2>. QED
    BY <2>3, HookFoldIs, Zenon
<1>2. aggregate(input) = g[running]
  BY AggregateIsFold, Zenon
<1> HIDE DEF g
<1> DEFINE Upto(n) == running \intersect (1 .. n)
           T == {n \in Nat : Summed(g[Upto(n)], Upto(n), input)}
<1>3. /\ g[Upto(0)] = Start(input) /\ Upto(0) = {}
      /\ \A n \in Nat :
            /\ n + 1 \in running => g[Upto(n + 1)] = Round("hooks", g[Upto(n)], results[n + 1])
            /\ n + 1 \in running => Upto(n + 1) = Upto(n) \union {n + 1}
            /\ n + 1 \notin running => Upto(n + 1) = Upto(n)
            /\ Upto(n) \in SUBSET (1 .. n) /\ Upto(n) \subseteq running
  <2>1. running \in SUBSET Nat
    OBVIOUS
  <2>2. g[Upto(0)] = Start(input)
    <3>1. Upto(0) = {}
      OBVIOUS
    <3>. QED
      BY <1>1, <3>1, FoldStarts
  <2>3. \A n \in Nat : n + 1 \in running =>
           g[Upto(n + 1)] = Round("hooks", g[Upto(n)], results[n + 1])
    <3>1. ASSUME NEW n \in Nat, n + 1 \in running
          PROVE  g[Upto(n + 1)] = Round("hooks", g[Upto(n)], results[n + 1])
      BY <1>1, <2>1, <3>1, FoldRounds
    <3>. QED
      BY <3>1
  <2>4. /\ Upto(0) = {}
        /\ \A n \in Nat :
              /\ n + 1 \in running => Upto(n + 1) = Upto(n) \union {n + 1}
              /\ n + 1 \notin running => Upto(n + 1) = Upto(n)
              /\ Upto(n) \in SUBSET (1 .. n) /\ Upto(n) \subseteq running
    OBVIOUS
  <2>. QED
    BY <2>2, <2>3, <2>4, Zenon
<1>4. Upto(N) = running
  OBVIOUS
<1> HIDE DEF Upto
<1>5. 0 \in T
  BY <1>3, StartIsSummed
<1>6. ASSUME NEW n \in Nat, n \in T PROVE n + 1 \in T
  <2>0. n + 1 \in Nat /\ Summed(g[Upto(n)], Upto(n), input)
    BY <1>6
  <2>1. CASE n + 1 \in running
    <3>1. g[Upto(n + 1)] = Add(g[Upto(n)], results[n + 1])
      BY <1>3, <2>1, Zenon DEF Round
    <3>2. Upto(n) \in SUBSET (1 .. n) /\ Upto(n + 1) = Upto(n) \union {n + 1}
      BY <1>3, <2>1
    <3>3. /\ results[n + 1] \in HookResult
          /\ \A i \in Upto(n) : results[i] \in HookResult
      BY <1>3, <2>1
    <3>4. Summed(Add(g[Upto(n)], results[n + 1]), Upto(n) \union {n + 1}, input)
      BY <2>0, <3>2, <3>3, AddKeepsSum
    <3>5. Summed(g[Upto(n + 1)], Upto(n + 1), input)
      BY <3>1, <3>2, <3>4
    <3>. QED
      BY <2>0, <3>5
  <2>2. CASE n + 1 \notin running
    <3>1. Upto(n + 1) = Upto(n)
      BY <1>3, <2>2
    <3>. QED
      BY <2>0, <3>1
  <2>. QED
    BY <2>1, <2>2
<1> HIDE DEF T
<1>7. N \in T
  BY <1>5, <1>6, Induction
<1>8. Summed(g[Upto(N)], Upto(N), input)
  BY <1>7 DEF T
<1>. QED
  BY <1>2, <1>4, <1>8, Zenon

-----------------------------------------------------------------------------
(* The counts of a window.                                                 *)

Times(w, n, sig) == {i \in 1 .. n : w[i] = sig}

CountedUpTo(counts, w, n) ==
    /\ counts = [x \in DOMAIN counts |-> counts[x]]
    /\ DOMAIN counts = {w[i] : i \in 1 .. n}
    /\ \A sig \in DOMAIN counts : counts[sig] = Cardinality(Times(w, n, sig))

LEMMA TimesFinite ==
  ASSUME NEW w, NEW n \in Nat, NEW sig
  PROVE  IsFiniteSet(Times(w, n, sig)) /\ Cardinality(Times(w, n, sig)) \in Nat
<1>1. IsFiniteSet(1 .. n)
  BY FS_Interval
<1>2. IsFiniteSet(Times(w, n, sig))
  BY <1>1, FS_Subset DEF Times
<1>. QED
  BY <1>2, FS_CardinalityType

LEMMA TimesGrow ==
  ASSUME NEW w, NEW n \in Nat, NEW sig
  PROVE  Cardinality(Times(w, n + 1, sig))
           = Cardinality(Times(w, n, sig)) + (IF w[n + 1] = sig THEN 1 ELSE 0)
<1>1. CASE w[n + 1] = sig
  <2>1. Times(w, n + 1, sig) = Times(w, n, sig) \union {n + 1}
    BY <1>1 DEF Times
  <2>2. n + 1 \notin Times(w, n, sig)
    BY DEF Times
  <2>. QED
    BY <1>1, <2>1, <2>2, TimesFinite, FS_AddElement
<1>2. CASE w[n + 1] # sig
  <2>1. Times(w, n + 1, sig) = Times(w, n, sig)
    BY <1>2 DEF Times
  <2>. QED
    BY <1>2, <2>1, TimesFinite
<1>. QED
  BY <1>1, <1>2

LEMMA NoTimes ==
  ASSUME NEW w, NEW n \in Nat, NEW sig, sig \notin {w[i] : i \in 1 .. n}
  PROVE  Cardinality(Times(w, n, sig)) = 0
<1>1. Times(w, n, sig) = {}
  BY DEF Times
<1>. QED
  BY <1>1, FS_EmptySet

(* One round counts one step.                                              *)
LEMMA CountedKeeps ==
  ASSUME NEW counts, NEW w, NEW n \in Nat, CountedUpTo(counts, w, n)
  PROVE  CountedUpTo(Counted(counts, w[n + 1]), w, n + 1)
<1> DEFINE sig == w[n + 1]
           new == Counted(counts, sig)
<1>1. /\ DOMAIN new = DOMAIN counts \union {sig}
      /\ new = [x \in DOMAIN new |-> new[x]]
      /\ \A x \in DOMAIN new :
            new[x] = IF x # sig THEN counts[x]
                     ELSE IF sig \in DOMAIN counts THEN counts[sig] + 1 ELSE 1
  BY DEF Counted, CountedUpTo
<1> HIDE DEF new
<1>2. DOMAIN new = {w[i] : i \in 1 .. n + 1}
  <2>1. {w[i] : i \in 1 .. n + 1} = {w[i] : i \in 1 .. n} \union {w[n + 1]}
    OBVIOUS
  <2>. QED
    BY <1>1, <2>1 DEF CountedUpTo
<1>3. ASSUME NEW x \in DOMAIN new PROVE new[x] = Cardinality(Times(w, n + 1, x))
  <2>1. CASE x # sig
    <3>1. x \in DOMAIN counts
      BY <1>1, <2>1
    <3>2. new[x] = Cardinality(Times(w, n, x)) /\ Cardinality(Times(w, n, x)) \in Nat
      BY <1>1, <2>1, <3>1, TimesFinite DEF CountedUpTo
    <3>. QED
      BY <2>1, <3>2, TimesGrow
  <2>2. CASE x = sig /\ sig \in DOMAIN counts
    <3>1. /\ counts[sig] = Cardinality(Times(w, n, x))
          /\ Cardinality(Times(w, n, x)) \in Nat
      BY <2>2, TimesFinite DEF CountedUpTo
    <3>2. new[x] = counts[sig] + 1
      BY <1>1, <2>2
    <3>. QED
      BY <2>2, <3>1, <3>2, TimesGrow
  <2>3. CASE x = sig /\ sig \notin DOMAIN counts
    <3>1. Cardinality(Times(w, n, x)) = 0
      BY <2>3, NoTimes DEF CountedUpTo
    <3>2. new[x] = 1
      BY <1>1, <2>3
    <3>. QED
      BY <2>3, <3>1, <3>2, TimesGrow
  <2>. QED
    BY <2>1, <2>2, <2>3
<1>4. CountedUpTo(new, w, n + 1)
  BY <1>1, <1>2, <1>3 DEF CountedUpTo
<1>. QED
  BY <1>4 DEF new

LEMMA CountLoop ==
  ASSUME NEW w, NEW N \in Nat, NEW S \in SUBSET Nat,
         \A i \in Nat : i \in S <=> i \in 1 .. N,
         NEW g, Folds(g, "steps", w, S, Uncounted)
  PROVE  CountedUpTo(g[S], w, N)
<1> DEFINE Upto(n) == S \intersect (1 .. n)
           T == {n \in Nat : n <= N => CountedUpTo(g[Upto(n)], w, n)}
<1>1. g[Upto(0)] = Uncounted
  <2>1. Upto(0) = {}
    OBVIOUS
  <2>. QED
    BY <2>1, FoldStarts
<1>2. \A n \in Nat : n + 1 \in S => g[Upto(n + 1)] = Round("steps", g[Upto(n)], w[n + 1])
  <2> HIDE DEF T
  <2>1. ASSUME NEW n \in Nat, n + 1 \in S
        PROVE  g[Upto(n + 1)] = Round("steps", g[Upto(n)], w[n + 1])
    BY <2>1, FoldRounds
  <2>. QED
    BY <2>1
<1>3. Upto(N) = S
  OBVIOUS
<1> HIDE DEF Upto
<1>4. 0 \in T
  <2>1. CountedUpTo(Uncounted, w, 0)
    BY DEF CountedUpTo, Uncounted
  <2>. QED
    BY <1>1, <2>1
<1>5. ASSUME NEW n \in Nat, n \in T PROVE n + 1 \in T
  <2>1. SUFFICES ASSUME n + 1 <= N PROVE CountedUpTo(g[Upto(n + 1)], w, n + 1)
    OBVIOUS
  <2>2. n + 1 \in S /\ CountedUpTo(g[Upto(n)], w, n)
    BY <1>5, <2>1
  <2>3. g[Upto(n + 1)] = Counted(g[Upto(n)], w[n + 1])
    BY <1>2, <2>2 DEF Round
  <2>. QED
    BY <2>2, <2>3, CountedKeeps
<1> HIDE DEF T
<1>6. N \in T
  BY <1>4, <1>5, Induction
<1>7. CountedUpTo(g[Upto(N)], w, N)
  BY <1>6 DEF T
<1>. QED
  BY <1>3, <1>7, Zenon

(* The loop counts how often each signature occurs in the window.          *)
LEMMA CountsAreRight ==
  ASSUME NEW w, NEW N \in Nat, DOMAIN w = 1 .. N
  PROVE  CountedUpTo(FoldLeft(Counted, Uncounted, w), w, N)
<1> DEFINE g == CHOOSE g : StepFold(g, w)
<1>1. Folds(g, "steps", w, DOMAIN w, Uncounted)
  <2>1. \E h : Folds(h, "steps", w, DOMAIN w, Uncounted)
    BY FoldExists
  <2>2. \E h : StepFold(h, w)
    BY <2>1, StepFoldIs, Zenon
  <2>3. StepFold(g, w)
    BY <2>2, Zenon
  <2>. QED
    BY <2>3, StepFoldIs, Zenon
<1>2. FoldLeft(Counted, Uncounted, w) = g[DOMAIN w]
  BY CountsAreFold, Zenon
<1>3. DOMAIN w \in SUBSET Nat /\ \A i \in Nat : i \in DOMAIN w <=> i \in 1 .. N
  OBVIOUS
<1>4. CountedUpTo(g[DOMAIN w], w, N)
  BY <1>1, <1>3, CountLoop, Zenon
<1>. QED
  BY <1>2, <1>4, Zenon

(* The detection finds a loop exactly if there is one.                     *)
LEMMA LoopsAreFound ==
  ASSUME NEW X, NEW s \in Seq(X) PROVE hasRepeatedToolCalls(s) <=> Looping(s)
<1>1. CASE ~(Len(s) >= windowSize)
  BY <1>1 DEF hasRepeatedToolCalls, Looping
<1>2. CASE Len(s) >= windowSize
  <2> DEFINE w == Window(s)
             d == Len(s) - windowSize
             counts == FoldLeft(Counted, Uncounted, w)
             There(sig) == {i \in Len(s) - windowSize + 1 .. Len(s) : s[i] = sig}
  <2>1. /\ DOMAIN w = 1 .. windowSize
        /\ \A i \in 1 .. windowSize : w[i] = s[d + i]
        /\ d \in Nat /\ windowSize \in Nat /\ Len(s) = d + windowSize
    BY <1>2, WindowNat DEF Window
  <2>2. CountedUpTo(counts, w, windowSize)
    BY <2>1, CountsAreRight
  <2> HIDE DEF w, counts
  <2>3. ASSUME NEW sig
        PROVE  Cardinality(There(sig)) = Cardinality(Times(w, windowSize, sig))
    <3> DEFINE f == [i \in Times(w, windowSize, sig) |-> i + d]
    <3>1. /\ \A i \in Times(w, windowSize, sig) : i \in Nat /\ i + d \in There(sig)
          /\ \A j \in There(sig) : j - d \in Times(w, windowSize, sig) /\ j = (j - d) + d
      BY <2>1 DEF Times
    <3>2. f \in Bijection(Times(w, windowSize, sig), There(sig))
      <4> HIDE DEF There
      <4>1. f \in [Times(w, windowSize, sig) -> There(sig)]
        BY <3>1
      <4>2. \A i, j \in Times(w, windowSize, sig) : f[i] = f[j] => i = j
        BY <2>1, <3>1
      <4>3. \A j \in There(sig) : \E i \in Times(w, windowSize, sig) : f[i] = j
        BY <3>1
      <4> HIDE DEF f
      <4>. QED
        BY <4>1, <4>2, <4>3, Fun_IsBij
    <3>. QED
      <4>1. ExistsBijection(Times(w, windowSize, sig), There(sig))
        BY <3>2, Zenon DEF ExistsBijection
      <4>2. IsFiniteSet(Times(w, windowSize, sig))
        BY <2>1, TimesFinite
      <4>. QED
        BY <4>1, <4>2, FS_Bijection
  <2>4. \A sig \in DOMAIN counts : counts[sig] = Cardinality(There(sig))
    BY <2>2, <2>3 DEF CountedUpTo
  <2>5. ASSUME NEW sig \in Range(s), Cardinality(There(sig)) > maxRepeats
        PROVE  sig \in DOMAIN counts
    <3>1. Cardinality(There(sig)) = Cardinality(Times(w, windowSize, sig))
      BY <2>3
    <3>2. sig \notin DOMAIN counts => Cardinality(Times(w, windowSize, sig)) = 0
      BY <2>1, <2>2, NoTimes DEF CountedUpTo
    <3>. QED
      BY <2>5, <3>1, <3>2, WindowNat
  <2>6. DOMAIN counts \subseteq Range(s)
    <3>1. DOMAIN counts = {w[i] : i \in 1 .. windowSize}
      BY <2>2 DEF CountedUpTo
    <3>2. \A i \in 1 .. windowSize : w[i] = s[d + i] /\ d + i \in DOMAIN s
      BY <2>1
    <3>. QED
      BY <3>1, <3>2 DEF Range
  <2>. QED
    BY <1>2, <2>4, <2>5, <2>6 DEF hasRepeatedToolCalls, Looping, Uncounted, counts, w
<1>. QED
  BY <1>1, <1>2

-----------------------------------------------------------------------------
(* What is said by place is said by command.                               *)

HooksOf(tool) == Dedup(matchingHooks(tool))

LEMMA HookFacts ==
  /\ Len(Hooks) \in Nat /\ DOMAIN Hooks = 1 .. Len(Hooks)
  /\ \A i \in DOMAIN Hooks : /\ Hooks[i].command \in DOMAIN Answer
                             /\ Hooks[i].tools \subseteq Tool
                             /\ Answer[Hooks[i].command] \subseteq HookResult
<1>1. Len(Hooks) \in Nat /\ DOMAIN Hooks = 1 .. Len(Hooks)
  BY HooksConfig
<1>2. ASSUME NEW i \in DOMAIN Hooks
      PROVE  Hooks[i].command \in DOMAIN Answer /\ Hooks[i].tools \subseteq Tool
  <2> DEFINE R == [command : DOMAIN Answer, tools : SUBSET Tool]
  <2>1. Hooks \in Seq(R)
    BY HooksConfig
  <2>2. \A r \in R : r.command \in DOMAIN Answer /\ r.tools \subseteq Tool
    OBVIOUS
  <2> HIDE DEF R
  <2>3. Hooks[i] \in R
    BY <1>1, <2>1
  <2>. QED
    BY <2>2, <2>3
<1>. QED
  BY <1>1, <1>2, HooksConfig

(* A command runs from one place.                                          *)
LEMMA OnePlaceEach ==
  ASSUME NEW tool, NEW i \in HooksOf(tool), NEW j \in HooksOf(tool),
         Hooks[i].command = Hooks[j].command
  PROVE  i = j
<1>1. i \in Nat /\ j \in Nat /\ ~(i < j) /\ ~(j < i)
  BY HookFacts DEF HooksOf, Dedup, matchingHooks
<1>. QED
  BY <1>1

LEMMA SaidByPlace ==
  ASSUME running = HooksOf(call.tool), NEW i \in running
  PROVE  /\ i \in Nat
         /\ Hooks[i].command \in Commands
         /\ Said(Hooks[i].command) = results[i]
         /\ Place(Hooks[i].command) = i
<1> DEFINE c == Hooks[i].command
<1>1. /\ i \in DOMAIN Hooks /\ i \in Nat /\ call.tool \in Hooks[i].tools
      /\ \A j \in DOMAIN Hooks : call.tool \in Hooks[j].tools /\ j < i
                                   => Hooks[j].command # c
  BY HookFacts DEF HooksOf, Dedup, matchingHooks
<1>2. c \in Commands
  BY <1>1 DEF Commands
<1>3. Said(c) = results[i]
  <2>1. \A j \in running : Hooks[j].command = c => j = i
    BY OnePlaceEach
  <2>2. (CHOOSE j \in running : Hooks[j].command = c) = i
    BY <2>1
  <2>. QED
    BY <2>2, Zenon DEF Said
<1>4. Place(c) = i
  <2> DEFINE First(j) == /\ Hooks[j].command = c /\ call.tool \in Hooks[j].tools
                         /\ \A k \in 1 .. j - 1 : Hooks[k].command = c
                                                    => call.tool \notin Hooks[k].tools
  <2>1. First(i)
    BY <1>1, HookFacts
  <2>2. ASSUME NEW j \in DOMAIN Hooks, First(j) PROVE j = i
    <3>1. j \in Nat /\ ~(j < i)
      BY <1>1, <2>2, HookFacts
    <3>2. i \notin 1 .. j - 1
      BY <1>1, <2>2
    <3>. QED
      BY <1>1, <3>1, <3>2, HookFacts
  <2> HIDE DEF First
  <2>3. (CHOOSE j \in DOMAIN Hooks : First(j)) = i
    BY <1>1, <2>1, <2>2
  <2>. QED
    BY <2>3, Zenon DEF Place, First
<1>. QED
  BY <1>1, <1>2, <1>3, <1>4

LEMMA CommandHasPlace ==
  ASSUME running = HooksOf(call.tool), NEW c \in Commands
  PROVE  \E i \in running : Hooks[i].command = c
<1> DEFINE D == {i \in DOMAIN Hooks : call.tool \in Hooks[i].tools /\ Hooks[i].command = c}
<1>1. D # {} /\ D \subseteq Nat
  BY HookFacts DEF Commands
<1>2. PICK i \in D : \A j \in D : i <= j
  BY <1>1, LeastOf
<1>3. i \in HooksOf(call.tool)
  BY <1>1, <1>2 DEF HooksOf, Dedup, matchingHooks
<1>. QED
  BY <1>2, <1>3

(* So the sum over places is what the commands declare.                    *)
LEMMA SumIsDeclared ==
  ASSUME NEW agg, call \in ToolCall, running = HooksOf(call.tool),
         Summed(agg, running, call.input)
  PROVE  /\ agg.decision =
               CASE \E c \in Commands : Said(c).decision = "deny" -> "deny"
                 [] /\ ~\E c \in Commands : Said(c).decision = "deny"
                    /\ \E c \in Commands : Said(c).decision = "allow" -> "allow"
                 [] OTHER -> "none"
         /\ agg.halt = (\E c \in Commands : Said(c).halt)
         /\ agg.input = DeclaredInput
<1>1. \A i \in running : Hooks[i].command \in Commands /\ Said(Hooks[i].command) = results[i]
  BY SaidByPlace
<1>2. \A c \in Commands : \E i \in running : c = Hooks[i].command /\ Said(c) = results[i]
  <2> SUFFICES ASSUME NEW c \in Commands
               PROVE  \E i \in running : c = Hooks[i].command /\ Said(c) = results[i]
    OBVIOUS
  <2>1. PICK i \in running : Hooks[i].command = c
    BY CommandHasPlace
  <2>. QED
    BY <1>1, <2>1
<1>3. agg.decision =
               CASE \E c \in Commands : Said(c).decision = "deny" -> "deny"
                 [] /\ ~\E c \in Commands : Said(c).decision = "deny"
                    /\ \E c \in Commands : Said(c).decision = "allow" -> "allow"
                 [] OTHER -> "none"
  <2>1. (\E c \in Commands : Said(c).decision = "deny")
          <=> \E i \in running : results[i].decision = "deny"
    BY <1>1, <1>2
  <2>2. (\E c \in Commands : Said(c).decision = "allow")
          <=> \E i \in running : results[i].decision = "allow"
    BY <1>1, <1>2
  <2>. QED
    BY <2>1, <2>2 DEF Summed
<1>4. agg.halt = (\E c \in Commands : Said(c).halt)
  <2>1. (\E c \in Commands : Said(c).halt) <=> (\E i \in running : results[i].halt)
    BY <1>1, <1>2
  <2>. QED
    BY <2>1, Zenon DEF Summed
<1>5. ASSUME call.input # NotObject PROVE agg.input = DeclaredInput
  <2> DEFINE P == Patching(running, call.input)
             m == agg.input
             Of(k) == IF Setting(k) = {} THEN call.input[k]
                      ELSE Said(CHOOSE c \in Setting(k) :
                                  \A d \in Setting(k) : Place(d) <= Place(c)
                               ).updatedInput[k]
  <2>1. SummedInput(m, running, call.input)
    BY <1>5 DEF Summed
  <2>2. m = [k \in DOMAIN m |-> m[k]]
    BY <2>1, ObjectFacts DEF SummedInput
  <2>3. DOMAIN m = Keys
    <3>1. DOMAIN m = DOMAIN call.input \union UNION {Patched(i) : i \in P}
      BY <2>1, Zenon DEF SummedInput
    <3>2. UNION {Patched(i) : i \in P}
            = UNION {DOMAIN Said(c).updatedInput :
                       c \in {c \in Commands : Applies(call.input, Said(c).updatedInput)}}
      BY <1>1, <1>2 DEF Patching, Patched
    <3>. QED
      BY <3>1, <3>2, Zenon DEF Keys
  <2>4. ASSUME NEW k \in DOMAIN m PROVE m[k] = Of(k)
    <3>1. IF \A i \in P : k \notin Patched(i) THEN m[k] = call.input[k]
          ELSE LastPatch(k, m[k], P)
      BY <2>1 DEF SummedInput
    <3>2. CASE \A i \in P : k \notin Patched(i)
      <4>1. Setting(k) = {}
        BY <1>2, <3>2 DEF Setting, Patching, Patched
      <4>. QED
        BY <3>1, <3>2, <4>1
    <3>3. CASE ~\A i \in P : k \notin Patched(i)
      <4>1. LastPatch(k, m[k], P)
        BY <3>1, <3>3
      <4>2. PICK i \in P : /\ k \in Patched(i) /\ m[k] = results[i].updatedInput[k]
                           /\ \A j \in P : k \in Patched(j) => j <= i
        BY <4>1, Zenon DEF LastPatch
      <4> DEFINE ci == Hooks[i].command
      <4>3. /\ i \in running /\ ci \in Commands
            /\ Said(ci) = results[i] /\ Place(ci) = i /\ i \in Nat
        BY SaidByPlace DEF Patching
      <4>4. ci \in Setting(k)
        BY <4>2, <4>3 DEF Setting, Patching, Patched
      <4>5. ASSUME NEW d \in Setting(k) PROVE /\ Place(d) <= i
                                              /\ i <= Place(d) => d = ci
        <5>1. PICK j \in running : d = Hooks[j].command
          BY CommandHasPlace DEF Setting
        <5>2. Said(d) = results[j] /\ Place(d) = j /\ j \in Nat
          BY <5>1, SaidByPlace
        <5>3. j \in P /\ k \in Patched(j)
          BY <5>2 DEF Setting, Patching, Patched
        <5>4. j <= i
          BY <4>2, <5>3
        <5>. QED
          BY <4>3, <5>1, <5>2, <5>4
      <4>6. (CHOOSE c \in Setting(k) :
               \A d \in Setting(k) : Place(d) <= Place(c)) = ci
        <5>1. \A d \in Setting(k) : Place(d) <= Place(ci)
          BY <4>3, <4>5
        <5>2. \A c \in Setting(k) :
                 (\A d \in Setting(k) : Place(d) <= Place(c)) => c = ci
          BY <4>3, <4>4, <4>5
        <5>. QED
          BY <4>4, <5>1, <5>2
      <4>. QED
        BY <4>2, <4>3, <4>4, <4>6
    <3>. QED
      BY <3>2, <3>3
  <2>5. m = [k \in Keys |-> Of(k)]
    BY <2>2, <2>3, <2>4
  <2>. QED
    BY <1>5, <2>5, Zenon DEF DeclaredInput
<1>6. ASSUME call.input = NotObject PROVE agg.input = DeclaredInput
  <2>1. agg.input = NotObject
    BY <1>6 DEF Summed
  <2>2. DeclaredInput = NotObject
    BY <1>6, Zenon DEF DeclaredInput
  <2>. QED
    BY <2>1, <2>2
<1>. QED
  BY <1>3, <1>4, <1>5, <1>6

-----------------------------------------------------------------------------
(* The invariant.                                                          *)

(* Between two steps nothing is left of a call.                            *)
Between == phase = "model" => running = {} /\ finished = <<>> /\ verdict = None

(* From BeginCall to the end of the step the hooks are those of the call.  *)
HooksOfCall ==
    phase \in {"hooks", "ask", "run"} =>
        call \in ToolCall /\ running = HooksOf(call.tool) /\ Len(steps) < MaxSteps

(* A verdict is the sum of what all of them said.                          *)
Judged ==
    verdict # None =>
        /\ call \in ToolCall /\ running = HooksOf(call.tool)
        /\ \A i \in running : results[i] # None
        /\ Summed(verdict, running, call.input)

(* Who asks or runs has been let through.                                  *)
LetThrough == phase \in {"ask", "run"} => verdict # None /\ ~Blocked(verdict)

IInv == TypeOK /\ Between /\ HooksOfCall /\ Judged /\ LetThrough

Step == [call : ToolCall, output : {"blocked", "denied"} \union Output]

LEMMA NoOpinionIsResult == NoOpinion \in HookResult
<1>1. \A h \in BOOLEAN : [decision |-> "none", halt |-> h, updatedInput |-> NoPatch] \in HookResult
  BY Inputs DEF HookResult, Decision
<1>. QED
  BY <1>1, Zenon DEF NoOpinion

LEMMA InitIInv == Init => IInv
<1> SUFFICES ASSUME Init PROVE IInv
  OBVIOUS
<1>0. [i \in {} |-> None] \in [{} -> HookResult \union {None}]
  OBVIOUS
<1>1. TypeOK
  <2>1. /\ phase \in {"model", "hooks", "ask", "run", "ended"}
        /\ call \in ToolCall \union {None}
        /\ verdict \in AggregateResult \union {None}
        /\ {cancelled, halted} \subseteq BOOLEAN
    BY DEF Init
  <2>2. running \subseteq DOMAIN Hooks /\ results \in [running -> HookResult \union {None}]
    BY <1>0, Zenon DEF Init
  <2>3. finished \in Seq(running)
    BY DEF Init
  <2>4. steps \in Seq(Step) /\ Len(steps) <= MaxSteps
    <3> HIDE DEF Step
    <3>. QED
      BY MaxStepsNat DEF Init
  <2>. QED
    BY <2>1, <2>2, <2>3, <2>4, Zenon DEF TypeOK, Step
<1>. QED
  BY <1>1 DEF Init, IInv, Between, HooksOfCall, Judged, LetThrough

(* The sum does not change as long as the results do not.                  *)
LEMMA JudgedStays ==
  ASSUME Judged, UNCHANGED <<call, running, results, verdict>>
  PROVE  Judged'
<1>1. /\ results' = results /\ call' = call /\ running' = running
      /\ (verdict # None)' => verdict # None
  OBVIOUS
<1>2. ASSUME verdict # None PROVE Summed(verdict, running, call.input)'
  <2>1. Summed(verdict, running, call.input) /\ verdict' = verdict
    BY <1>2 DEF Judged
  <2>. QED
    BY <1>1, <2>1 DEF Summed, SummedInput, Patching, LastPatch, Patched
<1>3. ASSUME verdict # None
      PROVE  (/\ call \in ToolCall /\ running = HooksOf(call.tool)
              /\ \A i \in running : results[i] # None)'
  BY <1>1, <1>3 DEF Judged, HooksOf, Dedup, matchingHooks
<1>. QED
  BY <1>1, <1>2, <1>3, Zenon DEF Judged

(* The end of a step.                                                      *)
LEMMA EndStepKeeps ==
  ASSUME IInv, Len(steps) < MaxSteps, call \in ToolCall, UNCHANGED cancelled,
         NEW output \in {"blocked", "denied"} \union Output, NEW stop \in BOOLEAN,
         EndStep(output, stop), AfterStep
  PROVE  IInv'
<1>1. phase' \in {"ended", "model"}
  BY DEF AfterStep
<1>2. [call |-> call, output |-> output] \in Step
  BY DEF Step
<1>3. steps' \in Seq(Step) /\ Len(steps') <= MaxSteps
  <2>1. steps \in Seq(Step)
    BY DEF IInv, TypeOK, Step
  <2> DEFINE e == [call |-> call, output |-> output]
  <2>2. steps' = Append(steps, e)
    BY DEF EndStep
  <2> HIDE DEF e
  <2>. QED
    BY <1>2, <2>1, <2>2, MaxStepsNat DEF e
<1>4. TypeOK'
  BY <1>1, <1>3 DEF IInv, TypeOK, EndStep, Step
<1>. QED
  BY <1>1, <1>4 DEF IInv, EndStep, Between, HooksOfCall, Judged, LetThrough

(* Every step keeps the invariant.                                         *)
LEMMA StepKeepsIt == IInv /\ [Next]_vars => IInv'
<1> SUFFICES ASSUME IInv, [Next]_vars PROVE IInv'
  OBVIOUS
<1>0. TypeOK /\ Between /\ HooksOfCall /\ Judged /\ LetThrough
  BY DEF IInv
<1>1. CASE BeginCall
  <2>1. PICK tool \in Tool, input \in Input :
           /\ call' = [tool |-> tool, input |-> input]
           /\ running' = HooksOf(tool)
    BY <1>1 DEF BeginCall, HooksOf
  <2>2. call' \in ToolCall /\ call'.tool = tool
    BY <2>1 DEF ToolCall
  <2>3. running' \subseteq DOMAIN Hooks
    BY <2>1 DEF HooksOf, Dedup, matchingHooks
  <2>4. /\ phase' = "hooks" /\ finished' = <<>> /\ verdict' = None
        /\ results' = [i \in running' |-> None]
        /\ UNCHANGED <<cancelled, halted, steps>>
        /\ Len(steps) < MaxSteps
    BY <1>0, <1>1 DEF BeginCall, Between
  <2>5. TypeOK'
    BY <1>0, <2>2, <2>3, <2>4 DEF TypeOK
  <2>6. HooksOf(call'.tool) = HooksOf(tool)
    BY <2>2
  <2>7. HooksOfCall'
    BY <2>1, <2>2, <2>4, <2>6 DEF HooksOfCall, HooksOf, Dedup, matchingHooks
  <2>. QED
    BY <2>4, <2>5, <2>7 DEF IInv, Between, Judged, LetThrough
<1>2. CASE EndTurn
  <2>1. /\ phase' = "ended" /\ verdict = None
        /\ UNCHANGED <<call, running, results, finished, verdict, cancelled, halted, steps>>
    BY <1>0, <1>2 DEF EndTurn, Between, hooks
  <2>. QED
    BY <1>0, <2>1 DEF IInv, TypeOK, Between, HooksOfCall, Judged, LetThrough
<1>3. ASSUME NEW i \in running, HookAnswers(i) \/ HookIsKilled(i) PROVE IInv'
  <2>1. PICK result \in HookResult : Finish(i, result) /\ i \in Pending
    <3>1. i \in DOMAIN Hooks
      BY <1>0 DEF TypeOK
    <3>2. Answer[Hooks[i].command] \subseteq HookResult
      BY <3>1, HookFacts
    <3>. QED
      BY <1>3, <3>2, NoOpinionIsResult DEF HookAnswers, HookIsKilled
  <2>2. /\ results' = [results EXCEPT ![i] = result]
        /\ finished' = Append(finished, i)
        /\ UNCHANGED <<phase, call, running, verdict, cancelled, halted, steps>>
        /\ phase = "hooks" /\ results[i] = None
    BY <2>1 DEF Finish, Pending
  <2>3. verdict = None
    BY <1>0, <2>2 DEF Judged
  <2>4. results' \in [running -> HookResult \union {None}]
    BY <1>0, <2>2 DEF TypeOK
  <2>5. finished' \in Seq(running)
    BY <1>0, <2>2 DEF TypeOK
  <2>6. TypeOK'
    BY <1>0, <2>2, <2>4, <2>5 DEF TypeOK
  <2>. QED
    BY <1>0, <2>2, <2>3, <2>6 DEF IInv, Between, HooksOfCall, Judged, LetThrough
<1>4. CASE Aggregate
  <2>1. /\ phase = "hooks" /\ AllDone /\ verdict' = aggregate(call.input)
        /\ UNCHANGED <<phase, call, running, results, finished, cancelled, halted, steps>>
    BY <1>4 DEF Aggregate, hooks
  <2>2. call \in ToolCall /\ running = HooksOf(call.tool)
    BY <1>0, <2>1 DEF HooksOfCall
  <2>3. \A i \in running : results[i] # None /\ results[i] \in HookResult
    BY <1>0, <2>1 DEF AllDone, Pending, TypeOK
  <2>4. Summed(verdict', running, call.input)
    <3>1. call.input \in Input
      BY <2>2 DEF ToolCall
    <3>2. running \subseteq 1 .. Len(Hooks) /\ Len(Hooks) \in Nat
      BY <1>0, HookFacts DEF TypeOK
    <3>3. Summed(aggregate(call.input), running, call.input)
      BY <2>3, <3>1, <3>2, AggregateIsSum
    <3>. QED
      BY <2>1, <3>3, Zenon
  <2>5. verdict' \in AggregateResult
    BY <2>4 DEF Summed
  <2>6. TypeOK'
    BY <1>0, <2>1, <2>5 DEF TypeOK
  <2>7. Judged'
    <3>1. results' = results /\ call' = call /\ running' = running
      BY <2>1
    <3>2. Summed(verdict, running, call.input)'
      BY <2>4, <3>1 DEF Summed, SummedInput, Patching, LastPatch, Patched
    <3>3. (/\ call \in ToolCall /\ running = HooksOf(call.tool)
           /\ \A i \in running : results[i] # None)'
      BY <2>2, <2>3, <3>1 DEF HooksOf, Dedup, matchingHooks
    <3>. QED
      BY <3>2, <3>3, Zenon DEF Judged
  <2>. QED
    BY <1>0, <2>1, <2>2, <2>6, <2>7 DEF IInv, Between, HooksOfCall, LetThrough
<1>5. CASE BlockCall
  <2>1. /\ phase = "hooks" /\ verdict # None /\ UNCHANGED cancelled
        /\ EndStep("blocked", verdict.halt) /\ AfterStep
    BY <1>5 DEF BlockCall
  <2>2. verdict.halt \in BOOLEAN
    BY <1>0, <2>1 DEF TypeOK, AggregateResult
  <2>3. call \in ToolCall /\ Len(steps) < MaxSteps
    BY <1>0, <2>1 DEF HooksOfCall
  <2>. QED
    BY <2>1, <2>2, <2>3, EndStepKeeps
<1>6. CASE PassCall \/ Grant \/ AskFails \/ Cancel
  <2>1. /\ UNCHANGED <<call, running, results, finished, verdict, halted, steps>>
        /\ \/ phase' \in {"ask", "run"} /\ UNCHANGED cancelled
              /\ phase \in {"hooks", "ask"} /\ verdict # None /\ ~Blocked(verdict)
           \/ phase' = "ended" /\ UNCHANGED cancelled
           \/ phase' = phase /\ cancelled' = TRUE
    BY <1>0, <1>6 DEF PassCall, Grant, AskFails, Cancel, hooks, LetThrough
  <2>2. TypeOK'
    BY <1>0, <2>1 DEF TypeOK
  <2>3. Judged'
    BY <1>0, <2>1, JudgedStays
  <2>4. Between'
    BY <1>0, <2>1 DEF Between
  <2>5. HooksOfCall'
    BY <1>0, <2>1 DEF HooksOfCall, HooksOf, Dedup, matchingHooks
  <2>6. LetThrough'
    BY <1>0, <2>1 DEF LetThrough, Blocked
  <2>. QED
    BY <2>2, <2>3, <2>4, <2>5, <2>6 DEF IInv
<1>7. CASE Deny
  <2>1. call \in ToolCall /\ Len(steps) < MaxSteps
    BY <1>0, <1>7 DEF HooksOfCall, Deny
  <2>2. EndStep("denied", TRUE) /\ AfterStep /\ UNCHANGED cancelled
    BY <1>7 DEF Deny
  <2>. QED
    BY <2>1, <2>2, EndStepKeeps
<1>8. CASE ToolReturns
  <2>1. call \in ToolCall /\ Len(steps) < MaxSteps
    BY <1>0, <1>8 DEF HooksOfCall, ToolReturns
  <2>2. PICK output \in Output : EndStep(output, FALSE) /\ AfterStep /\ UNCHANGED cancelled
    BY <1>8 DEF ToolReturns
  <2>. QED
    BY <2>1, <2>2, EndStepKeeps
<1>9. CASE UNCHANGED vars
  <2>1. UNCHANGED <<phase, call, running, results, finished, verdict, cancelled, halted, steps>>
    BY <1>9 DEF vars
  <2>2. Judged'
    BY <1>0, <2>1, JudgedStays
  <2>3. HooksOfCall'
    BY <1>0, <2>1 DEF HooksOfCall, HooksOf, Dedup, matchingHooks
  <2>. QED
    BY <1>0, <2>1, <2>2, <2>3 DEF IInv, TypeOK, Between, LetThrough, Blocked
<1>. QED
  BY <1>1, <1>2, <1>3, <1>4, <1>5, <1>6, <1>7, <1>8, <1>9 DEF Next, HookSteps

-----------------------------------------------------------------------------
(* The theorems.                                                           *)

(* The invariant holds, for any tools and hooks and whatever they answer.  *)
THEOREM TurnInvariance == Spec => []IInv
  BY InitIInv, StepKeepsIt, PTL DEF Spec

(* Every variable keeps its type; a verdict on a call that is a JSON       *)
(* object has one as its input.                                            *)
THEOREM TypeCorrect == Spec => []TypeOK
<1>1. IInv => TypeOK
  BY DEF IInv
<1>. QED
  BY TurnInvariance, <1>1, PTL

(* Deny wins over allow and allow over none, a halt sticks, and the last   *)
(* patch of a key is the one of the hook that is last in the               *)
(* configuration, in whatever order the hooks end or are killed.           *)
THEOREM VerdictStands == Spec => []VerdictIsDeclared
<1>1. ASSUME IInv PROVE VerdictIsDeclared
  <2> SUFFICES ASSUME verdict # None PROVE VerdictIsDeclared
    BY DEF VerdictIsDeclared
  <2>1. /\ call \in ToolCall /\ running = HooksOf(call.tool)
        /\ Summed(verdict, running, call.input)
    BY <1>1 DEF IInv, Judged
  <2> DEFINE opinions == {Said(c).decision : c \in Commands}
  <2>2. /\ "deny" \in opinions <=> \E c \in Commands : Said(c).decision = "deny"
        /\ "allow" \in opinions <=> \E c \in Commands : Said(c).decision = "allow"
    BY Zenon
  <2>3. /\ verdict.decision =
               CASE \E c \in Commands : Said(c).decision = "deny" -> "deny"
                 [] /\ ~\E c \in Commands : Said(c).decision = "deny"
                    /\ \E c \in Commands : Said(c).decision = "allow" -> "allow"
                 [] OTHER -> "none"
        /\ verdict.halt = (\E c \in Commands : Said(c).halt)
        /\ verdict.input = DeclaredInput
    BY <2>1, SumIsDeclared
  <2> HIDE DEF opinions
  <2>4. verdict.decision = CASE "deny" \in opinions -> "deny"
                             [] "deny" \notin opinions /\ "allow" \in opinions -> "allow"
                             [] OTHER -> "none"
    BY <2>2, <2>3
  <2>. QED
    BY <2>3, <2>4, Zenon DEF VerdictIsDeclared, opinions
<1>. QED
  BY TurnInvariance, <1>1, PTL

(* A tool runs only after each hook of its call has ended and none denied  *)
(* the call or halted the turn, and unasked only if a hook allowed it.     *)
THEOREM ToolsRunAsDecided == Spec => RunsAsDecided
<1> DEFINE Decided == phase # "run" /\ phase' = "run" =>
          /\ \A c \in Commands : Said(c) # None /\ ~Blocked(Said(c))
          /\ \/ phase = "ask"
             \/ call.tool \notin Asking
             \/ \E c \in Commands : Said(c).decision = "allow"
<1>1. ASSUME IInv, [Next]_vars PROVE Decided
  <2> SUFFICES ASSUME phase # "run", phase' = "run" PROVE Decided
    OBVIOUS
  <2>1. PassCall \/ Grant
    BY <1>1 DEF Next, vars, BeginCall, EndTurn, HookSteps, HookAnswers, HookIsKilled, Finish,
       Aggregate, BlockCall, Deny, AskFails, ToolReturns, Cancel, AfterStep
  <2>2. verdict # None /\ ~Blocked(verdict)
    BY <1>1, <2>1 DEF IInv, PassCall, Grant, LetThrough
  <2>3. /\ call \in ToolCall /\ running = HooksOf(call.tool)
        /\ \A i \in running : results[i] # None
        /\ Summed(verdict, running, call.input)
    BY <1>1, <2>2 DEF IInv, Judged
  <2>4. /\ ~\E i \in running : results[i].decision = "deny"
        /\ ~\E i \in running : results[i].halt
        /\ verdict.decision = "allow" => \E i \in running : results[i].decision = "allow"
    BY <2>2, <2>3 DEF Summed, Blocked
  <2>5. \A c \in Commands : \E i \in running : Hooks[i].command = c /\ Said(c) = results[i]
    <3> SUFFICES ASSUME NEW c \in Commands
                 PROVE  \E i \in running : Hooks[i].command = c /\ Said(c) = results[i]
      OBVIOUS
    <3>1. PICK i \in running : Hooks[i].command = c
      BY <2>3, CommandHasPlace
    <3>. QED
      BY <2>3, <3>1, SaidByPlace
  <2>6. \A c \in Commands : Said(c) # None /\ ~Blocked(Said(c))
    BY <2>3, <2>4, <2>5 DEF Blocked
  <2>7. \/ phase = "ask"
        \/ call.tool \notin Asking
        \/ verdict.decision = "allow"
    BY <2>1 DEF PassCall, Grant, HookApproved
  <2>8. ASSUME verdict.decision = "allow" PROVE \E c \in Commands : Said(c).decision = "allow"
    <3>1. PICK i \in running : results[i].decision = "allow"
      BY <2>4, <2>8
    <3>2. Hooks[i].command \in Commands /\ Said(Hooks[i].command) = results[i]
      BY <2>3, SaidByPlace
    <3>. QED
      BY <3>1, <3>2
  <2>. QED
    BY <2>6, <2>7, <2>8, Zenon
<1>. QED
  BY TurnInvariance, <1>1, PTL DEF Spec, RunsAsDecided

(* The turn ends after a step if it is cancelled, a hook halted it, the    *)
(* user denied the call or a signature occurs too often, and only then.    *)
THEOREM StopsInTime == Spec => TurnStopsInTime
<1> DEFINE InTime == steps' # steps =>
          (phase' = "ended" <=>
              \/ cancelled
              \/ \E c \in Commands : Said(c).halt
              \/ phase = "ask"
              \/ Looping(steps'))
<1>1. ASSUME IInv, [Next]_vars PROVE InTime
  <2> SUFFICES ASSUME steps' # steps PROVE InTime
    OBVIOUS
  <2>1. BlockCall \/ Deny \/ ToolReturns
    BY <1>1 DEF Next, vars, BeginCall, EndTurn, HookSteps, HookAnswers, HookIsKilled, Finish,
       Aggregate, PassCall, Grant, AskFails, Cancel
  <2>2. steps' \in Seq(Step)
    <3>1. IInv'
      BY <1>1, StepKeepsIt
    <3>. QED
      BY <3>1 DEF IInv, TypeOK, Step
  <2>3. hasRepeatedToolCalls(steps') <=> Looping(steps')
    BY <2>2, LoopsAreFound
  <2>4. phase' = "ended" <=> cancelled \/ halted' \/ Looping(steps')
    BY <2>1, <2>3 DEF BlockCall, Deny, ToolReturns, AfterStep, Stop
  <2>5. /\ verdict # None /\ call \in ToolCall /\ running = HooksOf(call.tool)
        /\ Summed(verdict, running, call.input)
        /\ phase = "run" => ~verdict.halt
    BY <1>1, <2>1 DEF IInv, Judged, LetThrough, BlockCall, Deny, ToolReturns, Blocked
  <2>6. verdict.halt = (\E c \in Commands : Said(c).halt)
    BY <2>5, SumIsDeclared
  <2>7. CASE BlockCall
    BY <2>4, <2>6, <2>7 DEF BlockCall, EndStep
  <2>8. CASE Deny
    BY <2>4, <2>8 DEF Deny, EndStep
  <2>9. CASE ToolReturns
    BY <2>4, <2>5, <2>6, <2>9 DEF ToolReturns, EndStep
  <2>. QED
    BY <2>1, <2>7, <2>8, <2>9
<1>. QED
  BY TurnInvariance, <1>1, PTL DEF Spec, TurnStopsInTime

=============================================================================
