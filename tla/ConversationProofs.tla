------------------------- MODULE ConversationProofs -------------------------
(***************************************************************************)
(* Proofs about Conversation, for any tool calls, any number of rows, with *)
(* or without failing writes: a call has one result at most, the error     *)
(* path repairs what it promises to, and the session's summary is a        *)
(* finished one, in whatever order rows of one second are listed; and the  *)
(* history a turn starts from is one the provider accepts, when rows are   *)
(* listed in the order they were created in.                               *)
(*                                                                         *)
(* The argument.  A write adds a row of a new identifier, or rewrites the  *)
(* parts of the row the turn is writing, or deletes that row (Tends);      *)
(* and that row is never one that a client's copy of the session may point *)
(* to.                                                                     *)
(*                                                                         *)
(* For the history: in the table a result follows the message whose call   *)
(* it answers with nothing but results in between (InOrder), and this can  *)
(* be kept because the callbacks and the error path write results before   *)
(* anything else is listed behind the message (Trailing).  Of a table in   *)
(* that order preparePrompt makes, row by row, a history in which only the *)
(* results of the last message may still be missing (Accepts, Pending):    *)
(* by induction over its rows, through the least row where it would fail.  *)
(***************************************************************************)
EXTENDS Conversation, TLAPS, SequenceTheorems, FiniteSetTheorems,
        WellFoundedInduction

-----------------------------------------------------------------------------
(* Sequences: a row put in, a row taken out.                               *)
LEMMA InsertAtFacts ==
  ASSUME NEW q \in Seq(Row), NEW at \in 1 .. Len(q) + 1, NEW e \in Row
  PROVE  LET n == InsertAt(q, at, e) IN
         /\ n \in Seq(Row) /\ Len(n) = Len(q) + 1
         /\ \A i \in 1 .. at - 1 : n[i] = q[i]
         /\ n[at] = e
         /\ \A i \in at + 1 .. Len(q) + 1 : n[i] = q[i - 1]
<1> DEFINE a == SubSeq(q, 1, at - 1)
           b == SubSeq(q, at, Len(q))
<1>1. /\ a \in Seq(Row) /\ Len(a) = at - 1
      /\ \A i \in 1 .. at - 1 : a[i] = q[i]
  OBVIOUS
<1>2. /\ b \in Seq(Row) /\ Len(b) = Len(q) + 1 - at
      /\ \A i \in 1 .. Len(q) + 1 - at : b[i] = q[at + i - 1]
  OBVIOUS
<1> DEFINE m == a \o <<e>>
           n == m \o b
<1>3. InsertAt(q, at, e) = n
  BY DEF InsertAt
<1> HIDE DEF a, b
<1>4. /\ m \in Seq(Row) /\ Len(m) = at
      /\ \A i \in 1 .. at - 1 : m[i] = q[i]
      /\ m[at] = e
  BY <1>1
<1> HIDE DEF m
<1>5. /\ n \in Seq(Row) /\ Len(n) = Len(q) + 1
      /\ \A i \in 1 .. Len(q) + 1 : n[i] = IF i <= at THEN m[i] ELSE b[i - at]
  <2>1. /\ m \o b \in Seq(Row) /\ Len(m \o b) = Len(m) + Len(b)
        /\ \A i \in 1 .. Len(m) + Len(b) :
              (m \o b)[i] = IF i <= Len(m) THEN m[i] ELSE b[i - Len(m)]
    BY <1>2, <1>4, ConcatProperties, Zenon
  <2>2. Len(m) = at /\ Len(m) + Len(b) = Len(q) + 1
    BY <1>2, <1>4
  <2>. QED
    BY <2>1, <2>2
<1> HIDE DEF n
<1>6. \A i \in at + 1 .. Len(q) + 1 : n[i] = q[i - 1]
  <2> SUFFICES ASSUME NEW i \in at + 1 .. Len(q) + 1 PROVE n[i] = q[i - 1]
    OBVIOUS
  <2>1. i - at \in 1 .. Len(q) + 1 - at /\ at + (i - at) - 1 = i - 1
    OBVIOUS
  <2>2. b[i - at] = q[i - 1]
    BY <1>2, <2>1
  <2>. QED
    BY <1>5, <2>2
<1>. QED
  BY <1>3, <1>4, <1>5, <1>6

LEMMA RemoveAtFacts ==
  ASSUME NEW q \in Seq(Row), NEW at \in 1 .. Len(q)
  PROVE  LET n == RemoveAt(q, at) IN
         /\ n \in Seq(Row) /\ Len(n) = Len(q) - 1
         /\ \A i \in 1 .. at - 1 : n[i] = q[i]
         /\ \A i \in at .. Len(q) - 1 : n[i] = q[i + 1]
<1> DEFINE a == SubSeq(q, 1, at - 1)
           b == SubSeq(q, at + 1, Len(q))
<1>1. /\ a \in Seq(Row) /\ Len(a) = at - 1
      /\ \A i \in 1 .. at - 1 : a[i] = q[i]
  OBVIOUS
<1>2. /\ b \in Seq(Row) /\ Len(b) = Len(q) - at
      /\ \A i \in 1 .. Len(q) - at : b[i] = q[at + i]
  OBVIOUS
<1>3. RemoveAt(q, at) = a \o b
  BY DEF RemoveAt
<1> HIDE DEF a, b
<1>4. /\ a \o b \in Seq(Row) /\ Len(a \o b) = Len(q) - 1
      /\ \A i \in 1 .. at - 1 : (a \o b)[i] = a[i]
      /\ \A i \in at .. Len(q) - 1 : (a \o b)[i] = b[i - (at - 1)]
  <2> DEFINE m == a \o b
  <2>1. /\ m \in Seq(Row) /\ Len(m) = Len(a) + Len(b)
        /\ \A i \in 1 .. Len(a) + Len(b) :
              m[i] = IF i <= Len(a) THEN a[i] ELSE b[i - Len(a)]
    BY <1>1, <1>2, ConcatProperties, Zenon
  <2> HIDE DEF m
  <2>2. Len(a) = at - 1 /\ Len(a) + Len(b) = Len(q) - 1
    BY <1>1, <1>2
  <2>3. /\ m \in Seq(Row) /\ Len(m) = Len(q) - 1
        /\ \A i \in 1 .. at - 1 : m[i] = a[i]
        /\ \A i \in at .. Len(q) - 1 : m[i] = b[i - (at - 1)]
    BY <2>1, <2>2
  <2>. QED
    BY <2>3 DEF m
<1>5. \A i \in at .. Len(q) - 1 : b[i - (at - 1)] = q[i + 1]
  <2> SUFFICES ASSUME NEW i \in at .. Len(q) - 1 PROVE b[i - (at - 1)] = q[i + 1]
    OBVIOUS
  <2>1. i - (at - 1) \in 1 .. Len(q) - at /\ at + (i - (at - 1)) = i + 1
    OBVIOUS
  <2>. QED
    BY <1>2, <2>1
<1>. QED
  BY <1>1, <1>3, <1>4, <1>5

-----------------------------------------------------------------------------
(* A table of messages of identifiers up to n.                             *)
RowsIn(l) == {l[i] : i \in DOMAIN l}

WellKept(l, n) ==
    /\ l \in Seq(Row) /\ Len(l) <= n
    /\ \A i \in DOMAIN l : l[i].id <= n
    /\ \A i, j \in DOMAIN l : l[i].id = l[j].id => i = j
    /\ \A i, j \in DOMAIN l :
          l[i].result = l[j].result /\ l[i].result # None => i = j

LEMMA RowsWellKept ==
  ASSUME NEW l, NEW n \in Nat, WellKept(l, n)
  PROVE  /\ RowsIn(l) \subseteq Row
         /\ \A r \in RowsIn(l) : r.id <= n
         /\ \A r, s \in RowsIn(l) : r.id = s.id => r = s
<1>1. /\ l \in Seq(Row)
      /\ \A i \in DOMAIN l : l[i] \in Row
      /\ \A i \in DOMAIN l : l[i].id <= n
      /\ \A i, j \in DOMAIN l : l[i].id = l[j].id => i = j
  BY DEF WellKept
<1>. QED
  BY <1>1 DEF RowsIn

(* The new row of a Create.                                                *)
NewRow(row) == [id |-> created + 1, role |-> row.role, parts |-> row.parts,
                result |-> row.result]

LEMMA InsertKeeps ==
  ASSUME NEW n \in Nat, NEW l, WellKept(l, n), NEW at \in 1 .. Len(l) + 1,
         NEW e \in Row, e.id = n + 1,
         e.result = None \/ e.result \notin ResultsIn(RowsIn(l))
  PROVE  LET m == InsertAt(l, at, e) IN
         /\ WellKept(m, n + 1) /\ Len(m) = Len(l) + 1
         /\ RowsIn(m) = RowsIn(l) \union {e}
<1> DEFINE m == InsertAt(l, at, e)
           Old(i) == IF i < at THEN i ELSE i - 1
<1>1. /\ l \in Seq(Row) /\ Len(l) \in Nat /\ Len(l) <= n
      /\ DOMAIN l = 1 .. Len(l)
      /\ \A i \in DOMAIN l : l[i] \in Row
      /\ \A i \in DOMAIN l : l[i].id <= n
      /\ \A i, j \in DOMAIN l : l[i].id = l[j].id => i = j
      /\ \A i, j \in DOMAIN l :
            l[i].result = l[j].result /\ l[i].result # None => i = j
  BY DEF WellKept
<1> \A i \in DOMAIN l : l[i].id \in Nat
  BY <1>1, MaxRowsNat DEF Row, Id
<1> l \in Seq(Row)
  BY <1>1
<1>2. /\ m \in Seq(Row) /\ Len(m) = Len(l) + 1
      /\ \A i \in 1 .. at - 1 : m[i] = l[i]
      /\ m[at] = e
      /\ \A i \in at + 1 .. Len(l) + 1 : m[i] = l[i - 1]
  BY InsertAtFacts
<1> HIDE DEF m
<1>3. /\ DOMAIN m = 1 .. Len(l) + 1
      /\ at \in DOMAIN m
  BY <1>1, <1>2
<1>4. \A i \in DOMAIN m : i # at => Old(i) \in DOMAIN l /\ m[i] = l[Old(i)]
  BY <1>1, <1>2, <1>3
<1>5. \A i, j \in DOMAIN m :
         i # at /\ j # at /\ Old(i) = Old(j) => i = j
  BY <1>1, <1>3
<1>6. \A j \in DOMAIN l : \E i \in DOMAIN m : i # at /\ Old(i) = j
  <2> SUFFICES ASSUME NEW j \in DOMAIN l
               PROVE  \E i \in DOMAIN m : i # at /\ Old(i) = j
    OBVIOUS
  <2>1. CASE j < at
    BY <2>1, <1>1, <1>3
  <2>2. CASE ~(j < at)
    <3>1. j + 1 \in DOMAIN m /\ j + 1 # at /\ Old(j + 1) = j
      BY <2>2, <1>1, <1>3
    <3>. QED
      BY <3>1
  <2>. QED
    BY <2>1, <2>2
<1>7. \A i \in DOMAIN l : e.result # None => l[i].result # e.result
  BY DEF ResultsIn, RowsIn
<1> HIDE DEF Old
<1>8. \A i \in DOMAIN m : m[i].id <= n + 1
  <2> SUFFICES ASSUME NEW i \in DOMAIN m PROVE m[i].id <= n + 1
    OBVIOUS
  <2>1. CASE i = at
    BY <2>1, <1>2
  <2>2. CASE i # at
    BY <2>2, <1>1, <1>4
  <2>. QED
    BY <2>1, <2>2
<1>9. ASSUME NEW i \in DOMAIN m, NEW j \in DOMAIN m, m[i].id = m[j].id
      PROVE  i = j
  <2>1. CASE i = at /\ j # at
    <3>1. m[j].id <= n
      BY <2>1, <1>1, <1>4
    <3>2. m[i].id = n + 1
      BY <2>1, <1>2
    <3>. QED
      BY <3>1, <3>2, <1>9
  <2>2. CASE i # at /\ j = at
    <3>1. m[i].id <= n
      BY <2>2, <1>1, <1>4
    <3>2. m[j].id = n + 1
      BY <2>2, <1>2
    <3>. QED
      BY <3>1, <3>2, <1>9
  <2>3. CASE i # at /\ j # at
    BY <2>3, <1>1, <1>4, <1>5, <1>9
  <2>. QED
    BY <2>1, <2>2, <2>3
<1>10. ASSUME NEW i \in DOMAIN m, NEW j \in DOMAIN m,
              m[i].result = m[j].result, m[i].result # None
       PROVE  i = j
  <2>1. CASE i = at /\ j # at
    BY <2>1, <1>2, <1>4, <1>7, <1>10
  <2>2. CASE i # at /\ j = at
    BY <2>2, <1>2, <1>4, <1>7, <1>10
  <2>3. CASE i # at /\ j # at
    BY <2>3, <1>1, <1>4, <1>5, <1>10
  <2>. QED
    BY <2>1, <2>2, <2>3
<1>11. RowsIn(m) = RowsIn(l) \union {e}
  <2>1. \A i \in DOMAIN m : m[i] \in RowsIn(l) \union {e}
    BY <1>2, <1>4 DEF RowsIn
  <2>2. \A j \in DOMAIN l : l[j] \in RowsIn(m)
    BY <1>4, <1>6 DEF RowsIn
  <2>3. e \in RowsIn(m)
    BY <1>2, <1>3 DEF RowsIn
  <2>. QED
    BY <2>1, <2>2, <2>3 DEF RowsIn
<1>12. Len(m) <= n + 1
  BY <1>1, <1>2
<1>13. WellKept(m, n + 1)
  BY <1>2, <1>8, <1>9, <1>10, <1>12 DEF WellKept
<1>. QED
  BY <1>2, <1>11, <1>13 DEF m

LEMMA RemoveKeeps ==
  ASSUME NEW n \in Nat, NEW l, WellKept(l, n), NEW at \in DOMAIN l
  PROVE  LET m == RemoveAt(l, at) IN
         /\ WellKept(m, n) /\ Len(m) = Len(l) - 1
         /\ RowsIn(m) = RowsIn(l) \ {l[at]}
<1> DEFINE m == RemoveAt(l, at)
           Old(i) == IF i < at THEN i ELSE i + 1
<1>1. /\ l \in Seq(Row) /\ Len(l) \in Nat /\ Len(l) <= n
      /\ DOMAIN l = 1 .. Len(l) /\ at \in 1 .. Len(l)
      /\ \A i \in DOMAIN l : l[i].id <= n
      /\ \A i, j \in DOMAIN l : l[i].id = l[j].id => i = j
      /\ \A i, j \in DOMAIN l :
            l[i].result = l[j].result /\ l[i].result # None => i = j
  BY DEF WellKept
<1>2. /\ m \in Seq(Row) /\ Len(m) = Len(l) - 1
      /\ \A i \in 1 .. at - 1 : m[i] = l[i]
      /\ \A i \in at .. Len(l) - 1 : m[i] = l[i + 1]
  BY <1>1, RemoveAtFacts
<1> HIDE DEF m
<1>3. DOMAIN m = 1 .. Len(l) - 1
  BY <1>1, <1>2
<1>4. ASSUME NEW i \in DOMAIN m
      PROVE  Old(i) \in DOMAIN l /\ Old(i) # at /\ m[i] = l[Old(i)]
  <2>1. CASE i < at
    <3>1. i \in 1 .. at - 1 /\ Old(i) = i /\ i \in DOMAIN l /\ i # at
      BY <1>1, <1>3, <2>1
    <3>. QED
      BY <1>2, <3>1
  <2>2. CASE ~(i < at)
    <3>1. i \in at .. Len(l) - 1 /\ Old(i) = i + 1 /\ i + 1 \in DOMAIN l
            /\ i + 1 # at
      BY <1>1, <1>3, <2>2
    <3>. QED
      BY <1>2, <3>1
  <2>. QED
    BY <2>1, <2>2
<1>5. \A i, j \in DOMAIN m : Old(i) = Old(j) => i = j
  BY <1>1, <1>3
<1>6. \A j \in DOMAIN l : j # at => \E i \in DOMAIN m : Old(i) = j
  <2> SUFFICES ASSUME NEW j \in DOMAIN l, j # at
               PROVE  \E i \in DOMAIN m : Old(i) = j
    OBVIOUS
  <2>1. CASE j < at
    BY <2>1, <1>1, <1>3
  <2>2. CASE ~(j < at)
    <3>1. j - 1 \in DOMAIN m /\ Old(j - 1) = j
      BY <2>2, <1>1, <1>3
    <3>. QED
      BY <3>1
  <2>. QED
    BY <2>1, <2>2
<1> HIDE DEF Old
<1>7. RowsIn(m) = RowsIn(l) \ {l[at]}
  <2>1. \A i \in DOMAIN m : m[i] \in RowsIn(l) \ {l[at]}
    BY <1>1, <1>4 DEF RowsIn
  <2>2. \A j \in DOMAIN l : l[j] # l[at] => l[j] \in RowsIn(m)
    BY <1>4, <1>6 DEF RowsIn
  <2>. QED
    BY <2>1, <2>2 DEF RowsIn
<1>8. Len(m) <= n
  BY <1>1, <1>2
<1>9. WellKept(m, n)
  <2>1. \A i \in DOMAIN m : m[i].id <= n
    BY <1>1, <1>4
  <2>2. \A i, j \in DOMAIN m : m[i].id = m[j].id => i = j
    BY <1>1, <1>4, <1>5
  <2>3. \A i, j \in DOMAIN m :
           m[i].result = m[j].result /\ m[i].result # None => i = j
    BY <1>1, <1>4, <1>5
  <2>. QED
    BY <1>2, <1>8, <2>1, <2>2, <2>3 DEF WellKept
<1>. QED
  BY <1>2, <1>7, <1>9 DEF m

(* A row of the table with other parts.                                    *)
Rewritten(r, parts) ==
    IF r.id = current THEN [r EXCEPT !.parts = parts] ELSE r

LEMMA StoredKeeps ==
  ASSUME NEW n \in Nat, WellKept(log, n), NEW parts \in Parts
  PROVE  /\ WellKept(Stored(parts), n)
         /\ Len(Stored(parts)) = Len(log)
         /\ RowsIn(Stored(parts)) = {Rewritten(r, parts) : r \in RowsIn(log)}
         /\ ResultsIn(RowsIn(Stored(parts))) = ResultsIn(RowsIn(log))
<1> DEFINE m == Stored(parts)
<1>1. /\ log \in Seq(Row) /\ Len(log) \in Nat /\ Len(log) <= n
      /\ DOMAIN log = 1 .. Len(log)
      /\ \A i \in DOMAIN log : log[i] \in Row
      /\ \A i \in DOMAIN log : log[i].id <= n
      /\ \A i, j \in DOMAIN log : log[i].id = log[j].id => i = j
      /\ \A i, j \in DOMAIN log :
            log[i].result = log[j].result /\ log[i].result # None => i = j
  BY DEF WellKept
<1>2. ASSUME NEW r \in Row
      PROVE  /\ Rewritten(r, parts) \in Row
             /\ Rewritten(r, parts).id = r.id
             /\ Rewritten(r, parts).result = r.result
  BY DEF Rewritten, Row
<1>3. /\ DOMAIN m = DOMAIN log
      /\ \A i \in DOMAIN log : m[i] = Rewritten(log[i], parts)
  BY DEF Stored, Rewritten
<1> HIDE DEF m
<1>4. m = [i \in 1 .. Len(log) |-> Rewritten(log[i], parts)]
  BY <1>1 DEF m, Stored, Rewritten
<1>5. m \in Seq(Row) /\ Len(m) = Len(log)
  BY <1>1, <1>2, <1>4
<1>6. \A i \in DOMAIN log :
         m[i].id = log[i].id /\ m[i].result = log[i].result
  BY <1>1, <1>2, <1>3
<1>7. WellKept(m, n)
  BY <1>1, <1>3, <1>5, <1>6 DEF WellKept
<1>8. RowsIn(m) = {Rewritten(r, parts) : r \in RowsIn(log)}
  BY <1>3 DEF RowsIn
<1>9. ResultsIn(RowsIn(m)) = ResultsIn(RowsIn(log))
  <2>1. \A i \in DOMAIN log : m[i] \in RowsIn(m) /\ log[i] \in RowsIn(log)
    BY <1>3 DEF RowsIn
  <2>2. ASSUME NEW r \in RowsIn(m)
        PROVE  \E s \in RowsIn(log) : r.result = s.result
    <3>1. PICK i \in DOMAIN log : r = m[i]
      BY <1>3 DEF RowsIn
    <3>. QED
      BY <1>6, <2>1, <3>1
  <2>3. ASSUME NEW r \in RowsIn(log)
        PROVE  \E s \in RowsIn(m) : r.result = s.result
    <3>1. PICK i \in DOMAIN log : r = log[i]
      BY DEF RowsIn
    <3>. QED
      BY <1>6, <2>1, <3>1
  <2>. QED
    BY <2>2, <2>3 DEF ResultsIn
<1>. QED
  BY <1>5, <1>7, <1>8, <1>9 DEF m

-----------------------------------------------------------------------------
(* The invariant.                                                          *)

(* The table is well kept; each variable has its type.                     *)
Kept ==
    /\ created \in 0 .. MaxRows
    /\ WellKept(log, created)
    /\ second \in 0 .. Len(log)
    /\ current \in Id \union {None}
    /\ memory \in Parts
    /\ memory.open \subseteq memory.calls
    /\ todo \subseteq Call /\ seen \subseteq Call

(* The error path: a call it has yet to look at has no result but those it *)
(* saw, one it has looked at has a result and is not open.                 *)
Repairing ==
    phase = "repair" =>
        /\ memory.open \subseteq todo
        /\ memory.calls \ todo \subseteq ResultsIn(Rows)
        /\ seen \subseteq ResultsIn(Rows)
        /\ \A c \in todo \ seen : c \notin ResultsIn(Rows)

Finished(x) == \E r \in Rows : r.id = x /\ r.role = "summary" /\ r.parts.ended

(* What the session and its clients' copies point to is a finished summary. *)
Pointed ==
    /\ pointer \in pointers /\ pointers \subseteq Id \union {None}
    /\ \A x \in pointers : x # None => Finished(x)

(* The row the turn is writing is none of those; while it is a summary it  *)
(* is there, and finished before the session points to it.                 *)
Writing ==
    /\ current # None => current \notin pointers /\ current <= created
    /\ phase = "summary" =>
          \E r \in Rows : r.id = current /\ r.role = "summary"
    /\ phase = "save" => Finished(current)

CInv == Kept /\ Repairing /\ Pointed /\ Writing

LEMMA CreateKeeps ==
  ASSUME NEW l, NEW row, Kept, WellKept(l, created), Len(l) = Len(log),
         row.role \in {"user", "assistant", "summary", "tool"},
         row.parts \in Parts, row.result \in Call \union {None},
         row.result = None \/ row.result \notin ResultsIn(RowsIn(l)),
         Create(l, row)
  PROVE  /\ created' = created + 1 /\ created' \in 0 .. MaxRows
         /\ WellKept(log', created')
         /\ second' \in 0 .. Len(log')
         /\ RowsIn(log') = RowsIn(l) \union {NewRow(row)}
<1>1. /\ created \in 0 .. MaxRows /\ created \in Nat
      /\ second \in 0 .. Len(log) /\ Len(log) \in Nat
  BY MaxRowsNat DEF Kept, WellKept
<1>2. created' = created + 1 /\ created' \in 0 .. MaxRows
  BY <1>1, MaxRowsNat DEF Create
<1>3. NewRow(row) \in Row /\ NewRow(row).id = created + 1
      /\ NewRow(row).result = row.result
  BY <1>1, <1>2, MaxRowsNat DEF NewRow, Row, Id
<1>4. PICK place \in Places :
         /\ log' = InsertAt(l, place[1], NewRow(row))
         /\ second' = place[2]
  BY DEF Create, NewRow
<1>5. place[1] \in 1 .. Len(l) + 1 /\ place[2] \in 0 .. Len(l) + 1
  <2>1. CASE place = <<Len(log) + 1, 1>>
    BY <2>1, <1>1
  <2>2. CASE place = <<Len(log) + 1, 0>>
    BY <2>2, <1>1
  <2>3. CASE \E at \in Latest \union {Len(log) + 1} :
                place = <<at, second + 1>>
    BY <2>3, <1>1 DEF Latest
  <2>. QED
    BY <2>1, <2>2, <2>3 DEF Places
<1>6. /\ WellKept(log', created + 1) /\ Len(log') = Len(l) + 1
      /\ RowsIn(log') = RowsIn(l) \union {NewRow(row)}
  BY <1>1, <1>3, <1>4, <1>5, InsertKeeps
<1>. QED
  BY <1>2, <1>4, <1>5, <1>6

(* What a step may do to the table: it stays well kept, and of the rows    *)
(* there were only the one the turn is writing is changed or deleted.      *)
Tends ==
    /\ created' \in 0 .. MaxRows /\ created <= created'
    /\ WellKept(log', created')
    /\ second' \in 0 .. Len(log')
    /\ \A r \in Rows : r.id # current => r \in Rows'

LEMMA RowsPrimed == Rows = RowsIn(log) /\ Rows' = RowsIn(log')
BY DEF Rows, RowsIn

LEMMA SameTends ==
  ASSUME Kept, log' = log, NoCreate
  PROVE  Tends /\ Rows' = Rows
<1>1. WellKept(log', created')
  BY DEF Kept, NoCreate
<1>2. Rows' = Rows
  BY DEF Rows
<1>. QED
  BY <1>1, <1>2, MaxRowsNat DEF Kept, NoCreate, Tends

LEMMA StoreTends ==
  ASSUME Kept, NEW parts \in Parts, log' = Stored(parts), NoCreate
  PROVE  /\ Tends
         /\ Rows' = {Rewritten(r, parts) : r \in Rows}
         /\ ResultsIn(Rows') = ResultsIn(Rows)
<1>1. created \in Nat /\ WellKept(log, created)
  BY MaxRowsNat DEF Kept
<1>2. /\ WellKept(log', created)
      /\ Len(log') = Len(log)
      /\ RowsIn(log') = {Rewritten(r, parts) : r \in RowsIn(log)}
      /\ ResultsIn(RowsIn(log')) = ResultsIn(RowsIn(log))
  BY <1>1, StoredKeeps
<1>3. \A r \in Rows : r.id # current => Rewritten(r, parts) = r
  BY DEF Rewritten
<1>. QED
  BY <1>1, <1>2, <1>3, RowsPrimed, MaxRowsNat DEF Kept, NoCreate, Tends

LEMMA CreateTends ==
  ASSUME Kept, NEW row, 
         row.role \in {"user", "assistant", "summary", "tool"},
         row.parts \in Parts, row.result \in Call \union {None},
         row.result = None \/ row.result \notin ResultsIn(Rows),
         Create(log, row)
  PROVE  /\ Tends /\ created' = created + 1
         /\ Rows' = Rows \union {NewRow(row)}
<1>1. created \in Nat /\ WellKept(log, created)
  BY MaxRowsNat DEF Kept
<1>2. /\ created' = created + 1 /\ created' \in 0 .. MaxRows
      /\ WellKept(log', created')
      /\ second' \in 0 .. Len(log')
      /\ RowsIn(log') = RowsIn(log) \union {NewRow(row)}
  BY <1>1, RowsPrimed, CreateKeeps
<1>. QED
  BY <1>1, <1>2, RowsPrimed DEF Tends

LEMMA RowForms ==
  /\ Empty \in Parts
  /\ UserRow.role = "user" /\ UserRow.parts = Empty /\ UserRow.result = None
  /\ AssistantRow.role = "assistant" /\ AssistantRow.parts = Empty
  /\ AssistantRow.result = None
  /\ SummaryRow.role = "summary" /\ SummaryRow.parts = Empty
  /\ SummaryRow.result = None
  /\ \A c : /\ ToolRow(c).role = "tool" /\ ToolRow(c).parts = Empty
            /\ ToolRow(c).result = c
BY DEF Empty, Parts, UserRow, AssistantRow, SummaryRow, ToolRow

(* The parts an open call is closed with.                                  *)
Closing(c) == [memory EXCEPT !.open = @ \ {c}]

LEMMA ClosingParts ==
  ASSUME Kept, NEW c
  PROVE  /\ Closing(c) \in Parts
         /\ Closing(c).open = memory.open \ {c}
         /\ Closing(c).calls = memory.calls
BY DEF Kept, Parts, Closing

LEMMA RepairTends ==
  ASSUME Kept, Repairing, NEW c \in Call, RepairCall(c)
  PROVE  /\ Tends
         /\ c \in ResultsIn(Rows')
         /\ \A d \in Call : d # c =>
               (d \in ResultsIn(Rows') <=> d \in ResultsIn(Rows))
<1> DEFINE stored == IF c \in memory.open THEN Stored(Closing(c)) ELSE log
<1>1. created \in Nat /\ WellKept(log, created)
  BY MaxRowsNat DEF Kept
<1>2. /\ WellKept(stored, created)
      /\ Len(stored) = Len(log)
      /\ ResultsIn(RowsIn(stored)) = ResultsIn(RowsIn(log))
      /\ \A r \in RowsIn(log) : r.id # current => r \in RowsIn(stored)
  <2>1. CASE c \in memory.open
    <3>1. /\ WellKept(Stored(Closing(c)), created)
          /\ Len(Stored(Closing(c))) = Len(log)
          /\ RowsIn(Stored(Closing(c))) =
                {Rewritten(r, Closing(c)) : r \in RowsIn(log)}
          /\ ResultsIn(RowsIn(Stored(Closing(c)))) = ResultsIn(RowsIn(log))
      BY <1>1, ClosingParts, StoredKeeps
    <3>2. \A r \in RowsIn(log) : r.id # current => Rewritten(r, Closing(c)) = r
      BY DEF Rewritten
    <3>. QED
      BY <2>1, <3>1, <3>2
  <2>2. CASE c \notin memory.open
    BY <2>2, <1>1
  <2>. QED
    BY <2>1, <2>2
<1>3. /\ phase = "repair" /\ c \in todo
      /\ IF c \in seen THEN log' = stored /\ NoCreate
         ELSE Create(stored, ToolRow(c))
  BY DEF RepairCall, Closing
<1>4. /\ seen \subseteq ResultsIn(Rows)
      /\ \A d \in todo \ seen : d \notin ResultsIn(Rows)
  BY <1>3 DEF Repairing
<1> HIDE DEF stored
<1>5. CASE c \in seen
  <2>1. log' = stored /\ created' = created /\ second' = second
    BY <1>3, <1>5 DEF NoCreate
  <2>. QED
    BY <1>1, <1>2, <1>4, <1>5, <2>1, RowsPrimed, MaxRowsNat DEF Kept, Tends
<1>6. CASE c \notin seen
  <2>1. Create(stored, ToolRow(c))
    BY <1>3, <1>6
  <2>2. ToolRow(c).result \notin ResultsIn(RowsIn(stored))
    BY <1>2, <1>3, <1>4, <1>6, RowForms, RowsPrimed
  <2>3. /\ created' = created + 1 /\ created' \in 0 .. MaxRows
        /\ WellKept(log', created')
        /\ second' \in 0 .. Len(log')
        /\ RowsIn(log') = RowsIn(stored) \union {NewRow(ToolRow(c))}
    BY <1>2, <2>1, <2>2, RowForms, CreateKeeps
  <2>4. NewRow(ToolRow(c)).result = c
    BY RowForms DEF NewRow
  <2>5. ResultsIn(RowsIn(log')) = ResultsIn(RowsIn(log)) \union {c}
    BY <1>2, <2>3, <2>4, NoneFresh DEF ResultsIn
  <2>6. Tends
    BY <1>1, <1>2, <2>3, RowsPrimed DEF Tends
  <2>7. ResultsIn(Rows') = ResultsIn(Rows) \union {c}
    BY <2>5, RowsPrimed
  <2>. QED
    BY <2>6, <2>7
<1>. QED
  BY <1>5, <1>6

(* Every step tends the table.                                             *)
LEMMA StepTends ==
  ASSUME CInv, [Next]_vars
  PROVE  Tends
<1> Kept /\ Repairing
  BY DEF CInv
<1> USE RowForms
<1>1. CASE UNCHANGED vars
  BY <1>1, SameTends DEF vars, NoCreate
<1>2. CASE BeginTurn \/ WriteQueued
  BY <1>2, CreateTends DEF BeginTurn, WriteQueued
<1>3. CASE PrepareStep \/ BeginSummary
  BY <1>3, CreateTends DEF PrepareStep, BeginSummary
<1>4. CASE TextDelta
  <2>1. [memory EXCEPT !.text = TRUE] \in Parts
    BY DEF Kept, Parts
  <2>. QED
    BY <1>4, <2>1, SameTends, StoreTends DEF TextDelta, Update
<1>5. CASE \E c \in Call : ToolInputStart(c)
  <2>1. PICK c \in Call : ToolInputStart(c)
    BY <1>5
  <2>2. [memory EXCEPT !.calls = @ \union {c}, !.open = @ \union {c}] \in Parts
    BY DEF Kept, Parts
  <2>. QED
    BY <2>1, <2>2, SameTends, StoreTends DEF ToolInputStart, Update
<1>6. CASE \E c \in Call : ToolCall(c)
  <2>1. PICK c \in Call : ToolCall(c)
    BY <1>6
  <2>2. [memory EXCEPT !.calls = @ \union {c}, !.open = @ \ {c}] \in Parts
    BY DEF Kept, Parts
  <2>. QED
    BY <2>1, <2>2, SameTends, StoreTends DEF ToolCall, Update
<1>7. CASE \E c \in Call : ToolResult(c)
  BY <1>7, CreateTends DEF ToolResult, Answered
<1>8. CASE FinishStep
  <2>1. [memory EXCEPT !.ended = TRUE] \in Parts
    BY DEF Kept, Parts
  <2>. QED
    BY <1>8, <2>1, SameTends, StoreTends DEF FinishStep
<1>9. CASE EndTurn \/ Fail \/ NothingToRepair \/ ListForRepair
  BY <1>9, SameTends DEF EndTurn, Fail, NothingToRepair, ListForRepair
<1>10. CASE \E c \in Call : RepairCall(c)
  BY <1>10, RepairTends
<1>11. CASE GiveUpRepair
  <2>1. CASE log' = log
    BY <1>11, <2>1, SameTends DEF GiveUpRepair
  <2>2. CASE \E c \in todo \intersect memory.open : log' = Stored(Closing(c))
    BY <1>11, <2>2, ClosingParts, StoreTends DEF GiveUpRepair
  <2>. QED
    BY <1>11, <2>1, <2>2 DEF GiveUpRepair, Closing
<1>12. CASE EndRepair \/ FinishSummary
  <2>1. [memory EXCEPT !.ended = TRUE] \in Parts
    BY DEF Kept, Parts
  <2>. QED
    BY <1>12, <2>1, StoreTends DEF EndRepair, FinishSummary
<1>13. CASE SummaryText
  <2>1. [memory EXCEPT !.text = TRUE] \in Parts
    BY DEF Kept, Parts
  <2>. QED
    BY <1>13, <2>1, StoreTends DEF SummaryText
<1>14. CASE CancelSummary
  <2>1. PICK at \in DOMAIN log :
           /\ log[at].id = current
           /\ log' = RemoveAt(log, at)
           /\ second' = IF at \in Latest THEN second - 1 ELSE second
    BY <1>14 DEF CancelSummary
  <2>2. created' = created
    BY <1>14 DEF CancelSummary
  <2>3. created \in Nat /\ WellKept(log, created) /\ second \in 0 .. Len(log)
    BY MaxRowsNat DEF Kept
  <2>4. /\ WellKept(log', created) /\ Len(log') = Len(log) - 1
        /\ RowsIn(log') = RowsIn(log) \ {log[at]}
    BY <2>1, <2>3, RemoveKeeps
  <2>5. DOMAIN log = 1 .. Len(log) /\ Len(log) \in Nat
    BY <2>3 DEF WellKept
  <2>6. second' \in 0 .. Len(log')
    BY <2>1, <2>3, <2>4, <2>5 DEF Latest
  <2>. QED
    BY <2>1, <2>2, <2>3, <2>4, <2>6, RowsPrimed, MaxRowsNat DEF Kept, Tends
<1>15. CASE FailSummary \/ SavePointer \/ Crash \/ StaleSave
  BY <1>15, SameTends DEF FailSummary, SavePointer, Crash, StaleSave
<1>. QED
  BY <1>1, <1>2, <1>3, <1>4, <1>5, <1>6, <1>7, <1>8, <1>9, <1>10, <1>11,
     <1>12, <1>13, <1>14, <1>15 DEF Next

(* The types, the parts in memory, the pointers: what else a step keeps.   *)
LEMMA StepKeepsTypes ==
  ASSUME CInv, [Next]_vars
  PROVE  /\ current' \in Id \union {None}
         /\ memory' \in Parts
         /\ memory'.open \subseteq memory'.calls
         /\ todo' \subseteq Call /\ seen' \subseteq Call
<1>1. /\ created \in 0 .. MaxRows
      /\ current \in Id \union {None}
      /\ memory \in Parts
      /\ memory.open \subseteq memory.calls
      /\ todo \subseteq Call /\ seen \subseteq Call
  BY DEF CInv, Kept
<1>2. /\ memory.calls \subseteq Call
      /\ [memory EXCEPT !.text = TRUE] \in Parts
      /\ [memory EXCEPT !.ended = TRUE] \in Parts
  BY <1>1 DEF Parts
<1>3. Empty \in Parts /\ Empty.open \subseteq Empty.calls
  BY DEF Empty, Parts
<1>4. CASE UNCHANGED <<current, memory, todo, seen>>
  BY <1>1, <1>4
<1>5. CASE Close
  BY <1>3, <1>5 DEF Close
<1>6. CASE PrepareStep \/ BeginSummary
  <2>1. created + 1 \in Id
    BY <1>1, <1>6, MaxRowsNat DEF PrepareStep, BeginSummary, Create, Id
  <2>. QED
    BY <1>1, <1>3, <1>6, <2>1 DEF PrepareStep, BeginSummary, KeepTurn
<1>7. CASE TextDelta \/ FinishStep \/ SummaryText \/ FinishSummary
  <2>1. /\ \/ memory' = [memory EXCEPT !.text = TRUE]
           \/ memory' = [memory EXCEPT !.ended = TRUE]
        /\ UNCHANGED <<current, todo, seen>>
    BY <1>7 DEF TextDelta, Update, FinishStep, SummaryText, FinishSummary,
                KeepTurn
  <2>2. memory'.open = memory.open /\ memory'.calls = memory.calls
    BY <1>1, <2>1 DEF Parts
  <2>. QED
    BY <1>1, <1>2, <2>1, <2>2
<1>8. CASE \E c \in Call : ToolInputStart(c) \/ ToolCall(c)
  <2>1. PICK c \in Call :
           /\ \/ memory' = [memory EXCEPT !.calls = @ \union {c},
                                          !.open = @ \union {c}]
              \/ memory' = [memory EXCEPT !.calls = @ \union {c},
                                          !.open = @ \ {c}]
           /\ UNCHANGED <<current, todo, seen>>
    BY <1>8 DEF ToolInputStart, ToolCall, Update, KeepTurn
  <2>2. CASE memory' = [memory EXCEPT !.calls = @ \union {c},
                                      !.open = @ \union {c}]
    <3>1. memory' \in Parts
      BY <1>1, <2>2 DEF Parts
    <3>2. /\ memory'.calls = memory.calls \union {c}
          /\ memory'.open = memory.open \union {c}
      BY <1>1, <2>2 DEF Parts
    <3>. QED
      BY <1>1, <2>1, <3>1, <3>2
  <2>3. CASE memory' = [memory EXCEPT !.calls = @ \union {c},
                                      !.open = @ \ {c}]
    <3>1. memory' \in Parts
      BY <1>1, <2>3 DEF Parts
    <3>2. /\ memory'.calls = memory.calls \union {c}
          /\ memory'.open = memory.open \ {c}
      BY <1>1, <2>3 DEF Parts
    <3>. QED
      BY <1>1, <2>1, <3>1, <3>2
  <2>. QED
    BY <2>1, <2>2, <2>3
<1>9. CASE ListForRepair
  <2>1. ResultsIn(Rows) \subseteq Call
    <3>1. WellKept(log, created) /\ created \in Nat
      BY <1>1, MaxRowsNat DEF CInv, Kept
    <3>2. \A r \in Rows : r.result \in Call \union {None}
      BY <3>1, RowsWellKept, RowsPrimed DEF Row
    <3>. QED
      BY <3>2 DEF ResultsIn
  <2>. QED
    BY <1>1, <1>2, <1>9, <2>1 DEF ListForRepair
<1>10. CASE \E c \in Call : RepairCall(c)
  <2>1. PICK c \in Call : RepairCall(c)
    BY <1>10
  <2>2. memory' = Closing(c) /\ todo' = todo \ {c}
        /\ UNCHANGED <<current, seen>>
    BY <2>1 DEF RepairCall, Closing
  <2>3. /\ Closing(c) \in Parts
        /\ Closing(c).open = memory.open \ {c}
        /\ Closing(c).calls = memory.calls
    BY ClosingParts DEF CInv
  <2>. QED
    BY <1>1, <2>2, <2>3
<1>11. \/ UNCHANGED <<current, memory, todo, seen>>
       \/ Close \/ PrepareStep \/ BeginSummary
       \/ TextDelta \/ FinishStep \/ SummaryText \/ FinishSummary
       \/ \E c \in Call : ToolInputStart(c) \/ ToolCall(c)
       \/ ListForRepair
       \/ \E c \in Call : RepairCall(c)
  <2>1. CASE UNCHANGED vars
    BY <2>1 DEF vars
  <2>2. CASE BeginTurn \/ WriteQueued \/ Fail \/ StaleSave
    BY <2>2 DEF BeginTurn, WriteQueued, Fail, StaleSave, KeepTurn
  <2>3. CASE \E c \in Call : ToolResult(c)
    BY <2>3 DEF ToolResult, KeepTurn
  <2>4. CASE \/ EndTurn \/ NothingToRepair \/ GiveUpRepair \/ EndRepair
             \/ CancelSummary \/ FailSummary \/ SavePointer \/ Crash
    BY <2>4 DEF EndTurn, NothingToRepair, GiveUpRepair, EndRepair,
                CancelSummary, FailSummary, SavePointer, Crash
  <2>. QED
    BY <2>1, <2>2, <2>3, <2>4 DEF Next
<1>. QED
  BY <1>4, <1>5, <1>6, <1>7, <1>8, <1>9, <1>10, <1>11

LEMMA StepKeepsRepairing ==
  ASSUME CInv, [Next]_vars
  PROVE  Repairing'
<1> SUFFICES ASSUME phase' = "repair"
             PROVE  /\ memory'.open \subseteq todo'
                    /\ memory'.calls \ todo' \subseteq ResultsIn(Rows')
                    /\ seen' \subseteq ResultsIn(Rows')
                    /\ \A c \in todo' \ seen' : c \notin ResultsIn(Rows')
  BY DEF Repairing, Rows, ResultsIn
<1> Kept /\ Repairing
  BY DEF CInv
<1>1. CASE ListForRepair
  <2>1. /\ seen' = ResultsIn(Rows) /\ todo' = memory.calls
        /\ memory' = memory /\ Rows' = Rows
    BY <1>1 DEF ListForRepair, Rows
  <2>. QED
    BY <2>1 DEF Kept
<1>2. CASE \E c \in Call : RepairCall(c)
  <2>1. PICK c \in Call : RepairCall(c)
    BY <1>2
  <2>2. /\ memory' = Closing(c) /\ todo' = todo \ {c} /\ seen' = seen
        /\ phase = "repair" /\ c \in todo
    BY <2>1 DEF RepairCall, Closing
  <2>3. /\ Closing(c).open = memory.open \ {c}
        /\ Closing(c).calls = memory.calls
    BY ClosingParts
  <2>4. /\ c \in ResultsIn(Rows')
        /\ \A d \in Call : d # c =>
              (d \in ResultsIn(Rows') <=> d \in ResultsIn(Rows))
    BY <2>1, RepairTends
  <2>5. /\ memory.open \subseteq todo
        /\ memory.calls \ todo \subseteq ResultsIn(Rows)
        /\ seen \subseteq ResultsIn(Rows)
        /\ \A d \in todo \ seen : d \notin ResultsIn(Rows)
        /\ memory.calls \subseteq Call /\ seen \subseteq Call
        /\ todo \subseteq Call
    BY <2>2 DEF Repairing, Kept, Parts
  <2>. QED
    BY <2>2, <2>3, <2>4, <2>5
<1>3. CASE UNCHANGED <<log, phase, memory, todo, seen>>
  <2>1. Rows' = Rows
    BY <1>3 DEF Rows
  <2>. QED
    BY <1>3, <2>1 DEF Repairing
<1>4. \/ ListForRepair \/ \E c \in Call : RepairCall(c)
      \/ UNCHANGED <<log, phase, memory, todo, seen>>
  <2>1. CASE UNCHANGED vars \/ StaleSave
    BY <2>1 DEF vars, StaleSave
  <2>2. CASE \/ EndTurn \/ NothingToRepair \/ GiveUpRepair \/ EndRepair
             \/ CancelSummary \/ FailSummary \/ SavePointer \/ Crash
    BY <2>2 DEF EndTurn, NothingToRepair, GiveUpRepair, EndRepair,
                CancelSummary, FailSummary, SavePointer, Crash, Close
  <2>3. CASE BeginTurn \/ WriteQueued \/ PrepareStep \/ BeginSummary
    BY <2>3 DEF BeginTurn, WriteQueued, NextStep, PrepareStep, BeginSummary
  <2>4. CASE TextDelta \/ FinishStep \/ SummaryText \/ FinishSummary \/ Fail
    BY <2>4 DEF TextDelta, Update, FinishStep, SummaryText, FinishSummary, Fail
  <2>5. CASE \E c \in Call : ToolInputStart(c) \/ ToolCall(c) \/ ToolResult(c)
    BY <2>5 DEF ToolInputStart, ToolCall, ToolResult, Update
  <2>. QED
    BY <2>1, <2>2, <2>3, <2>4, <2>5 DEF Next
<1>. QED
  BY <1>1, <1>2, <1>3, <1>4

(* What a client's copy may point to stays: it is not the row being        *)
(* written.                                                                *)
LEMMA PointedStays ==
  ASSUME CInv, Tends, NEW x \in pointers, x # None
  PROVE  /\ \E r \in Rows' : r.id = x /\ r.role = "summary" /\ r.parts.ended
         /\ x \in Nat /\ x <= created
<1>1. PICK r \in Rows : r.id = x /\ r.role = "summary" /\ r.parts.ended
  BY DEF CInv, Pointed, Finished
<1>2. x # current
  BY DEF CInv, Writing
<1>3. r \in Rows'
  BY <1>1, <1>2 DEF Tends
<1>4. WellKept(log, created) /\ created \in Nat
  BY MaxRowsNat DEF CInv, Kept
<1>5. r \in Row /\ r.id <= created
  BY <1>4, RowsWellKept, RowsPrimed
<1>. QED
  BY <1>1, <1>3, <1>5, MaxRowsNat DEF Row, Id

LEMMA StepKeepsPointed ==
  ASSUME CInv, [Next]_vars
  PROVE  Pointed'
<1>1. Pointed /\ Writing /\ Kept /\ Tends
  BY StepTends DEF CInv
<1>2. CASE pointers' = pointers /\ pointer' \in pointers
  <2>1. \A x \in pointers' : x # None => Finished(x)'
    BY <1>1, <1>2, PointedStays DEF Finished, Rows
  <2>. QED
    BY <1>1, <1>2, <2>1 DEF Pointed
<1>3. CASE SavePointer
  <2>1. /\ phase = "save" /\ pointer' = current
        /\ pointers' = pointers \union {current} /\ log' = log
    BY <1>3 DEF SavePointer
  <2>2. Finished(current)
    BY <1>1, <2>1 DEF Writing
  <2>3. \A x \in pointers' : x # None => Finished(x)
    BY <1>1, <2>1, <2>2 DEF Pointed
  <2>4. \A x : Finished(x) => Finished(x)'
    BY <2>1 DEF Finished, Rows
  <2>. QED
    BY <1>1, <2>1, <2>3, <2>4 DEF Pointed, Kept
<1>4. (pointers' = pointers /\ pointer' \in pointers) \/ SavePointer
  <2>1. CASE UNCHANGED vars \/ StaleSave
    BY <1>1, <2>1 DEF vars, StaleSave, Pointed
  <2>2. CASE \/ EndTurn \/ NothingToRepair \/ GiveUpRepair \/ EndRepair
             \/ CancelSummary \/ FailSummary \/ Crash
    BY <1>1, <2>2 DEF EndTurn, NothingToRepair, GiveUpRepair, EndRepair,
                CancelSummary, FailSummary, Crash, KeepPointer, Pointed
  <2>3. CASE BeginTurn \/ WriteQueued \/ PrepareStep \/ BeginSummary
    BY <1>1, <2>3 DEF BeginTurn, WriteQueued, PrepareStep, BeginSummary,
                      KeepPointer, KeepTurn, Pointed
  <2>4. CASE TextDelta \/ FinishStep \/ SummaryText \/ FinishSummary \/ Fail
    BY <1>1, <2>4 DEF TextDelta, Update, FinishStep, SummaryText,
                      FinishSummary, Fail, KeepTurn, Pointed
  <2>5. CASE \E c \in Call : ToolInputStart(c) \/ ToolCall(c) \/ ToolResult(c)
    BY <1>1, <2>5 DEF ToolInputStart, ToolCall, ToolResult, Update, KeepTurn,
                      Pointed
  <2>6. CASE ListForRepair \/ \E c \in Call : RepairCall(c)
    BY <1>1, <2>6 DEF ListForRepair, RepairCall, KeepPointer, Pointed
  <2>. QED
    BY <2>1, <2>2, <2>3, <2>4, <2>5, <2>6 DEF Next
<1>. QED
  BY <1>2, <1>3, <1>4

(* The steps of a summary.                                                 *)
LEMMA SummaryRowIsThere ==
  ASSUME CInv, [Next]_vars, phase' = "summary"
  PROVE  \E r \in Rows' : r.id = current' /\ r.role = "summary"
<1> Kept /\ Writing
  BY DEF CInv
<1>1. CASE UNCHANGED <<log, phase, current>>
  BY <1>1 DEF Writing, Rows
<1>2. CASE BeginSummary
  <2>1. Rows' = Rows \union {NewRow(SummaryRow)} /\ current' = created + 1
    BY <1>2, RowForms, CreateTends DEF BeginSummary
  <2>2. NewRow(SummaryRow).id = created + 1 /\ NewRow(SummaryRow).role = "summary"
    BY RowForms DEF NewRow
  <2>. QED
    BY <2>1, <2>2
<1>3. CASE SummaryText
  <2> DEFINE parts == [memory EXCEPT !.text = TRUE]
  <2>1. /\ parts \in Parts /\ log' = Stored(parts) /\ NoCreate
        /\ current' = current /\ phase = "summary"
    BY <1>3 DEF Kept, Parts, SummaryText
  <2> HIDE DEF parts
  <2>2. Rows' = {Rewritten(r, parts) : r \in Rows}
    BY <2>1, StoreTends
  <2>3. PICK r \in Rows : r.id = current /\ r.role = "summary"
    BY <2>1 DEF Writing
  <2>4. r \in Row
    BY RowsWellKept, RowsPrimed, MaxRowsNat DEF Kept
  <2>5. /\ Rewritten(r, parts).id = current
        /\ Rewritten(r, parts).role = "summary"
    BY <2>3, <2>4 DEF Rewritten, Row
  <2>. QED
    BY <2>1, <2>2, <2>5
<1>4. UNCHANGED <<log, phase, current>> \/ BeginSummary \/ SummaryText
  <2>1. CASE UNCHANGED vars \/ StaleSave
    BY <2>1 DEF vars, StaleSave
  <2>2. CASE \/ EndTurn \/ NothingToRepair \/ GiveUpRepair \/ EndRepair
             \/ CancelSummary \/ FailSummary \/ SavePointer \/ Crash
    BY <2>2 DEF EndTurn, NothingToRepair, GiveUpRepair, EndRepair,
                CancelSummary, FailSummary, SavePointer, Crash, Close
  <2>3. CASE BeginTurn \/ WriteQueued \/ PrepareStep
    BY <2>3 DEF BeginTurn, WriteQueued, NextStep, PrepareStep
  <2>4. CASE TextDelta \/ FinishStep \/ FinishSummary \/ Fail
    BY <2>4 DEF TextDelta, Update, FinishStep, FinishSummary, Fail
  <2>5. CASE \E c \in Call : ToolInputStart(c) \/ ToolCall(c) \/ ToolResult(c)
    BY <2>5 DEF ToolInputStart, ToolCall, ToolResult, Update
  <2>6. CASE ListForRepair \/ \E c \in Call : RepairCall(c)
    BY <2>6 DEF ListForRepair, RepairCall
  <2>. QED
    BY <2>1, <2>2, <2>3, <2>4, <2>5, <2>6 DEF Next
<1>. QED
  BY <1>1, <1>2, <1>3, <1>4

LEMMA SummaryIsFinished ==
  ASSUME CInv, [Next]_vars, phase' = "save"
  PROVE  \E r \in Rows' :
            r.id = current' /\ r.role = "summary" /\ r.parts.ended
<1> Kept /\ Writing
  BY DEF CInv
<1>1. CASE UNCHANGED <<log, phase, current>>
  BY <1>1 DEF Writing, Finished, Rows
<1>2. CASE FinishSummary
  <2> DEFINE parts == [memory EXCEPT !.ended = TRUE]
  <2>1. /\ parts \in Parts /\ parts.ended /\ log' = Stored(parts) /\ NoCreate
        /\ current' = current /\ phase = "summary"
    BY <1>2 DEF Kept, Parts, FinishSummary
  <2> HIDE DEF parts
  <2>2. Rows' = {Rewritten(r, parts) : r \in Rows}
    BY <2>1, StoreTends
  <2>3. PICK r \in Rows : r.id = current /\ r.role = "summary"
    BY <2>1 DEF Writing
  <2>4. r \in Row
    BY RowsWellKept, RowsPrimed, MaxRowsNat DEF Kept
  <2>5. /\ Rewritten(r, parts).id = current
        /\ Rewritten(r, parts).role = "summary"
        /\ Rewritten(r, parts).parts.ended
    BY <2>1, <2>3, <2>4 DEF Rewritten, Row
  <2>. QED
    BY <2>1, <2>2, <2>5
<1>3. UNCHANGED <<log, phase, current>> \/ FinishSummary
  <2>1. CASE UNCHANGED vars \/ StaleSave
    BY <2>1 DEF vars, StaleSave
  <2>2. CASE \/ EndTurn \/ NothingToRepair \/ GiveUpRepair \/ EndRepair
             \/ CancelSummary \/ FailSummary \/ SavePointer \/ Crash
    BY <2>2 DEF EndTurn, NothingToRepair, GiveUpRepair, EndRepair,
                CancelSummary, FailSummary, SavePointer, Crash, Close
  <2>3. CASE BeginTurn \/ WriteQueued \/ PrepareStep \/ BeginSummary
    BY <2>3 DEF BeginTurn, WriteQueued, NextStep, PrepareStep, BeginSummary
  <2>4. CASE TextDelta \/ FinishStep \/ SummaryText \/ Fail
    BY <2>4 DEF TextDelta, Update, FinishStep, SummaryText, Fail
  <2>5. CASE \E c \in Call : ToolInputStart(c) \/ ToolCall(c) \/ ToolResult(c)
    BY <2>5 DEF ToolInputStart, ToolCall, ToolResult, Update
  <2>6. CASE ListForRepair \/ \E c \in Call : RepairCall(c)
    BY <2>6 DEF ListForRepair, RepairCall
  <2>. QED
    BY <2>1, <2>2, <2>3, <2>4, <2>5, <2>6 DEF Next
<1>. QED
  BY <1>1, <1>2, <1>3

LEMMA StepKeepsWriting ==
  ASSUME CInv, [Next]_vars
  PROVE  Writing'
<1>1. Kept /\ Writing /\ Pointed /\ Tends
  BY StepTends DEF CInv
<1>2. created \in Nat /\ created' \in Nat /\ created <= created'
  BY <1>1, MaxRowsNat DEF Kept, Tends
<1>3. current' # None => current' \notin pointers' /\ current' <= created'
  <2>1. CASE current' = None
    BY <2>1
  <2>2. CASE UNCHANGED <<current, pointers>>
    BY <1>1, <1>2, <2>2, MaxRowsNat DEF Kept, Writing, Id
  <2>3. CASE PrepareStep \/ BeginSummary
    <3>1. /\ current' = created + 1 /\ created' = created + 1
          /\ pointers' = pointers
      BY <2>3 DEF PrepareStep, BeginSummary, Create, KeepTurn, KeepPointer
    <3>2. \A x \in pointers : x # None => x \in Nat /\ x <= created
      BY <1>1, PointedStays
    <3>. QED
      BY <1>2, <3>1, <3>2
  <2>4. \/ current' = None \/ UNCHANGED <<current, pointers>>
        \/ PrepareStep \/ BeginSummary
    <3>1. CASE UNCHANGED vars \/ StaleSave
      BY <3>1 DEF vars, StaleSave
    <3>2. CASE \/ EndTurn \/ NothingToRepair \/ GiveUpRepair \/ EndRepair
               \/ CancelSummary \/ FailSummary \/ SavePointer \/ Crash
      BY <3>2 DEF EndTurn, NothingToRepair, GiveUpRepair, EndRepair,
                  CancelSummary, FailSummary, SavePointer, Crash, Close
    <3>3. CASE BeginTurn \/ WriteQueued
      BY <3>3 DEF BeginTurn, WriteQueued, KeepTurn, KeepPointer
    <3>4. CASE TextDelta \/ FinishStep \/ SummaryText \/ FinishSummary \/ Fail
      BY <3>4 DEF TextDelta, Update, FinishStep, SummaryText, FinishSummary,
                  Fail, KeepTurn
    <3>5. CASE \E c \in Call :
                  ToolInputStart(c) \/ ToolCall(c) \/ ToolResult(c)
      BY <3>5 DEF ToolInputStart, ToolCall, ToolResult, Update, KeepTurn
    <3>6. CASE ListForRepair \/ \E c \in Call : RepairCall(c)
      BY <3>6 DEF ListForRepair, RepairCall, KeepPointer
    <3>. QED
      BY <3>1, <3>2, <3>3, <3>4, <3>5, <3>6 DEF Next
  <2>. QED
    BY <2>1, <2>2, <2>3, <2>4
<1>4. phase' = "summary" =>
         \E r \in Rows' : r.id = current' /\ r.role = "summary"
  BY SummaryRowIsThere
<1>5. phase' = "save" => Finished(current)'
  BY SummaryIsFinished DEF Finished, Rows
<1>. QED
  BY <1>3, <1>4, <1>5 DEF Writing, Rows

-----------------------------------------------------------------------------
(* The theorems.                                                           *)

(* The invariant holds: the table is well kept under every write, failing  *)
(* write, deletion and crash, and what the error path and the clients'     *)
(* copies rely on of it is so.                                             *)
THEOREM ConversationInvariance == Spec => []CInv
<1>1. Init => CInv
  <2> SUFFICES ASSUME Init PROVE CInv
    OBVIOUS
  <2>1. /\ log = <<>> /\ created = 0 /\ second = 0 /\ phase = "idle"
        /\ current = None /\ memory = Empty /\ todo = {} /\ seen = {}
        /\ pointer = None /\ pointers = {None}
    BY DEF Init
  <2>2. log \in Seq(Row) /\ Len(log) = 0 /\ DOMAIN log = {}
    BY <2>1
  <2>3. WellKept(log, created)
    BY <2>1, <2>2 DEF WellKept
  <2>4. Kept
    BY <2>1, <2>2, <2>3, RowForms, MaxRowsNat DEF Kept, Empty
  <2>. QED
    BY <2>1, <2>4 DEF CInv, Repairing, Pointed, Writing
<1>2. CInv /\ [Next]_vars => CInv'
  <2> SUFFICES ASSUME CInv, [Next]_vars PROVE CInv'
    OBVIOUS
  <2>1. Kept'
    BY StepTends, StepKeepsTypes DEF Tends, Kept
  <2>. QED
    BY <2>1, StepKeepsRepairing, StepKeepsPointed, StepKeepsWriting DEF CInv
<1>. QED
  BY <1>1, <1>2, PTL DEF Spec

(* A tool call never gets two results, in whatever order callbacks, the    *)
(* error path, failing writes and crashes come: for any number of calls    *)
(* and messages.                                                           *)
THEOREM OneResult == Spec => []OneResultPerCall
<1>1. CInv => OneResultPerCall
  <2> SUFFICES ASSUME CInv, NEW c \in Call
               PROVE  Cardinality(ResultRows(c)) <= 1
    BY DEF OneResultPerCall
  <2>1. \A i, j \in ResultRows(c) : i = j
    BY NoneFresh DEF CInv, Kept, WellKept, ResultRows
  <2>2. CASE ResultRows(c) = {}
    BY <2>2, FS_EmptySet
  <2>3. CASE ResultRows(c) # {}
    <3>1. PICK i \in ResultRows(c) : TRUE
      BY <2>3
    <3>2. ResultRows(c) = {i}
      BY <2>1, <3>1
    <3>. QED
      BY <3>2, FS_Singleton
  <2>. QED
    BY <2>2, <2>3
<1>. QED
  BY <1>1, ConversationInvariance, PTL

(* What the session's summary_message_id names is a summary that was       *)
(* finished and is still there, however old the copy a client saved.       *)
THEOREM SummaryStands == Spec => []PointerIsSummary
<1>1. CInv => PointerIsSummary
  BY DEF CInv, Pointed, Finished, PointerIsSummary
<1>. QED
  BY <1>1, ConversationInvariance, PTL

(* An error path that runs to its end leaves its message finished, with no *)
(* call open and each with a result.                                       *)
THEOREM RepairCompletes == Spec => RepairIsComplete
<1> DEFINE Done == \A i \in DOMAIN log' : log'[i].id = current =>
              /\ log'[i].parts.ended /\ log'[i].parts.open = {}
              /\ log'[i].parts.calls
                    \subseteq ResultsIn({log'[j] : j \in DOMAIN log'})
<1>1. CInv /\ [Next]_vars => [EndRepair => Done]_vars
  <2> SUFFICES ASSUME CInv, EndRepair PROVE Done
    OBVIOUS
  <2> DEFINE parts == [memory EXCEPT !.ended = TRUE]
  <2>1. /\ log' = Stored(parts) /\ NoCreate
        /\ phase = "repair" /\ todo = {}
    BY DEF EndRepair
  <2>2. /\ parts \in Parts /\ parts.ended
        /\ parts.open = {} /\ parts.calls = memory.calls
    BY <2>1 DEF CInv, Kept, Repairing, Parts
  <2> HIDE DEF parts
  <2>3. memory.calls \subseteq ResultsIn(Rows)
    BY <2>1 DEF CInv, Repairing
  <2>4. ResultsIn(Rows') = ResultsIn(Rows)
    BY <2>1, <2>2, StoreTends DEF CInv
  <2>5. \A i \in DOMAIN log' : log'[i].id = current => log'[i].parts = parts
    <3> SUFFICES ASSUME NEW i \in DOMAIN log', log'[i].id = current
                 PROVE  log'[i].parts = parts
      OBVIOUS
    <3>1. log'[i] = Rewritten(log[i], parts) /\ i \in DOMAIN log
      BY <2>1 DEF Stored, Rewritten
    <3>2. log[i] \in Row
      BY <3>1 DEF CInv, Kept, WellKept
    <3>3. log[i].id = current
      BY <3>1 DEF Rewritten
    <3>. QED
      BY <3>1, <3>2, <3>3 DEF Rewritten, Row
  <2>. QED
    BY <2>2, <2>3, <2>4, <2>5 DEF Rows
<1>. QED
  BY <1>1, ConversationInvariance, PTL DEF Spec, RepairIsComplete

(* A set of naturals has a least element.                                  *)
LEMMA LeastOf ==
  ASSUME NEW T, T \subseteq Nat, T # {}
  PROVE  \E n \in T : \A m \in T : n <= m
<1> DEFINE R == OpToRel(<, Nat)
<1>1. IsWellFoundedOn(R, Nat)
  BY NatLessThanWellFounded
<1>2. \A x \in Nat, y \in Nat : x < y => <<x, y>> \in R
  BY Zenon DEF OpToRel
<1> HIDE DEF R
<1>3. PICK x \in T : \A y \in T : <<y, x>> \notin R
  BY <1>1, WFMin
<1>4. \A y \in T : ~(y < x)
  BY <1>2, <1>3
<1>. QED
  BY <1>3, <1>4

(* A set with 0 that has the successor of each of its members has them all. *)
LEMMA Induction ==
  ASSUME NEW T, 0 \in T, \A n \in Nat : n \in T => n + 1 \in T
  PROVE  \A n \in Nat : n \in T
<1> SUFFICES ASSUME NEW n \in Nat, n \notin T PROVE FALSE
  OBVIOUS
<1> DEFINE Out == {k \in Nat : k \notin T}
<1>1. PICK m \in Out : \A k \in Out : m <= k
  BY LeastOf
<1>2. m # 0 /\ m - 1 \in Nat
  OBVIOUS
<1>3. m - 1 \in T
  BY <1>1, <1>2
<1>. QED
  BY <1>1, <1>2, <1>3


-----------------------------------------------------------------------------
(* FlattenSeq adds one sequence after the other.                           *)

Flat(f, m, n) == f = [i \in 1 .. n |-> IF i = 1 THEN m[i] ELSE f[i - 1] \o m[i]]

LEMMA FlatExists == \A m : \A n \in Nat : \E f : Flat(f, m, n)
<1> SUFFICES ASSUME NEW m PROVE \A n \in Nat : \E f : Flat(f, m, n)
  OBVIOUS
<1> DEFINE T == {n \in Nat : \E f : Flat(f, m, n)}
<1>1. 0 \in T
  <2> DEFINE f == [i \in 1 .. 0 |-> 0]
  <2>1. Flat(f, m, 0)
    BY DEF Flat
  <2>. QED
    BY <2>1
<1>2. ASSUME NEW n \in Nat, n \in T PROVE n + 1 \in T
  <2>1. PICK f : Flat(f, m, n)
    BY <1>2
  <2> DEFINE g == [i \in 1 .. n + 1 |->
                     IF i \in 1 .. n THEN f[i]
                     ELSE IF i = 1 THEN m[i] ELSE f[n] \o m[i]]
  <2>2. ASSUME NEW i \in 1 .. n + 1
        PROVE  g[i] = IF i = 1 THEN m[i] ELSE g[i - 1] \o m[i]
    <3>1. CASE i \in 1 .. n
      <4>1. g[i] = f[i] /\ f[i] = IF i = 1 THEN m[i] ELSE f[i - 1] \o m[i]
        BY <2>1, <3>1 DEF Flat
      <4>2. i # 1 => g[i - 1] = f[i - 1]
        BY <3>1
      <4>. QED
        BY <4>1, <4>2, Zenon
    <3>2. CASE i = n + 1 /\ n # 0
      <4>1. i - 1 = n /\ i \notin 1 .. n /\ n \in 1 .. n /\ n \in 1 .. n + 1 /\ i # 1
        BY <3>2
      <4>2. g[n] = f[n]
        BY <4>1, Zenon
      <4>3. g[i] = f[n] \o m[i]
        BY <4>1, Zenon
      <4>. QED
        BY <4>1, <4>2, <4>3, Zenon
    <3>3. CASE i = n + 1 /\ n = 0
      BY <3>3
    <3>. QED
      BY <3>1, <3>2, <3>3
  <2>3. Flat(g, m, n + 1)
    BY <2>2, Zenon DEF Flat
  <2> HIDE DEF g
  <2>. QED
    BY <2>3
<1> HIDE DEF T
<1>3. \A n \in Nat : n \in T
  BY <1>1, <1>2, Induction
<1>. QED
  BY <1>3 DEF T

LEMMA FlattenIs ==
  ASSUME NEW m, Len(m) \in Nat \ {0}
  PROVE  \E f : /\ f[1] = m[1]
                /\ \A i \in 1 .. Len(m) - 1 : f[i + 1] = f[i] \o m[i + 1]
                /\ FlattenSeq(m) = f[Len(m)]
<1> DEFINE n == Len(m)
           f == CHOOSE f : Flat(f, m, Len(m))
<1>1. \E g : Flat(g, m, n)
  BY FlatExists
<1>2. Flat(f, m, n)
  BY <1>1, Zenon
<1>3. FlattenSeq(m) = f[n]
  BY Zenon DEF FlattenSeq, Flat
<1> HIDE DEF f
<1>4. f[1] = m[1] /\ \A i \in 1 .. n - 1 : f[i + 1] = f[i] \o m[i + 1]
  <2>1. \A i \in 1 .. n : f[i] = IF i = 1 THEN m[i] ELSE f[i - 1] \o m[i]
    BY <1>2, Zenon DEF Flat
  <2>3. 1 \in 1 .. n
    OBVIOUS
  <2>4. ASSUME NEW i \in 1 .. n - 1 PROVE f[i + 1] = f[i] \o m[i + 1]
    <3>0. PICK k \in 1 .. n : k = i + 1
      OBVIOUS
    <3>1. f[k] = IF k = 1 THEN m[k] ELSE f[k - 1] \o m[k]
      BY <2>1, Zenon
    <3>2. k # 1 /\ k - 1 = i
      BY <3>0
    <3>3. f[k] = f[i] \o m[k]
      BY <3>1, <3>2, Zenon
    <3>. QED
      BY <3>0, <3>3, Zenon
  <2>. QED
    BY <2>1, <2>3, <2>4, Zenon
<1>. QED
  BY <1>3, <1>4, Zenon

-----------------------------------------------------------------------------
(* A history that the provider accepts but for the calls of its last       *)
(* message that still wait for their results.                              *)

AtEnd(h, i) == \A k \in i + 1 .. Len(h) : h[k].role = "tool"

Accepts(h, pending) ==
    /\ h \in Seq(Message)
    /\ h = <<>> => pending = {}
    /\ \A i \in DOMAIN h : h[i].role = "user" => h[i].calls = {}
    /\ \A i \in DOMAIN h : h[i].role = "tool" => i > 1 /\ h[i - 1].role # "user"
    /\ \A i \in DOMAIN h : h[i].role # "tool" =>
          /\ AtEnd(h, i) => pending \subseteq h[i].calls
          /\ UNION {h[j].results : j \in AnswersTo(h, i)}
                = IF AtEnd(h, i) THEN h[i].calls \ pending ELSE h[i].calls
          /\ \A j, k \in AnswersTo(h, i) :
                j # k => h[j].results \intersect h[k].results = {}

LEMMA AppendFacts ==
  ASSUME NEW h \in Seq(Message), NEW e \in Message
  PROVE  LET a == Append(h, e) IN
         /\ a \in Seq(Message) /\ Len(a) = Len(h) + 1 /\ a # <<>>
         /\ DOMAIN a = DOMAIN h \union {Len(h) + 1} /\ Len(h) + 1 \notin DOMAIN h
         /\ \A i \in DOMAIN h : a[i] = h[i]
         /\ a[Len(h) + 1] = e
OBVIOUS

LEMMA AnswersGrow ==
  ASSUME NEW h \in Seq(Message), NEW e \in Message, NEW i \in DOMAIN h
  PROVE  /\ AtEnd(Append(h, e), i) <=> AtEnd(h, i) /\ e.role = "tool"
         /\ AnswersTo(Append(h, e), i)
              = IF AtEnd(h, i) /\ e.role = "tool" THEN AnswersTo(h, i) \union {Len(h) + 1}
                ELSE AnswersTo(h, i)
         /\ AnswersTo(h, i) \subseteq DOMAIN h
<1> DEFINE a == Append(h, e)
<1>1. /\ Len(a) = Len(h) + 1 /\ a[Len(h) + 1] = e
      /\ \A k \in 1 .. Len(h) : a[k] = h[k]
      /\ Len(h) \in Nat /\ i \in 1 .. Len(h)
  OBVIOUS
<1> HIDE DEF a
<1>2. AtEnd(a, i) <=> AtEnd(h, i) /\ e.role = "tool"
  BY <1>1 DEF AtEnd
<1>3. ASSUME NEW j \in i + 1 .. Len(h)
      PROVE  (\A k \in i + 1 .. j : a[k].role = "tool")
                <=> (\A k \in i + 1 .. j : h[k].role = "tool")
  BY <1>1
<1>4. (\A k \in i + 1 .. Len(h) + 1 : a[k].role = "tool") <=> AtEnd(h, i) /\ e.role = "tool"
  BY <1>1, <1>2 DEF AtEnd
<1>5. \A j : j \in AnswersTo(a, i) <=>
            \/ j \in AnswersTo(h, i)
            \/ j = Len(h) + 1 /\ AtEnd(h, i) /\ e.role = "tool"
  BY <1>1, <1>3, <1>4 DEF AnswersTo
<1>6. AnswersTo(h, i) \subseteq DOMAIN h
  BY DEF AnswersTo
<1>. QED
  BY <1>2, <1>5, <1>6 DEF a

LEMMA NewLast ==
  ASSUME NEW h \in Seq(Message), NEW e \in Message
  PROVE  /\ AtEnd(Append(h, e), Len(h) + 1)
         /\ AnswersTo(Append(h, e), Len(h) + 1) = {}
BY DEF AtEnd, AnswersTo

(* A user's message or an assistant's, once nothing is pending.            *)
LEMMA AppendMessage ==
  ASSUME NEW h, Accepts(h, {}), NEW e \in Message, e.role # "tool",
         e.role = "user" => e.calls = {}
  PROVE  Accepts(Append(h, e), e.calls)
<1> DEFINE a == Append(h, e)
           n == Len(h) + 1
<1>1. /\ h \in Seq(Message)
      /\ \A i \in DOMAIN h : h[i].role = "user" => h[i].calls = {}
      /\ \A i \in DOMAIN h : h[i].role = "tool" => i > 1 /\ h[i - 1].role # "user"
      /\ \A i \in DOMAIN h : h[i].role # "tool" =>
          /\ UNION {h[j].results : j \in AnswersTo(h, i)} = h[i].calls
          /\ \A j, k \in AnswersTo(h, i) :
                j # k => h[j].results \intersect h[k].results = {}
  BY DEF Accepts
<1>2. /\ a \in Seq(Message) /\ a # <<>>
      /\ DOMAIN a = DOMAIN h \union {n} /\ n \notin DOMAIN h
      /\ \A i \in DOMAIN h : a[i] = h[i]
      /\ a[n] = e
  BY <1>1, AppendFacts
<1>3. \A i \in DOMAIN h : /\ ~AtEnd(a, i)
                          /\ AnswersTo(a, i) = AnswersTo(h, i)
                          /\ AnswersTo(h, i) \subseteq DOMAIN h
  BY <1>1, AnswersGrow
<1>4. AtEnd(a, n) /\ AnswersTo(a, n) = {}
  BY <1>1, NewLast
<1>5. \A i \in DOMAIN h : i > 1 => i - 1 \in DOMAIN h
  BY <1>1
<1> HIDE DEF a, n
<1>6. \A i \in DOMAIN a : a[i].role = "user" => a[i].calls = {}
  BY <1>1, <1>2
<1>7. \A i \in DOMAIN a : a[i].role = "tool" => i > 1 /\ a[i - 1].role # "user"
  BY <1>1, <1>2, <1>5
<1>8. ASSUME NEW i \in DOMAIN a, a[i].role # "tool"
      PROVE  /\ AtEnd(a, i) => e.calls \subseteq a[i].calls
             /\ UNION {a[j].results : j \in AnswersTo(a, i)}
                  = IF AtEnd(a, i) THEN a[i].calls \ e.calls ELSE a[i].calls
             /\ \A j, k \in AnswersTo(a, i) :
                  j # k => a[j].results \intersect a[k].results = {}
  <2>1. CASE i \in DOMAIN h
    <3>1. {a[j].results : j \in AnswersTo(a, i)} = {h[j].results : j \in AnswersTo(h, i)}
      BY <1>2, <1>3, <2>1
    <3>. QED
      BY <1>1, <1>2, <1>3, <1>8, <2>1, <3>1
  <2>2. CASE i = n
    <3>1. UNION {a[j].results : j \in AnswersTo(a, i)} = {}
      BY <1>4, <2>2
    <3>. QED
      BY <1>2, <1>4, <2>2, <3>1
  <2>. QED
    BY <1>2, <2>1, <2>2
<1>9. Accepts(a, e.calls)
  BY <1>2, <1>6, <1>7, <1>8, Zenon DEF Accepts
<1>. QED
  BY <1>9 DEF a

(* Results of calls that are pending.                                      *)
LEMMA AppendResults ==
  ASSUME NEW h, NEW pending, Accepts(h, pending), NEW e \in Message, e.role = "tool",
         e.results \subseteq pending, e.results # {}
  PROVE  Accepts(Append(h, e), pending \ e.results)
<1> DEFINE a == Append(h, e)
           n == Len(h) + 1
<1>1. /\ h \in Seq(Message) /\ h # <<>>
      /\ \A i \in DOMAIN h : h[i].role = "user" => h[i].calls = {}
      /\ \A i \in DOMAIN h : h[i].role = "tool" => i > 1 /\ h[i - 1].role # "user"
      /\ \A i \in DOMAIN h : h[i].role # "tool" =>
          /\ AtEnd(h, i) => pending \subseteq h[i].calls
          /\ UNION {h[j].results : j \in AnswersTo(h, i)}
                = IF AtEnd(h, i) THEN h[i].calls \ pending ELSE h[i].calls
          /\ \A j, k \in AnswersTo(h, i) :
                j # k => h[j].results \intersect h[k].results = {}
  BY DEF Accepts
<1>2. /\ a \in Seq(Message) /\ a # <<>>
      /\ DOMAIN a = DOMAIN h \union {n} /\ n \notin DOMAIN h
      /\ \A i \in DOMAIN h : a[i] = h[i]
      /\ a[n] = e
  BY <1>1, AppendFacts
<1>3. \A i \in DOMAIN h : /\ AtEnd(a, i) <=> AtEnd(h, i)
                          /\ AnswersTo(a, i) = IF AtEnd(h, i) THEN AnswersTo(h, i) \union {n}
                                               ELSE AnswersTo(h, i)
                          /\ AnswersTo(h, i) \subseteq DOMAIN h
  BY <1>1, AnswersGrow
<1>4. /\ \A i \in DOMAIN h : i > 1 => i - 1 \in DOMAIN h
      /\ n > 1 /\ n - 1 \in DOMAIN h /\ AtEnd(h, n - 1)
  BY <1>1 DEF AtEnd
<1>5. h[n - 1].role # "user"
  BY <1>1, <1>4
<1> HIDE DEF a, n
<1>6. \A i \in DOMAIN a : a[i].role = "user" => a[i].calls = {}
  BY <1>1, <1>2
<1>7. \A i \in DOMAIN a : a[i].role = "tool" => i > 1 /\ a[i - 1].role # "user"
  BY <1>1, <1>2, <1>4, <1>5
<1>8. ASSUME NEW i \in DOMAIN a, a[i].role # "tool"
      PROVE  /\ AtEnd(a, i) => pending \ e.results \subseteq a[i].calls
             /\ UNION {a[j].results : j \in AnswersTo(a, i)}
                  = IF AtEnd(a, i) THEN a[i].calls \ (pending \ e.results) ELSE a[i].calls
             /\ \A j, k \in AnswersTo(a, i) :
                  j # k => a[j].results \intersect a[k].results = {}
  <2>0. i \in DOMAIN h /\ a[i] = h[i]
    BY <1>2, <1>8
  <2>1. CASE ~AtEnd(h, i)
    <3>1. {a[j].results : j \in AnswersTo(a, i)} = {h[j].results : j \in AnswersTo(h, i)}
      BY <1>2, <1>3, <2>0, <2>1
    <3>. QED
      BY <1>1, <1>2, <1>3, <1>8, <2>0, <2>1, <3>1
  <2>2. CASE AtEnd(h, i)
    <3>1. /\ AnswersTo(a, i) = AnswersTo(h, i) \union {n} /\ AtEnd(a, i)
          /\ \A j \in AnswersTo(h, i) : a[j] = h[j]
      BY <1>2, <1>3, <2>0, <2>2
    <3>2. /\ pending \subseteq h[i].calls
          /\ UNION {h[j].results : j \in AnswersTo(h, i)} = h[i].calls \ pending
          /\ \A j, k \in AnswersTo(h, i) :
                j # k => h[j].results \intersect h[k].results = {}
      BY <1>1, <1>8, <2>0, <2>2
    <3>3. {a[j].results : j \in AnswersTo(a, i)}
            = {h[j].results : j \in AnswersTo(h, i)} \union {e.results}
      BY <1>2, <3>1
    <3>4. UNION {a[j].results : j \in AnswersTo(a, i)} = (h[i].calls \ pending) \union e.results
      BY <3>2, <3>3
    <3>5. \A j \in AnswersTo(h, i) : h[j].results \intersect e.results = {}
      BY <3>2
    <3>6. \A j, k \in AnswersTo(a, i) : j # k => a[j].results \intersect a[k].results = {}
      BY <1>2, <3>1, <3>2, <3>5
    <3>. QED
      BY <2>0, <3>1, <3>2, <3>4, <3>6
  <2>. QED
    BY <2>1, <2>2
<1>9. Accepts(a, pending \ e.results)
  BY <1>2, <1>6, <1>7, <1>8, Zenon DEF Accepts
<1>. QED
  BY <1>9 DEF a

-----------------------------------------------------------------------------
(* Rows in good order: a result follows the call it answers with nothing   *)
(* but results in between.                                                 *)

Behind(l, i, j) == i < j /\ \A k \in i + 1 .. j : l[k].role = "tool"

InOrder(l) ==
    /\ l \in Seq(Row)
    /\ \A i, j \in DOMAIN l : l[i].result = l[j].result /\ l[i].result # None => i = j
    /\ \A i \in DOMAIN l : l[i].role = "tool" <=> l[i].result # None
    /\ \A i \in DOMAIN l : l[i].role # "assistant" => l[i].parts.calls = {}
    /\ \A i, j \in DOMAIN l : l[j].result \in l[i].parts.calls => Behind(l, i, j)

(* The calls of the first n rows whose results come later.                 *)
Pending(l, n) ==
    {c \in Call : \E i, j \in DOMAIN l : /\ i <= n /\ n < j
                                         /\ c \in l[i].parts.calls /\ l[j].result = c}

Known(l) == CallsIn({r \in RowsIn(l) : r.role = "assistant"})
Sent(l, i) == ToMessages(l[i], Known(l), ResultsIn(RowsIn(l)))

LEMMA MsgFacts ==
  ASSUME NEW role \in {"user", "assistant", "tool"}, NEW calls \in SUBSET Call,
         NEW results \in SUBSET Call
  PROVE  /\ Msg(role, calls, results) \in Message
         /\ Msg(role, calls, results).role = role
         /\ Msg(role, calls, results).calls = calls
         /\ Msg(role, calls, results).results = results
BY DEF Msg, Message

LEMMA AddOne ==
  ASSUME NEW h \in Seq(Message), NEW e \in Message
  PROVE  h \o <<e>> = Append(h, e)
OBVIOUS

LEMMA AddTwo ==
  ASSUME NEW h \in Seq(Message), NEW d \in Message, NEW e \in Message
  PROVE  h \o (<<d>> \o <<e>>) = Append(Append(h, d), e)
OBVIOUS

LEMMA RowFacts ==
  ASSUME NEW l, InOrder(l), NEW i \in DOMAIN l
  PROVE  /\ l[i] \in Row
         /\ l[i].role \in {"user", "assistant", "summary", "tool"}
         /\ l[i].parts.calls \subseteq Call
         /\ l[i].result \in Call \union {None}
         /\ i \in Nat
<1>1. l[i] \in Row
  BY DEF InOrder
<1>. QED
  BY <1>1 DEF Row, Parts, InOrder

(* Before anything but a result nothing is pending.                        *)
LEMMA PendingIsClosed ==
  ASSUME NEW l, InOrder(l), NEW n \in Nat, n + 1 \in DOMAIN l, l[n + 1].role # "tool"
  PROVE  Pending(l, n) = {}
<1> SUFFICES ASSUME NEW i \in DOMAIN l, NEW j \in DOMAIN l, i <= n, n < j,
                    l[j].result \in l[i].parts.calls
             PROVE  FALSE
  BY DEF Pending
<1>1. \A k \in i + 1 .. j : l[k].role = "tool"
  BY DEF InOrder, Behind
<1>2. n + 1 \in i + 1 .. j
  BY RowFacts
<1>. QED
  BY <1>1, <1>2

(* A row that makes no calls and has no result changes nothing.            *)
LEMMA PendingPasses ==
  ASSUME NEW l, InOrder(l), NEW n \in Nat, n + 1 \in DOMAIN l,
         l[n + 1].parts.calls = {}, l[n + 1].result \notin Known(l)
  PROVE  Pending(l, n + 1) = Pending(l, n)
<1>0. \A i \in DOMAIN l : /\ i \in Nat
                          /\ l[i].role # "assistant" => l[i].parts.calls = {}
                          /\ l[i].role = "assistant" => l[i].parts.calls \subseteq Known(l)
  BY RowFacts DEF InOrder, Known, CallsIn, RowsIn
<1>1. ASSUME NEW c \in Call, NEW i \in DOMAIN l, NEW j \in DOMAIN l, i <= n, n < j,
             c \in l[i].parts.calls, l[j].result = c
      PROVE  n + 1 < j
  BY <1>0, <1>1
<1>2. ASSUME NEW c \in Call, NEW i \in DOMAIN l, NEW j \in DOMAIN l, i <= n + 1, n + 1 < j,
             c \in l[i].parts.calls, l[j].result = c
      PROVE  i <= n /\ n < j
  BY <1>0, <1>2
<1>3. \A i \in DOMAIN l : i \in Nat /\ (i <= n => i <= n + 1)
  BY <1>0
<1>. QED
  BY <1>1, <1>2, <1>3 DEF Pending

LEMMA PendingAnswered ==
  ASSUME NEW l, InOrder(l), NEW n \in Nat, n + 1 \in DOMAIN l, l[n + 1].role = "tool"
  PROVE  Pending(l, n + 1) = Pending(l, n) \ {l[n + 1].result}
<1>0. \A i \in DOMAIN l : i \in Nat
  BY RowFacts
<1>1. l[n + 1].parts.calls = {}
  BY DEF InOrder
<1>2. ASSUME NEW c \in Call, NEW i \in DOMAIN l, NEW j \in DOMAIN l, i <= n + 1, n + 1 < j,
             c \in l[i].parts.calls, l[j].result = c
      PROVE  i <= n /\ n < j /\ c # l[n + 1].result
  <2>1. j # n + 1 /\ i <= n /\ n < j
    BY <1>0, <1>1, <1>2
  <2>. QED
    BY <1>2, <2>1, NoneFresh DEF InOrder
<1>3. ASSUME NEW c \in Call, NEW i \in DOMAIN l, NEW j \in DOMAIN l, i <= n, n < j,
             c \in l[i].parts.calls, l[j].result = c, c # l[n + 1].result
      PROVE  i <= n + 1 /\ n + 1 < j
  BY <1>0, <1>3
<1>. QED
  BY <1>2, <1>3 DEF Pending

LEMMA PendingBegins ==
  ASSUME NEW l, InOrder(l), NEW n \in Nat, n + 1 \in DOMAIN l, l[n + 1].role # "tool"
  PROVE  Pending(l, n + 1) = l[n + 1].parts.calls \intersect ResultsIn(RowsIn(l))
<1>0. \A i \in DOMAIN l : i \in Nat /\ l[i].parts.calls \subseteq Call
  BY RowFacts
<1>1. Pending(l, n) = {}
  BY PendingIsClosed
<1>2. ASSUME NEW c \in Call, NEW i \in DOMAIN l, NEW j \in DOMAIN l, i <= n + 1, n + 1 < j,
             c \in l[i].parts.calls, l[j].result = c
      PROVE  c \in l[n + 1].parts.calls /\ c \in ResultsIn(RowsIn(l))
  <2>1. c \in ResultsIn(RowsIn(l))
    BY <1>2, NoneFresh DEF ResultsIn, RowsIn
  <2>2. ~(i <= n /\ n < j)
    BY <1>1, <1>2 DEF Pending
  <2>3. i = n + 1
    BY <1>0, <1>2, <2>2
  <2>. QED
    BY <1>2, <2>1, <2>3
<1>3. ASSUME NEW c \in l[n + 1].parts.calls, c \in ResultsIn(RowsIn(l))
      PROVE  \E i, j \in DOMAIN l : /\ i <= n + 1 /\ n + 1 < j
                                    /\ c \in l[i].parts.calls /\ l[j].result = c
  <2>1. PICK j \in DOMAIN l : l[j].result = c
    BY <1>3 DEF ResultsIn, RowsIn
  <2>2. n + 1 < j
    BY <2>1 DEF InOrder, Behind
  <2>3. n + 1 <= n + 1
    OBVIOUS
  <2>. QED
    BY <2>1, <2>2, <2>3
<1>. QED
  BY <1>0, <1>2, <1>3 DEF Pending

LEMMA SentIs ==
  ASSUME NEW l, NEW i
  PROVE  /\ l[i].role = "user" => Sent(l, i) = <<Msg("user", {}, {})>>
         /\ l[i].role = "tool" => Sent(l, i) = FilterOrphans({l[i].result}, Known(l))
         /\ l[i].role \in {"assistant", "summary"} /\ Blank(l[i]) => Sent(l, i) = <<>>
         /\ l[i].role \in {"assistant", "summary"} /\ ~Blank(l[i]) =>
               Sent(l, i) = <<Msg("assistant", l[i].parts.calls, {})>>
                               \o Synthetic(l[i].parts.calls, ResultsIn(RowsIn(l)))
<1> DEFINE row == l[i]
           known == Known(l)
           answered == ResultsIn(RowsIn(l))
           a == <<Msg("user", {}, {})>>
           b == FilterOrphans({row.result}, known)
           d == <<Msg("assistant", row.parts.calls, {})>> \o Synthetic(row.parts.calls, answered)
<1>1. Sent(l, i) = CASE row.role = "user" -> a
                     [] row.role = "tool" -> b
                     [] Blank(row) -> <<>>
                     [] OTHER -> d
  BY Zenon DEF Sent, ToMessages
<1>2. Blank(row) => row.role \in {"assistant", "summary"}
  BY DEF Blank
<1> HIDE DEF row, a, b, d
<1>3. /\ row.role = "user" => Sent(l, i) = a
      /\ row.role = "tool" => Sent(l, i) = b
      /\ row.role \in {"assistant", "summary"} /\ Blank(row) => Sent(l, i) = <<>>
      /\ row.role \in {"assistant", "summary"} /\ ~Blank(row) => Sent(l, i) = d
  BY <1>1, <1>2
<1>. QED
  BY <1>3 DEF row, a, b, d

(* What one more row adds to a history.                                    *)
LEMMA HistoryGrows ==
  ASSUME NEW l, InOrder(l), NEW n \in Nat, n + 1 \in DOMAIN l,
         NEW h, Accepts(h, Pending(l, n))
  PROVE  Accepts(h \o Sent(l, n + 1), Pending(l, n + 1))
<1> DEFINE row == l[n + 1]
           answered == ResultsIn(RowsIn(l))
<1>0. /\ row.role \in {"user", "assistant", "summary", "tool"}
      /\ row.parts.calls \subseteq Call
      /\ row.result \in Call \union {None}
      /\ row.role = "tool" <=> row.result # None
      /\ row.role # "assistant" => row.parts.calls = {}
      /\ h \in Seq(Message) /\ h \o <<>> = h
  <2>1. h \in Seq(Message) /\ h \o <<>> = h
    BY DEF Accepts
  <2>. QED
    BY <2>1, RowFacts DEF InOrder
<1>1. CASE row.role = "user"
  <2> DEFINE e == Msg("user", {}, {})
  <2>1. Sent(l, n + 1) = <<e>>
    BY <1>1, SentIs, Zenon
  <2>2. e \in Message /\ e.role = "user" /\ e.calls = {}
    BY MsgFacts
  <2> HIDE DEF e
  <2>3. Accepts(h, {})
    BY <1>1, PendingIsClosed
  <2>4. Accepts(Append(h, e), {})
    BY <2>2, <2>3, AppendMessage
  <2>5. Pending(l, n + 1) = {}
    BY <1>0, <1>1, PendingBegins
  <2>. QED
    BY <1>0, <2>1, <2>2, <2>4, <2>5, AddOne
<1>2. CASE row.role = "tool" /\ row.result \in Known(l)
  <2> DEFINE e == Msg("tool", {}, {row.result})
  <2>0. row.result \in Call
    BY <1>0, <1>2
  <2>1. Sent(l, n + 1) = <<e>>
    BY <1>2, SentIs DEF FilterOrphans
  <2>2. e \in Message /\ e.role = "tool" /\ e.results = {row.result}
    BY <2>0, MsgFacts
  <2> HIDE DEF e
  <2>3. row.result \in Pending(l, n)
    <3>1. PICK i \in DOMAIN l : row.result \in l[i].parts.calls
      BY <1>2 DEF Known, CallsIn, RowsIn
    <3>2. i < n + 1 /\ i \in Nat
      BY <3>1, RowFacts DEF InOrder, Behind
    <3>3. i <= n /\ n < n + 1
      BY <3>2
    <3>. QED
      BY <2>0, <3>1, <3>3 DEF Pending
  <2>4. Accepts(Append(h, e), Pending(l, n) \ {row.result})
    BY <2>2, <2>3, AppendResults
  <2>. QED
    BY <1>0, <1>2, <2>1, <2>2, <2>4, AddOne, PendingAnswered
<1>3. CASE row.role = "tool" /\ row.result \notin Known(l)
  <2>1. Sent(l, n + 1) = <<>>
    BY <1>3, SentIs DEF FilterOrphans
  <2>2. Pending(l, n + 1) = Pending(l, n)
    BY <1>0, <1>3, PendingPasses
  <2>. QED
    BY <1>0, <2>1, <2>2
<1>4. CASE row.role \in {"assistant", "summary"} /\ Blank(row)
  <2>1. Sent(l, n + 1) = <<>>
    BY <1>4, SentIs
  <2>2. Pending(l, n) = {}
    BY <1>4, PendingIsClosed
  <2>3. Pending(l, n + 1) = {}
    BY <1>4, PendingBegins DEF Blank
  <2>. QED
    BY <1>0, <2>1, <2>2, <2>3
<1>5. CASE row.role \in {"assistant", "summary"} /\ ~Blank(row)
  <2> DEFINE calls == row.parts.calls
             d == Msg("assistant", calls, {})
             e == Msg("tool", {}, calls \ answered)
  <2>1. Sent(l, n + 1) = <<d>> \o Synthetic(calls, answered)
    BY <1>5, SentIs, Zenon
  <2>2. d \in Message /\ d.role = "assistant" /\ d.calls = calls
    BY <1>0, MsgFacts
  <2>3. e \in Message /\ e.role = "tool" /\ e.results = calls \ answered
    <3>1. calls \ answered \in SUBSET Call
      BY <1>0
    <3>. QED
      BY <3>1, MsgFacts
  <2>4. calls \subseteq answered => Synthetic(calls, answered) = <<>>
    BY DEF Synthetic
  <2>5. ~(calls \subseteq answered) => Synthetic(calls, answered) = <<e>>
    BY DEF Synthetic
  <2>6. Pending(l, n + 1) = calls \intersect answered
    BY <1>5, PendingBegins
  <2>7. Accepts(h, {})
    BY <1>5, PendingIsClosed
  <2> HIDE DEF d, e, calls, answered
  <2>8. Accepts(Append(h, d), calls)
    BY <2>2, <2>7, AppendMessage
  <2>9. CASE calls \subseteq answered
    <3>1. Sent(l, n + 1) = <<d>>
      BY <2>1, <2>2, <2>4, <2>9
    <3>2. Pending(l, n + 1) = calls
      BY <2>6, <2>9
    <3>. QED
      BY <1>0, <2>2, <2>8, <3>1, <3>2, AddOne
  <2>10. CASE ~(calls \subseteq answered)
    <3>1. Sent(l, n + 1) = <<d>> \o <<e>>
      BY <2>1, <2>5, <2>10
    <3>2. Accepts(Append(Append(h, d), e), calls \ (calls \ answered))
      BY <2>3, <2>8, <2>10, AppendResults
    <3>3. Pending(l, n + 1) = calls \ (calls \ answered)
      BY <2>6
    <3>. QED
      BY <1>0, <2>2, <2>3, <3>1, <3>2, <3>3, AddTwo
  <2>. QED
    BY <2>9, <2>10
<1>. QED
  BY <1>0, <1>1, <1>2, <1>3, <1>4, <1>5

LEMMA NothingPending ==
  ASSUME NEW l, InOrder(l)
  PROVE  Pending(l, 0) = {} /\ Pending(l, Len(l)) = {} /\ Accepts(<<>>, {})
<1>1. \A i \in DOMAIN l : i \in Nat /\ ~(i <= 0) /\ ~(Len(l) < i)
  BY DEF InOrder
<1>2. Accepts(<<>>, {})
  BY DEF Accepts
<1>. QED
  BY <1>1, <1>2 DEF Pending

LEMMA SentIsSequence ==
  ASSUME NEW l, InOrder(l), NEW i \in DOMAIN l
  PROVE  <<>> \o Sent(l, i) = Sent(l, i)
<1> DEFINE a == Msg("user", {}, {})
           b == Msg("tool", {}, {l[i].result})
           d == Msg("assistant", l[i].parts.calls, {})
           e == Msg("tool", {}, l[i].parts.calls \ ResultsIn(RowsIn(l)))
<1>1. \/ Sent(l, i) = <<>> \/ Sent(l, i) = <<a>> \/ Sent(l, i) = <<b>>
      \/ Sent(l, i) = <<d>> \o <<>> \/ Sent(l, i) = <<d>> \o <<e>>
  <2>1. FilterOrphans({l[i].result}, Known(l)) \in {<<>>, <<b>>}
    BY DEF FilterOrphans
  <2>2. Synthetic(l[i].parts.calls, ResultsIn(RowsIn(l))) \in {<<>>, <<e>>}
    BY DEF Synthetic
  <2>3. l[i].role \in {"user", "assistant", "summary", "tool"}
    BY RowFacts
  <2> HIDE DEF b, e
  <2>4. CASE l[i].role = "tool"
    BY <2>1, <2>4, SentIs
  <2>5. CASE l[i].role = "user"
    BY <2>5, SentIs, Zenon
  <2>6. CASE l[i].role \in {"assistant", "summary"} /\ Blank(l[i])
    BY <2>6, SentIs, Zenon
  <2>7. CASE l[i].role \in {"assistant", "summary"} /\ ~Blank(l[i])
    <3>1. Sent(l, i) = <<d>> \o Synthetic(l[i].parts.calls, ResultsIn(RowsIn(l)))
      BY <2>7, SentIs, Zenon
    <3> HIDE DEF d
    <3>. QED
      BY <2>2, <3>1
  <2>. QED
    BY <2>3, <2>4, <2>5, <2>6, <2>7
<1> HIDE DEF a, b, d, e
<1>2. \A x, y : /\ <<>> \o <<>> = <<>> /\ <<>> \o <<x>> = <<x>>
               /\ <<>> \o (<<x>> \o <<>>) = <<x>> \o <<>>
               /\ <<>> \o (<<x>> \o <<y>>) = <<x>> \o <<y>>
  <2> SUFFICES ASSUME NEW x, NEW y
               PROVE  /\ <<>> \o <<>> = <<>> /\ <<>> \o <<x>> = <<x>>
                      /\ <<>> \o (<<x>> \o <<>>) = <<x>> \o <<>>
                      /\ <<>> \o (<<x>> \o <<y>>) = <<x>> \o <<y>>
    OBVIOUS
  <2>1. \A s \in Seq({x, y}) : <<>> \o s = s
    OBVIOUS
  <2>2. /\ <<>> \in Seq({x, y}) /\ <<x>> \in Seq({x, y})
        /\ <<x>> \o <<>> \in Seq({x, y}) /\ <<x>> \o <<y>> \in Seq({x, y})
    OBVIOUS
  <2>. QED
    BY <2>1, <2>2, Zenon
<1>. QED
  BY <1>1, <1>2, Zenon

(* The history made of such rows is accepted.                              *)
LEMMA AllIsAccepted ==
  ASSUME NEW l, InOrder(l)
  PROVE  Accepts(FlattenSeq([i \in DOMAIN l |-> Sent(l, i)]), {})
<1> DEFINE m == [i \in DOMAIN l |-> Sent(l, i)]
           n == Len(l)
<1>1. l \in Seq(Row) /\ n \in Nat /\ DOMAIN l = 1 .. n
  BY DEF InOrder
<1>2. Len(m) = n /\ \A i \in 1 .. n : m[i] = Sent(l, i)
  BY <1>1
<1>3. CASE n = 0
  <2>1. m = <<>>
    BY <1>1, <1>3
  <2> HIDE DEF m
  <2>2. FlattenSeq(m) = <<>>
    BY <2>1 DEF FlattenSeq
  <2>. QED
    BY <2>2, NothingPending DEF m
<1>4. CASE n # 0
  <2> HIDE DEF m
  <2>1. PICK f : /\ f[1] = m[1]
                 /\ \A i \in 1 .. n - 1 : f[i + 1] = f[i] \o m[i + 1]
                 /\ FlattenSeq(m) = f[n]
    BY <1>1, <1>2, <1>4, FlattenIs
  <2> DEFINE T == {k \in Nat : k = 0 \/ k > n \/ Accepts(f[k], Pending(l, k))}
  <2>2. 0 \in T
    OBVIOUS
  <2>3. ASSUME NEW k \in Nat, k \in T PROVE k + 1 \in T
    <3>1. CASE k = 0
      <4>1. 1 \in DOMAIN l /\ m[1] = Sent(l, 1)
        BY <1>1, <1>2, <1>4
      <4>2. PICK z : z = k + 1 /\ z = 1 /\ z \in DOMAIN l
        BY <3>1, <4>1
      <4>3. f[z] = <<>> \o Sent(l, z)
        <5>1. <<>> \o Sent(l, z) = Sent(l, z)
          BY <4>2, SentIsSequence
        <5>2. f[z] = m[z] /\ m[z] = Sent(l, z)
          BY <2>1, <4>1, <4>2, Zenon
        <5>. QED
          BY <5>1, <5>2, Zenon
      <4>4. Accepts(<<>>, Pending(l, k))
        BY <3>1, NothingPending
      <4>5. Accepts(<<>> \o Sent(l, k + 1), Pending(l, k + 1))
        BY <4>2, <4>4, HistoryGrows
      <4>6. Accepts(<<>> \o Sent(l, z), Pending(l, z))
        BY <4>2, <4>5, Zenon
      <4>7. Accepts(f[z], Pending(l, z))
        BY <4>3, <4>6, Zenon
      <4>. QED
        BY <4>2, <4>7
    <3>2. CASE k # 0 /\ k + 1 <= n
      <4>1. k \in 1 .. n - 1 /\ k + 1 \in DOMAIN l
        BY <1>1, <3>2
      <4>2. f[k + 1] = f[k] \o Sent(l, k + 1)
        BY <1>1, <1>2, <2>1, <4>1
      <4>3. Accepts(f[k], Pending(l, k))
        BY <1>1, <2>3, <3>2
      <4>4. Accepts(f[k] \o Sent(l, k + 1), Pending(l, k + 1))
        BY <4>1, <4>3, HistoryGrows
      <4>5. Accepts(f[k + 1], Pending(l, k + 1))
        BY <4>2, <4>4, Zenon
      <4>. QED
        BY <4>5
    <3>3. CASE k # 0 /\ ~(k + 1 <= n)
      BY <1>1, <3>3
    <3>. QED
      BY <3>1, <3>2, <3>3
  <2> HIDE DEF T
  <2>4. n \in T
    BY <1>1, <2>2, <2>3, Induction
  <2>5. Accepts(f[n], Pending(l, n))
    BY <1>1, <1>4, <2>4 DEF T
  <2>. QED
    BY <2>1, <2>5, NothingPending DEF m
<1>. QED
  BY <1>3, <1>4

-----------------------------------------------------------------------------
(* The table while a turn is writing: the row x owns the calls it has in   *)
(* memory, which the table may lag behind.                                 *)
Owned(l, i, x, own) == IF l[i].id = x THEN own ELSE l[i].parts.calls

Tidy(l, x, own) ==
    /\ \A i \in DOMAIN l : l[i].role = "tool" <=> l[i].result # None
    /\ \A i \in DOMAIN l : l[i].role # "assistant" => l[i].parts.calls = {}
    /\ \A i \in DOMAIN l : l[i].id = x =>
          /\ l[i].parts.calls \subseteq own
          /\ l[i].role = "assistant" \/ own = {}
    /\ \A i \in DOMAIN l : l[i].id # x => own \intersect l[i].parts.calls = {}
    /\ \A i, j \in DOMAIN l :
          l[j].result \in Owned(l, i, x, own) => Behind(l, i, j)

AllToolsAfter(l, x) ==
    \A i \in DOMAIN l : l[i].id = x =>
        \A k \in i + 1 .. Len(l) : l[k].role = "tool"

LEMMA AnyRow ==
  ASSUME NEW l \in Seq(Row), NEW i \in DOMAIN l
  PROVE  l[i].id # None /\ l[i].parts.calls \subseteq Call
<1>1. l[i] \in Row
  OBVIOUS
<1>2. \A x \in Id : x # None
  BY NoneFresh, MaxRowsNat DEF Id
<1>. QED
  BY <1>1, <1>2 DEF Row, Parts

LEMMA TidyIsInOrder ==
  ASSUME NEW l, NEW n, WellKept(l, n), NEW x, NEW own, Tidy(l, x, own)
  PROVE  InOrder(l)
<1>1. ASSUME NEW i \in DOMAIN l, NEW j \in DOMAIN l,
             l[j].result \in l[i].parts.calls
      PROVE  Behind(l, i, j)
  <2>1. l[i].parts.calls \subseteq Owned(l, i, x, own)
    BY DEF Tidy, Owned
  <2>. QED
    BY <1>1, <2>1 DEF Tidy
<1>2. /\ l \in Seq(Row)
      /\ \A i, j \in DOMAIN l :
            l[i].result = l[j].result /\ l[i].result # None => i = j
  BY DEF WellKept
<1>. QED
  BY <1>1, <1>2 DEF Tidy, InOrder

(* The writer lets go of its row.                                          *)
LEMMA TidyReleased ==
  ASSUME NEW l \in Seq(Row), NEW x, NEW own, Tidy(l, x, own)
  PROVE  Tidy(l, None, {})
<1>1. \A i \in DOMAIN l : l[i].id # None
  BY AnyRow
<1>2. \A i \in DOMAIN l :
         /\ l[i].parts.calls \subseteq Owned(l, i, x, own)
         /\ Owned(l, i, None, {}) = l[i].parts.calls
  BY <1>1 DEF Tidy, Owned
<1>3. \A i, j \in DOMAIN l :
         l[j].result \in Owned(l, i, None, {}) => Behind(l, i, j)
  BY <1>2 DEF Tidy
<1>. QED
  BY <1>1, <1>3 DEF Tidy

(* It takes up a row that makes no calls yet.                              *)
LEMMA TidyTaken ==
  ASSUME NEW l \in Seq(Row), Tidy(l, None, {}), NEW x,
         \A i \in DOMAIN l : l[i].id = x => l[i].parts.calls = {}
  PROVE  Tidy(l, x, {})
<1>1. \A i \in DOMAIN l : l[i].id # None
  BY AnyRow
<1>2. \A i \in DOMAIN l : Owned(l, i, x, {}) = Owned(l, i, None, {})
  BY <1>1 DEF Owned
<1>. QED
  BY <1>2 DEF Tidy

(* The provider begins a call no row knows.                                *)
LEMMA TidyCalls ==
  ASSUME NEW l \in Seq(Row), NEW x, NEW own, Tidy(l, x, own), NEW c \in Call,
         c \notin CallsIn(RowsIn(l)), c \notin ResultsIn(RowsIn(l)),
         \A i \in DOMAIN l : l[i].id = x => l[i].role = "assistant"
  PROVE  Tidy(l, x, own \union {c})
<1>1. \A i \in DOMAIN l : c \notin l[i].parts.calls /\ l[i].result # c
  BY NoneFresh DEF CallsIn, ResultsIn, RowsIn
<1>2. \A i, j \in DOMAIN l :
         l[j].result \in Owned(l, i, x, own \union {c})
            => l[j].result \in Owned(l, i, x, own)
  BY <1>1 DEF Owned
<1>. QED
  BY <1>1, <1>2 DEF Tidy

(* Rows whose identifiers, roles and results are those of l.               *)
Same(l, m) ==
    /\ DOMAIN m = DOMAIN l /\ Len(m) = Len(l)
    /\ \A i \in DOMAIN l :
          m[i].id = l[i].id /\ m[i].role = l[i].role /\ m[i].result = l[i].result

LEMMA StoredIsSame ==
  ASSUME log \in Seq(Row), NEW parts \in Parts
  PROVE  /\ Same(log, Stored(parts))
         /\ \A i \in DOMAIN log : Stored(parts)[i].parts
               = IF log[i].id = current THEN parts ELSE log[i].parts
<1>1. /\ DOMAIN Stored(parts) = DOMAIN log
      /\ \A i \in DOMAIN log : Stored(parts)[i] =
            IF log[i].id = current THEN [log[i] EXCEPT !.parts = parts]
            ELSE log[i]
  BY DEF Stored
<1>2. Len(Stored(parts)) = Len(log)
  BY DEF Stored
<1>3. \A i \in DOMAIN log : log[i] \in Row
  OBVIOUS
<1>. QED
  BY <1>1, <1>2, <1>3 DEF Same, Row

LEMMA TidyStored ==
  ASSUME log \in Seq(Row), NEW parts \in Parts, Tidy(log, current, parts.calls)
  PROVE  Tidy(Stored(parts), current, parts.calls)
<1> DEFINE m == Stored(parts)
           own == parts.calls
<1>1. /\ DOMAIN m = DOMAIN log
      /\ \A i \in DOMAIN log :
            /\ m[i].id = log[i].id /\ m[i].role = log[i].role
            /\ m[i].result = log[i].result
            /\ m[i].parts = IF log[i].id = current THEN parts ELSE log[i].parts
  BY StoredIsSame DEF Same
<1> HIDE DEF m
<1>2. \A i \in DOMAIN log : Owned(m, i, current, own) = Owned(log, i, current, own)
  BY <1>1 DEF Owned
<1>3. ASSUME NEW i \in DOMAIN log, NEW j \in DOMAIN log, Behind(log, i, j)
      PROVE  Behind(m, i, j)
  <2>1. \A k \in i + 1 .. j : k \in DOMAIN log
    OBVIOUS
  <2>. QED
    BY <1>1, <1>3, <2>1 DEF Behind
<1>4. \A i, j \in DOMAIN m :
         m[j].result \in Owned(m, i, current, own) => Behind(m, i, j)
  BY <1>1, <1>2, <1>3 DEF Tidy
<1>5. /\ \A i \in DOMAIN m : m[i].role = "tool" <=> m[i].result # None
      /\ \A i \in DOMAIN m : m[i].role # "assistant" => m[i].parts.calls = {}
      /\ \A i \in DOMAIN m : m[i].id = current =>
            /\ m[i].parts.calls \subseteq own
            /\ m[i].role = "assistant" \/ own = {}
      /\ \A i \in DOMAIN m : m[i].id # current => own \intersect m[i].parts.calls = {}
  BY <1>1 DEF Tidy
<1>. QED
  BY <1>4, <1>5 DEF Tidy, m

(* One more row at the end.                                                *)
Grown(l, m, e) ==
    /\ Len(m) = Len(l) + 1 /\ DOMAIN m = DOMAIN l \union {Len(l) + 1}
    /\ \A i \in DOMAIN l : m[i] = l[i]
    /\ m[Len(l) + 1] = e

(* A row put in behind the others.                                         *)
LEMMA InsertedLast ==
  ASSUME NEW q \in Seq(Row), NEW e \in Row
  PROVE  LET n == InsertAt(q, Len(q) + 1, e) IN
         /\ n \in Seq(Row) /\ Len(n) = Len(q) + 1
         /\ \A i \in 1 .. Len(q) : n[i] = q[i]
         /\ n[Len(q) + 1] = e
<1> DEFINE n == InsertAt(q, Len(q) + 1, e)
           a == SubSeq(q, 1, Len(q) + 1 - 1)
           b == SubSeq(q, Len(q) + 1, Len(q))
<1>1. n = a \o <<e>> \o b
  BY DEF InsertAt
<1>2. a = q /\ b = <<>>
  OBVIOUS
<1> HIDE DEF n, a, b
<1>3. n = Append(q, e)
  BY <1>1, <1>2
<1>. QED
  BY <1>3 DEF n

LEMMA CreateAppends ==
  ASSUME ~Ties, NEW l, NEW row, Kept, WellKept(l, created), Len(l) = Len(log),
         row.role \in {"user", "assistant", "summary", "tool"},
         row.parts \in Parts, row.result \in Call \union {None},
         Create(l, row)
  PROVE  /\ Grown(l, log', NewRow(row))
         /\ NewRow(row) \in Row /\ NewRow(row).id = created + 1
         /\ NewRow(row).role = row.role /\ NewRow(row).parts = row.parts
         /\ NewRow(row).result = row.result
<1>1. l \in Seq(Row) /\ Len(l) \in Nat /\ DOMAIN l = 1 .. Len(l)
  BY DEF WellKept
<1>2. created \in Nat /\ created + 1 \in Id
  BY MaxRowsNat DEF Kept, Create, Id
<1>3. /\ NewRow(row) \in Row /\ NewRow(row).id = created + 1
      /\ NewRow(row).role = row.role /\ NewRow(row).parts = row.parts
      /\ NewRow(row).result = row.result
  BY <1>2 DEF NewRow, Row
<1>4. log' = InsertAt(l, Len(l) + 1, NewRow(row))
  <2>1. PICK place \in Places : log' = InsertAt(l, place[1], NewRow(row))
    BY DEF Create, NewRow
  <2>2. place[1] = Len(l) + 1
    BY DEF Places
  <2>. QED
    BY <2>1, <2>2
<1>5. /\ log' \in Seq(Row) /\ Len(log') = Len(l) + 1
      /\ \A i \in 1 .. Len(l) : log'[i] = l[i]
      /\ log'[Len(l) + 1] = NewRow(row)
  <2> DEFINE e == NewRow(row)
             m == InsertAt(l, Len(l) + 1, e)
  <2>1. e \in Row /\ l \in Seq(Row)
    BY <1>1, <1>3
  <2>2. log' = m
    BY <1>4
  <2> HIDE DEF e
  <2>3. /\ m \in Seq(Row) /\ Len(m) = Len(l) + 1
        /\ \A i \in 1 .. Len(l) : m[i] = l[i]
        /\ m[Len(l) + 1] = e
    BY <2>1, InsertedLast
  <2> HIDE DEF m
  <2>. QED
    BY <2>2, <2>3 DEF e
<1>. QED
  BY <1>1, <1>3, <1>5 DEF Grown

(* A row that is no result and makes no calls.                             *)
LEMMA TidyGrows ==
  ASSUME NEW l \in Seq(Row), NEW m, NEW e \in Row, Grown(l, m, e),
         NEW x, NEW own \in SUBSET Call, Tidy(l, x, own),
         e.role # "tool", e.result = None, e.parts.calls = {}, e.id # x
  PROVE  Tidy(m, x, own)
<1> DEFINE n == Len(l) + 1
<1>1. /\ DOMAIN m = DOMAIN l \union {n} /\ n \notin DOMAIN l
      /\ \A i \in DOMAIN l : m[i] = l[i]
      /\ m[n] = e
  BY DEF Grown
<1>2. \A i, j \in DOMAIN l : Behind(l, i, j) => Behind(m, i, j)
  <2> SUFFICES ASSUME NEW i \in DOMAIN l, NEW j \in DOMAIN l, Behind(l, i, j)
               PROVE  Behind(m, i, j)
    OBVIOUS
  <2>1. \A k \in i + 1 .. j : k \in DOMAIN l
    OBVIOUS
  <2>. QED
    BY <1>1, <2>1 DEF Behind
<1>3. \A i \in DOMAIN l : l[i].parts.calls \subseteq Call
  BY AnyRow
<1> HIDE DEF n
<1>4. /\ \A i \in DOMAIN l : Owned(m, i, x, own) = Owned(l, i, x, own)
      /\ \A i \in DOMAIN l : Owned(l, i, x, own) \subseteq Call
      /\ Owned(m, n, x, own) = {}
  BY <1>1, <1>3 DEF Owned
<1>5. \A i, j \in DOMAIN m : m[j].result \in Owned(m, i, x, own) => Behind(m, i, j)
  BY <1>1, <1>2, <1>4, NoneFresh DEF Tidy
<1>6. /\ \A i \in DOMAIN m : m[i].role = "tool" <=> m[i].result # None
      /\ \A i \in DOMAIN m : m[i].role # "assistant" => m[i].parts.calls = {}
      /\ \A i \in DOMAIN m : m[i].id = x =>
            /\ m[i].parts.calls \subseteq own
            /\ m[i].role = "assistant" \/ own = {}
      /\ \A i \in DOMAIN m : m[i].id # x => own \intersect m[i].parts.calls = {}
  BY <1>1 DEF Tidy
<1>. QED
  BY <1>5, <1>6 DEF Tidy

(* The result of a call of the row that is written, when only results      *)
(* follow that row.                                                        *)
LEMMA TidyAnswered ==
  ASSUME NEW l \in Seq(Row), NEW m, NEW e \in Row, Grown(l, m, e),
         NEW x, NEW own \in SUBSET Call, Tidy(l, x, own), AllToolsAfter(l, x),
         e.role = "tool", e.result \in own, e.parts.calls = {}, e.id # x
  PROVE  Tidy(m, x, own) /\ AllToolsAfter(m, x)
<1> DEFINE n == Len(l) + 1
<1>1. /\ DOMAIN m = DOMAIN l \union {n} /\ n \notin DOMAIN l /\ Len(m) = n
      /\ \A i \in DOMAIN l : m[i] = l[i]
      /\ m[n] = e
  BY DEF Grown
<1>2. \A i, j \in DOMAIN l : Behind(l, i, j) => Behind(m, i, j)
  <2> SUFFICES ASSUME NEW i \in DOMAIN l, NEW j \in DOMAIN l, Behind(l, i, j)
               PROVE  Behind(m, i, j)
    OBVIOUS
  <2>1. \A k \in i + 1 .. j : k \in DOMAIN l
    OBVIOUS
  <2>. QED
    BY <1>1, <2>1 DEF Behind
<1>3. ASSUME NEW i \in DOMAIN l, l[i].id = x
      PROVE  /\ Behind(m, i, n)
             /\ \A k \in i + 1 .. n : m[k].role = "tool"
  <2>1. i \in Nat /\ i < n
    OBVIOUS
  <2>2. \A k \in i + 1 .. Len(l) : l[k].role = "tool" /\ k \in DOMAIN l
    BY <1>3 DEF AllToolsAfter
  <2>3. \A k \in i + 1 .. n : k = n \/ k \in i + 1 .. Len(l)
    BY <2>1
  <2> HIDE DEF n
  <2>4. \A k \in i + 1 .. n : m[k].role = "tool"
    BY <1>1, <2>2, <2>3
  <2>. QED
    BY <2>1, <2>4 DEF Behind
<1> HIDE DEF n
<1>4. /\ \A i \in DOMAIN l : Owned(m, i, x, own) = Owned(l, i, x, own)
      /\ Owned(m, n, x, own) = {}
  BY <1>1 DEF Owned
<1>5. \A i \in DOMAIN l : e.result \in Owned(l, i, x, own) => l[i].id = x
  BY DEF Owned, Tidy
<1>6. \A i, j \in DOMAIN m : m[j].result \in Owned(m, i, x, own) => Behind(m, i, j)
  BY <1>1, <1>2, <1>3, <1>4, <1>5 DEF Tidy
<1>7. /\ \A i \in DOMAIN m : m[i].role = "tool" <=> m[i].result # None
      /\ \A i \in DOMAIN m : m[i].role # "assistant" => m[i].parts.calls = {}
      /\ \A i \in DOMAIN m : m[i].id = x =>
            /\ m[i].parts.calls \subseteq own
            /\ m[i].role = "assistant" \/ own = {}
      /\ \A i \in DOMAIN m : m[i].id # x => own \intersect m[i].parts.calls = {}
  BY <1>1, NoneFresh DEF Tidy
<1>8. Tidy(m, x, own)
  BY <1>6, <1>7 DEF Tidy
<1>9. AllToolsAfter(m, x)
  BY <1>1, <1>3 DEF AllToolsAfter
<1>. QED
  BY <1>8, <1>9

(* A row is deleted.                                                       *)
LEMMA TidyRemoved ==
  ASSUME NEW l \in Seq(Row), NEW at \in DOMAIN l, Tidy(l, None, {})
  PROVE  Tidy(RemoveAt(l, at), None, {})
<1> DEFINE m == RemoveAt(l, at)
           Old(i) == IF i < at THEN i ELSE i + 1
<1>1. /\ Len(l) \in Nat /\ DOMAIN l = 1 .. Len(l) /\ at \in 1 .. Len(l)
      /\ \A i \in DOMAIN l : l[i].id # None
  BY AnyRow
<1>2. /\ m \in Seq(Row) /\ Len(m) = Len(l) - 1
      /\ \A i \in 1 .. at - 1 : m[i] = l[i]
      /\ \A i \in at .. Len(l) - 1 : m[i] = l[i + 1]
  BY <1>1, RemoveAtFacts
<1> HIDE DEF m
<1>3. DOMAIN m = 1 .. Len(l) - 1
  BY <1>1, <1>2
<1>4. ASSUME NEW i \in DOMAIN m
      PROVE  Old(i) \in DOMAIN l /\ m[i] = l[Old(i)]
  <2>1. CASE i < at
    <3>1. i \in 1 .. at - 1 /\ Old(i) = i /\ i \in DOMAIN l
      BY <1>1, <1>3, <2>1
    <3>. QED
      BY <1>2, <3>1
  <2>2. CASE ~(i < at)
    <3>1. i \in at .. Len(l) - 1 /\ Old(i) = i + 1 /\ i + 1 \in DOMAIN l
      BY <1>1, <1>3, <2>2
    <3>. QED
      BY <1>2, <3>1
  <2>. QED
    BY <2>1, <2>2
<1>5. ASSUME NEW i \in DOMAIN m, NEW j \in DOMAIN m, Behind(l, Old(i), Old(j))
      PROVE  Behind(m, i, j)
  <2>1. i < j
    BY <1>1, <1>3, <1>5 DEF Behind
  <2>2. \A k \in i + 1 .. j :
           k \in DOMAIN m /\ Old(k) \in Old(i) + 1 .. Old(j)
    BY <1>1, <1>3
  <2>. QED
    BY <1>4, <1>5, <2>1, <2>2 DEF Behind
<1> HIDE DEF Old
<1>6. \A i \in DOMAIN m : Owned(m, i, None, {}) = Owned(l, Old(i), None, {})
  BY <1>4 DEF Owned
<1>7. \A i, j \in DOMAIN m :
         m[j].result \in Owned(m, i, None, {}) => Behind(m, i, j)
  BY <1>4, <1>5, <1>6 DEF Tidy
<1>8. /\ \A i \in DOMAIN m : m[i].role = "tool" <=> m[i].result # None
      /\ \A i \in DOMAIN m : m[i].role # "assistant" => m[i].parts.calls = {}
      /\ \A i \in DOMAIN m : m[i].id # None
  BY <1>1, <1>4 DEF Tidy
<1>9. Tidy(m, None, {})
  BY <1>7, <1>8 DEF Tidy
<1>. QED
  BY <1>9 DEF m

-----------------------------------------------------------------------------
(* The history of a turn.                                                  *)

(* From the summary on the rows are in order as well.                      *)
LEMMA RestIsInOrder ==
  ASSUME NEW l, InOrder(l), NEW i \in DOMAIN l,
         l[i].role # "tool", l[i].role # "assistant"
  PROVE  InOrder(<<[l[i] EXCEPT !.role = "user"]>> \o SubSeq(l, i + 1, Len(l)))
<1> DEFINE head == [l[i] EXCEPT !.role = "user"]
           rest == SubSeq(l, i + 1, Len(l))
           m == <<head>> \o rest
           Old(k) == i + k - 1
<1>1. /\ l \in Seq(Row) /\ Len(l) \in Nat /\ DOMAIN l = 1 .. Len(l)
      /\ i \in 1 .. Len(l) /\ l[i] \in Row
      /\ \A j, k \in DOMAIN l :
            l[j].result = l[k].result /\ l[j].result # None => j = k
      /\ \A k \in DOMAIN l : l[k].role = "tool" <=> l[k].result # None
      /\ \A k \in DOMAIN l : l[k].role # "assistant" => l[k].parts.calls = {}
      /\ \A j, k \in DOMAIN l :
            l[k].result \in l[j].parts.calls => Behind(l, j, k)
  BY DEF InOrder
<1>2. /\ head \in Row /\ head.role = "user" /\ head.result = l[i].result
      /\ head.parts = l[i].parts
  BY <1>1 DEF Row
<1>3. /\ rest \in Seq(Row) /\ Len(rest) = Len(l) - i
      /\ \A k \in 1 .. Len(l) - i : rest[k] = l[i + k]
  BY <1>1
<1> HIDE DEF head, rest
<1>4. /\ m \in Seq(Row) /\ Len(m) = Len(l) - i + 1
      /\ m[1] = head
      /\ \A k \in 2 .. Len(l) - i + 1 : m[k] = l[Old(k)]
  <2>1. /\ m \in Seq(Row) /\ Len(m) = 1 + Len(rest)
        /\ m[1] = head
        /\ \A k \in 2 .. 1 + Len(rest) : m[k] = rest[k - 1]
    BY <1>2, <1>3
  <2> HIDE DEF m
  <2>2. ASSUME NEW k \in 2 .. Len(l) - i + 1
        PROVE  k - 1 \in 1 .. Len(l) - i /\ i + (k - 1) = Old(k)
    BY <1>1
  <2>3. \A k \in 2 .. Len(l) - i + 1 : rest[k - 1] = l[Old(k)]
    BY <1>3, <2>2
  <2>. QED
    BY <1>1, <1>3, <2>1, <2>3
<1> HIDE DEF m
<1>5. DOMAIN m = 1 .. Len(l) - i + 1
  BY <1>1, <1>4
<1>6. /\ Old(1) = i
      /\ \A k \in DOMAIN m : Old(k) \in DOMAIN l
      /\ \A j, k \in DOMAIN m : Old(j) = Old(k) => j = k
  BY <1>1, <1>5
<1>7. ASSUME NEW j \in DOMAIN m, NEW k \in DOMAIN m, Behind(l, Old(j), Old(k))
      PROVE  Behind(m, j, k)
  <2>1. j < k /\ j \in 1 .. Len(l) - i + 1 /\ k \in 1 .. Len(l) - i + 1
    BY <1>1, <1>5, <1>7 DEF Behind
  <2>2. \A p \in j + 1 .. k :
           p \in 2 .. Len(l) - i + 1 /\ Old(p) \in Old(j) + 1 .. Old(k)
    BY <1>1, <2>1
  <2>. QED
    BY <1>4, <1>7, <2>1, <2>2 DEF Behind
<1> HIDE DEF Old
<1>8. ASSUME NEW k \in DOMAIN m
      PROVE  /\ m[k].result = l[Old(k)].result /\ m[k].parts = l[Old(k)].parts
             /\ k = 1 => m[k].role = "user" /\ Old(k) = i
             /\ k # 1 => m[k].role = l[Old(k)].role
  <2>1. CASE k = 1
    BY <1>2, <1>4, <1>6, <2>1
  <2>2. CASE k # 1
    <3>1. k \in 2 .. Len(l) - i + 1
      BY <1>1, <1>5, <2>2
    <3>. QED
      BY <1>4, <2>2, <3>1
  <2>. QED
    BY <2>1, <2>2
<1>9. /\ \A j, k \in DOMAIN m :
            m[j].result = m[k].result /\ m[j].result # None => j = k
      /\ \A k \in DOMAIN m : m[k].role = "tool" <=> m[k].result # None
      /\ \A k \in DOMAIN m : m[k].role # "assistant" => m[k].parts.calls = {}
      /\ \A j, k \in DOMAIN m :
            m[k].result \in m[j].parts.calls => Behind(m, j, k)
  <2>1. \A j, k \in DOMAIN m :
            m[j].result = m[k].result /\ m[j].result # None => j = k
    BY <1>1, <1>6, <1>8
  <2>2. \A k \in DOMAIN m : m[k].role = "tool" <=> m[k].result # None
    BY <1>1, <1>6, <1>8
  <2>3. \A k \in DOMAIN m : m[k].role # "assistant" => m[k].parts.calls = {}
    BY <1>1, <1>6, <1>8
  <2>4. \A j, k \in DOMAIN m :
            m[k].result \in m[j].parts.calls => Behind(m, j, k)
    BY <1>1, <1>6, <1>7, <1>8
  <2>. QED
    BY <2>1, <2>2, <2>3, <2>4
<1>. QED
  BY <1>4, <1>9 DEF InOrder, m, head, rest

LEMMA ListedIsInOrder ==
  ASSUME CInv, Tidy(log, current, memory.calls)
  PROVE  InOrder(Listed)
<1> DEFINE at == {i \in DOMAIN log : log[i].id = pointer}
<1>1. InOrder(log)
  BY TidyIsInOrder DEF CInv, Kept
<1>2. CASE at = {}
  <2>1. Listed = log
    BY <1>2 DEF Listed
  <2>. QED
    BY <1>1, <2>1
<1>3. CASE at # {}
  <2> DEFINE i == CHOOSE i \in at : TRUE
  <2>1. Listed = <<[log[i] EXCEPT !.role = "user"]>> \o SubSeq(log, i + 1, Len(log))
    BY <1>3 DEF Listed
  <2>2. i \in DOMAIN log /\ log[i].id = pointer
    BY <1>3
  <2> HIDE DEF i
  <2>3. log[i].role = "summary"
    <3>1. pointer # None
      BY <1>1, <2>2, AnyRow DEF InOrder
    <3>2. PICK j \in DOMAIN log : log[j].id = pointer /\ log[j].role = "summary"
      BY <3>1 DEF CInv, Pointed, Finished, Rows
    <3>. QED
      BY <2>2, <3>2 DEF CInv, Kept, WellKept
  <2>. QED
    BY <1>1, <2>1, <2>2, <2>3, RestIsInOrder
<1>. QED
  BY <1>2, <1>3

LEMMA HistoryIsAccepted ==
  ASSUME CInv, Tidy(log, current, memory.calls)
  PROVE  Accepts(History, {})
<1> DEFINE l == Listed
<1>1. History = FlattenSeq([i \in DOMAIN l |-> Sent(l, i)])
  BY DEF History, Sent, Known, RowsIn
<1>2. InOrder(l)
  BY ListedIsInOrder
<1> HIDE DEF l
<1>. QED
  BY <1>1, <1>2, AllIsAccepted

LEMMA AcceptsIsAccepted ==
  ASSUME Accepts(sent, {})
  PROVE  AcceptedHistory
<1>1. \A i \in DOMAIN sent : sent[i].role # "tool" =>
          UNION {sent[j].results : j \in AnswersTo(sent, i)} = sent[i].calls
  BY DEF Accepts
<1>. QED
  BY <1>1, Zenon DEF Accepts, AcceptedHistory

-----------------------------------------------------------------------------
(* The invariant behind it, when rows are listed as they were created.     *)

(* Until an error is repaired nothing but results follows the row that is  *)
(* written, or all its calls have one.                                     *)
Trailing ==
    /\ phase = "idle" => current = None
    /\ phase = "stream" => current # None
    /\ current = None => memory.calls = {}
    /\ phase \in {"stream", "step", "failed", "repair"} =>
          /\ \A i \in DOMAIN log : log[i].id = current => log[i].role = "assistant"
          /\ \/ AllToolsAfter(log, current)
             \/ memory.calls \subseteq ResultsIn(Rows) /\ phase # "stream"
    /\ phase = "step" => memory.calls \ memory.open \subseteq ResultsIn(Rows)
    /\ phase = "repair" => todo \subseteq memory.calls
    /\ phase \in {"summary", "save"} => memory.calls = {}

Ordered ==
    /\ Tidy(log, current, memory.calls)
    /\ Trailing
    /\ Accepts(sent, {})

(* What the steps start from.                                              *)
LEMMA OrderedFacts ==
  ASSUME CInv, Ordered
  PROVE  /\ Kept /\ log \in Seq(Row) /\ memory \in Parts
         /\ memory.calls \in SUBSET Call /\ memory.open \subseteq memory.calls
         /\ Tidy(log, current, memory.calls) /\ Accepts(sent, {})
         /\ created \in Nat /\ WellKept(log, created)
         /\ created + 1 # current
<1>1. Kept /\ log \in Seq(Row) /\ memory \in Parts
      /\ memory.open \subseteq memory.calls
  BY DEF CInv, Kept, WellKept
<1>2. memory.calls \in SUBSET Call
  BY <1>1 DEF Parts
<1>3. created \in Nat /\ WellKept(log, created)
  BY MaxRowsNat DEF CInv, Kept
<1>4. created + 1 # current
  <2>1. CASE current = None
    BY <1>3, <2>1, NoneFresh
  <2>2. CASE current # None
    <3>1. current <= created /\ current \in Id
      BY <2>2 DEF CInv, Kept, Writing
    <3>. QED
      BY <1>3, <3>1, MaxRowsNat DEF Id
  <2>. QED
    BY <2>1, <2>2
<1>. QED
  BY <1>1, <1>2, <1>3, <1>4 DEF Ordered

LEMMA ClosedIsOrdered ==
  ASSUME Close, Tidy(log', None, {})
  PROVE  Ordered'
<1>1. /\ phase' = "idle" /\ current' = None /\ memory'.calls = {} /\ sent' = <<>>
  BY DEF Close, Empty
<1>2. Tidy(log, current, memory.calls)'
  BY <1>1, Zenon
<1>3. Accepts(<<>>, {})
  BY DEF Accepts
<1>4. Accepts(sent, {})'
  BY <1>1, <1>3, Zenon
<1>5. Trailing'
  BY <1>1 DEF Trailing
<1>. QED
  BY <1>2, <1>4, <1>5 DEF Ordered

(* The turn ends and leaves the table alone, or stores the message once    *)
(* more, or deletes its row.                                               *)
LEMMA EndIsOrdered ==
  ASSUME CInv, Ordered, Close,
         \/ log' = log
         \/ \E parts \in Parts : parts.calls = memory.calls /\ log' = Stored(parts)
         \/ \E at \in DOMAIN log : log' = RemoveAt(log, at)
  PROVE  Ordered'
<1>1. Tidy(log, None, {})
  BY OrderedFacts, TidyReleased
<1>2. CASE log' = log
  <2>1. Tidy(log', None, {})
    BY <1>1, <1>2, Zenon
  <2>. QED
    BY <2>1, ClosedIsOrdered
<1>3. CASE \E parts \in Parts : parts.calls = memory.calls /\ log' = Stored(parts)
  <2>1. PICK parts \in Parts : parts.calls = memory.calls /\ log' = Stored(parts)
    BY <1>3
  <2>2. Tidy(Stored(parts), current, parts.calls)
    <3>1. Tidy(log, current, parts.calls)
      BY <2>1, OrderedFacts, Zenon
    <3>. QED
      BY <3>1, OrderedFacts, TidyStored
  <2>3. Stored(parts) \in Seq(Row)
    BY OrderedFacts, StoredKeeps DEF WellKept
  <2>4. Tidy(Stored(parts), None, {})
    BY <2>2, <2>3, TidyReleased
  <2>. QED
    BY <2>1, <2>4, ClosedIsOrdered, Zenon
<1>4. CASE \E at \in DOMAIN log : log' = RemoveAt(log, at)
  <2>1. PICK at \in DOMAIN log : log' = RemoveAt(log, at)
    BY <1>4
  <2>2. Tidy(RemoveAt(log, at), None, {})
    BY <1>1, OrderedFacts, TidyRemoved
  <2>. QED
    BY <2>1, <2>2, ClosedIsOrdered, Zenon
<1>. QED
  BY <1>2, <1>3, <1>4

LEMMA SameTrails ==
  ASSUME NEW l \in Seq(Row), NEW m, Same(l, m), NEW x
  PROVE  /\ AllToolsAfter(l, x) => AllToolsAfter(m, x)
         /\ (\A i \in DOMAIN l : l[i].id = x => l[i].role = "assistant")
              => \A i \in DOMAIN m : m[i].id = x => m[i].role = "assistant"
         /\ ResultsIn(RowsIn(m)) = ResultsIn(RowsIn(l))
<1>1. /\ DOMAIN m = DOMAIN l /\ Len(m) = Len(l)
      /\ \A i \in DOMAIN l :
            m[i].id = l[i].id /\ m[i].role = l[i].role /\ m[i].result = l[i].result
  BY DEF Same
<1>2. \A i \in DOMAIN l : \A k \in i + 1 .. Len(l) : k \in DOMAIN l
  OBVIOUS
<1>3. AllToolsAfter(l, x) => AllToolsAfter(m, x)
  BY <1>1, <1>2 DEF AllToolsAfter
<1>4. /\ \A i \in DOMAIN l : m[i].result \in {r.result : r \in RowsIn(l)}
      /\ \A i \in DOMAIN l : l[i].result \in {r.result : r \in RowsIn(m)}
  BY <1>1 DEF RowsIn
<1>5. ResultsIn(RowsIn(m)) = ResultsIn(RowsIn(l))
  BY <1>1, <1>4 DEF ResultsIn, RowsIn
<1>. QED
  BY <1>1, <1>3, <1>5

(* A write of the message, or one that failed.                             *)
LEMMA WriteKeepsOrder ==
  ASSUME CInv, Ordered, NEW parts \in Parts, Tidy(log, current, parts.calls),
         log' = log \/ log' = Stored(parts),
         memory' = parts, current' = current
  PROVE  /\ Tidy(log, current, memory.calls)'
         /\ AllToolsAfter(log, current) => AllToolsAfter(log, current)'
         /\ (\A i \in DOMAIN log : log[i].id = current => log[i].role = "assistant")
              => (\A i \in DOMAIN log : log[i].id = current => log[i].role = "assistant")'
         /\ ResultsIn(Rows)' = ResultsIn(Rows)
<1>1. log \in Seq(Row)
  BY OrderedFacts
<1>2. Same(log, log')
  <2>1. CASE log' = log
    BY <2>1 DEF Same
  <2>2. CASE log' = Stored(parts)
    BY <1>1, <2>2, StoredIsSame
  <2>. QED
    BY <2>1, <2>2
<1>3. Tidy(Stored(parts), current, parts.calls)
  BY <1>1, TidyStored
<1>4. Tidy(log', current', memory'.calls)
  BY <1>3, Zenon
<1>5. /\ AllToolsAfter(log, current) => AllToolsAfter(log', current)
      /\ (\A i \in DOMAIN log : log[i].id = current => log[i].role = "assistant")
           => \A i \in DOMAIN log' : log'[i].id = current => log'[i].role = "assistant"
      /\ ResultsIn(RowsIn(log')) = ResultsIn(RowsIn(log))
  BY <1>1, <1>2, SameTrails, Zenon
<1>6. AllToolsAfter(log, current)' <=> AllToolsAfter(log', current)
  BY Zenon
<1>7. ResultsIn(Rows)' = ResultsIn(RowsIn(log')) /\ ResultsIn(Rows) = ResultsIn(RowsIn(log))
  BY DEF Rows, RowsIn, ResultsIn
<1>. QED
  BY <1>4, <1>5, <1>6, <1>7

(* The steps that leave the message's calls alone.                         *)
LEMMA QuietIsOrdered ==
  ASSUME CInv, Ordered, UNCHANGED <<log, current, memory, sent>>,
         \/ UNCHANGED <<phase, todo>>
         \/ Fail
         \/ ListForRepair
  PROVE  Ordered'
<1>1. Trailing'
  <2>1. Rows' = Rows /\ Trailing
    BY DEF Rows, Ordered
  <2>2. CASE UNCHANGED <<phase, todo>>
    BY <2>1, <2>2 DEF Trailing, AllToolsAfter
  <2>3. CASE Fail
    <3>1. phase' = "failed" /\ phase \in {"step", "stream"}
      BY <2>3 DEF Fail, NextStep
    <3>. QED
      BY <2>1, <3>1 DEF Trailing, AllToolsAfter
  <2>4. CASE ListForRepair
    <3>1. phase' = "repair" /\ phase = "failed" /\ todo' = memory.calls
      BY <2>4 DEF ListForRepair
    <3>. QED
      BY <2>1, <3>1 DEF Trailing, AllToolsAfter
  <2>. QED
    BY <2>2, <2>3, <2>4
<1>2. Tidy(log, current, memory.calls)'
  BY Zenon DEF Ordered
<1>3. Accepts(sent, {})'
  BY Zenon DEF Ordered
<1>. QED
  BY <1>1, <1>2, <1>3 DEF Ordered

LEMMA TextIsOrdered ==
  ASSUME CInv, Ordered, TextDelta \/ FinishStep \/ SummaryText \/ FinishSummary
  PROVE  Ordered'
<1>1. PICK parts \in Parts :
         /\ parts.calls = memory.calls /\ parts.open = memory.open
         /\ memory' = parts /\ (log' = log \/ log' = Stored(parts))
  <2> memory \in Parts
    BY OrderedFacts
  <2>1. /\ [memory EXCEPT !.text = TRUE] \in Parts
        /\ [memory EXCEPT !.text = TRUE].calls = memory.calls
        /\ [memory EXCEPT !.text = TRUE].open = memory.open
    BY DEF Parts
  <2>2. /\ [memory EXCEPT !.ended = TRUE] \in Parts
        /\ [memory EXCEPT !.ended = TRUE].calls = memory.calls
        /\ [memory EXCEPT !.ended = TRUE].open = memory.open
    BY DEF Parts
  <2>3. CASE TextDelta \/ SummaryText
    BY <2>1, <2>3 DEF TextDelta, SummaryText, Update
  <2>4. CASE FinishStep \/ FinishSummary
    BY <2>2, <2>4 DEF FinishStep, FinishSummary
  <2>. QED
    BY <2>3, <2>4
<1>2. /\ UNCHANGED <<current, todo, sent>>
      /\ \/ phase = "stream" /\ phase' \in {"stream", "step", "failed"}
         \/ phase = "summary" /\ phase' \in {"summary", "save"}
      /\ phase' = "step" => memory.calls \ memory.open \subseteq ResultsIn(Rows)
  <2>1. CASE TextDelta
    BY <2>1 DEF TextDelta, Update, KeepTurn
  <2>2. CASE FinishStep
    BY <2>2 DEF FinishStep, KeepTurn, Answered
  <2>3. CASE SummaryText \/ FinishSummary
    BY <2>3 DEF SummaryText, FinishSummary, KeepTurn
  <2>. QED
    BY <2>1, <2>2, <2>3
<1>3. Tidy(log, current, parts.calls)
  BY <1>1, OrderedFacts, Zenon
<1>4. /\ Tidy(log, current, memory.calls)'
      /\ AllToolsAfter(log, current) => AllToolsAfter(log, current)'
      /\ (\A i \in DOMAIN log : log[i].id = current => log[i].role = "assistant")
           => (\A i \in DOMAIN log : log[i].id = current => log[i].role = "assistant")'
      /\ ResultsIn(Rows)' = ResultsIn(Rows)
  BY <1>1, <1>2, <1>3, WriteKeepsOrder
<1>5. Trailing'
  <2>1. Trailing /\ memory'.calls = memory.calls /\ memory'.open = memory.open
    BY <1>1 DEF Ordered
  <2>2. CASE phase = "stream" /\ phase' \in {"stream", "step", "failed"}
    <3>1. /\ AllToolsAfter(log, current)
          /\ \A i \in DOMAIN log : log[i].id = current => log[i].role = "assistant"
          /\ current = None => memory.calls = {}
      BY <2>1, <2>2 DEF Trailing
    <3>2. /\ AllToolsAfter(log, current)'
          /\ (\A i \in DOMAIN log : log[i].id = current => log[i].role = "assistant")'
      BY <1>4, <3>1
    <3>. QED
      BY <1>2, <1>4, <2>1, <2>2, <3>1, <3>2 DEF Trailing
  <2>3. CASE phase = "summary" /\ phase' \in {"summary", "save"}
    BY <1>2, <2>1, <2>3 DEF Trailing
  <2>. QED
    BY <1>2, <2>2, <2>3
<1>6. Accepts(sent, {})'
  BY <1>2, OrderedFacts, Zenon
<1>. QED
  BY <1>4, <1>5, <1>6 DEF Ordered

(* A call that is begun, or completed.                                     *)
LEMMA CallIsOrdered ==
  ASSUME CInv, Ordered, NEW c \in Call, ToolInputStart(c) \/ ToolCall(c)
  PROVE  Ordered'
<1>0. memory \in Parts /\ memory.calls \in SUBSET Call /\ log \in Seq(Row)
  BY OrderedFacts
<1>1. PICK parts \in Parts :
         /\ parts.calls = memory.calls \union {c}
         /\ memory' = parts /\ (log' = log \/ log' = Stored(parts))
  <2>1. /\ [memory EXCEPT !.calls = @ \union {c}, !.open = @ \union {c}] \in Parts
        /\ [memory EXCEPT !.calls = @ \union {c}, !.open = @ \union {c}].calls
              = memory.calls \union {c}
    BY <1>0 DEF Parts
  <2>2. /\ [memory EXCEPT !.calls = @ \union {c}, !.open = @ \ {c}] \in Parts
        /\ [memory EXCEPT !.calls = @ \union {c}, !.open = @ \ {c}].calls
              = memory.calls \union {c}
    BY <1>0 DEF Parts
  <2>3. CASE ToolInputStart(c)
    BY <2>1, <2>3 DEF ToolInputStart, Update
  <2>4. CASE ToolCall(c)
    BY <2>2, <2>4 DEF ToolCall, Update
  <2>. QED
    BY <2>3, <2>4
<1>2. /\ UNCHANGED <<current, todo, sent>>
      /\ phase = "stream" /\ phase' \in {"stream", "failed"}
      /\ c \in Unused \union memory.open
  BY DEF ToolInputStart, ToolCall, Update, KeepTurn
<1>3. /\ AllToolsAfter(log, current)
      /\ \A i \in DOMAIN log : log[i].id = current => log[i].role = "assistant"
  BY <1>2 DEF Ordered, Trailing
<1>4. Tidy(log, current, parts.calls)
  <2>1. Tidy(log, current, memory.calls)
    BY OrderedFacts
  <2>2. CASE c \in memory.open
    <3>1. parts.calls = memory.calls
      BY <1>1, <2>2, OrderedFacts
    <3>. QED
      BY <2>1, <3>1, Zenon
  <2>3. CASE c \in Unused
    <3>1. c \notin CallsIn(RowsIn(log)) /\ c \notin ResultsIn(RowsIn(log))
      BY <2>3, RowsPrimed DEF Unused
    <3>2. Tidy(log, current, memory.calls \union {c})
      BY <1>0, <1>3, <2>1, <3>1, TidyCalls
    <3>. QED
      BY <1>1, <3>2, Zenon
  <2>. QED
    BY <1>2, <2>2, <2>3
<1>5. /\ Tidy(log, current, memory.calls)'
      /\ AllToolsAfter(log, current)'
      /\ (\A i \in DOMAIN log : log[i].id = current => log[i].role = "assistant")'
  BY <1>1, <1>2, <1>3, <1>4, WriteKeepsOrder
<1>6. current # None
  BY <1>2 DEF Ordered, Trailing
<1>7. Trailing'
  BY <1>2, <1>5, <1>6 DEF Trailing
<1>8. Accepts(sent, {})'
  BY <1>2, OrderedFacts, Zenon
<1>. QED
  BY <1>5, <1>7, <1>8 DEF Ordered

LEMMA GrownTrails ==
  ASSUME NEW l \in Seq(Row), NEW m, NEW e \in Row, Grown(l, m, e), NEW x, e.id # x
  PROVE  /\ (\A i \in DOMAIN l : l[i].id = x => l[i].role = "assistant")
              => \A i \in DOMAIN m : m[i].id = x => m[i].role = "assistant"
         /\ ResultsIn(RowsIn(l)) \subseteq ResultsIn(RowsIn(m))
<1>1. /\ DOMAIN m = DOMAIN l \union {Len(l) + 1}
      /\ \A i \in DOMAIN l : m[i] = l[i]
      /\ m[Len(l) + 1] = e
  BY DEF Grown
<1>2. RowsIn(l) \subseteq RowsIn(m)
  BY <1>1 DEF RowsIn
<1>. QED
  BY <1>1, <1>2 DEF ResultsIn

LEMMA ResultIsOrdered ==
  ASSUME ~Ties, CInv, Ordered, NEW c \in Call, ToolResult(c)
  PROVE  Ordered'
<1> DEFINE e == NewRow(ToolRow(c))
<1>1. /\ phase = "stream" /\ phase' \in {"stream", "failed"}
      /\ c \in memory.calls /\ Create(log, ToolRow(c))
      /\ UNCHANGED <<current, memory, todo, sent>>
  BY DEF ToolResult, KeepTurn
<1>2. /\ Grown(log, log', e) /\ e \in Row /\ e.id = created + 1
      /\ e.role = "tool" /\ e.result = c /\ e.parts.calls = {}
  <2>1. Empty.calls = {}
    BY DEF Empty
  <2>. QED
    BY <1>1, <2>1, OrderedFacts, RowForms, CreateAppends
<1> HIDE DEF e
<1>3. /\ AllToolsAfter(log, current) /\ current # None
      /\ \A i \in DOMAIN log : log[i].id = current => log[i].role = "assistant"
  BY <1>1 DEF Ordered, Trailing
<1>4. Tidy(log', current, memory.calls) /\ AllToolsAfter(log', current)
  BY <1>1, <1>2, <1>3, OrderedFacts, TidyAnswered
<1>5. \A i \in DOMAIN log' : log'[i].id = current => log'[i].role = "assistant"
  BY <1>2, <1>3, OrderedFacts, GrownTrails
<1>6. Trailing'
  BY <1>1, <1>3, <1>4, <1>5 DEF Trailing
<1>7. Tidy(log, current, memory.calls)' /\ Accepts(sent, {})'
  BY <1>1, <1>4, OrderedFacts, Zenon
<1>. QED
  BY <1>6, <1>7 DEF Ordered

LEMMA RepairIsOrdered ==
  ASSUME ~Ties, CInv, Ordered, NEW c \in Call, RepairCall(c)
  PROVE  Ordered'
<1> DEFINE e == NewRow(ToolRow(c))
           l == IF c \in memory.open THEN Stored(Closing(c)) ELSE log
           Answers(m) == ResultsIn(RowsIn(m))
           Mine(m) == \A i \in DOMAIN m : m[i].id = current => m[i].role = "assistant"
<1>1. /\ phase = "repair" /\ phase' = "repair" /\ c \in todo /\ todo' = todo \ {c}
      /\ memory' = Closing(c) /\ UNCHANGED <<current, sent>>
      /\ IF c \in seen THEN log' = l ELSE Create(l, ToolRow(c))
  BY DEF RepairCall, Closing
<1>2. Closing(c) \in Parts /\ Closing(c).calls = memory.calls
  BY OrderedFacts, ClosingParts
<1>3. /\ Mine(log) /\ todo \subseteq memory.calls
      /\ AllToolsAfter(log, current) \/ memory.calls \subseteq Answers(log)
      /\ current = None => memory.calls = {}
  BY <1>1, RowsPrimed DEF Ordered, Trailing
<1>4. /\ l \in Seq(Row) /\ Len(l) = Len(log) /\ WellKept(l, created)
      /\ Tidy(l, current, memory.calls)
      /\ AllToolsAfter(log, current) => AllToolsAfter(l, current)
      /\ Mine(l) /\ Answers(l) = Answers(log)
  <2>1. CASE c \in memory.open
    <3> DEFINE s == Stored(Closing(c))
    <3>1. WellKept(s, created) /\ Len(s) = Len(log)
      BY <1>2, OrderedFacts, StoredKeeps
    <3>2. Same(log, s)
      BY <1>2, OrderedFacts, StoredIsSame
    <3>3. Tidy(log, current, Closing(c).calls)
      BY <1>2, OrderedFacts, Zenon
    <3>4. Tidy(s, current, memory.calls)
      <4>1. Tidy(s, current, Closing(c).calls)
        BY <1>2, <3>3, OrderedFacts, TidyStored
      <4>. QED
        BY <1>2, <4>1, Zenon
    <3> HIDE DEF s
    <3>5. /\ AllToolsAfter(log, current) => AllToolsAfter(s, current)
          /\ Mine(s) /\ Answers(s) = Answers(log)
      BY <1>3, <3>2, OrderedFacts, SameTrails
    <3>6. s \in Seq(Row)
      BY <3>1 DEF WellKept
    <3>7. l = s
      BY <2>1 DEF s
    <3> HIDE DEF l, Mine, Answers
    <3>. QED
      BY <3>1, <3>4, <3>5, <3>6, <3>7, Zenon
  <2>2. CASE c \notin memory.open
    <3>1. l = log
      BY <2>2
    <3> HIDE DEF l, Mine, Answers
    <3>. QED
      BY <1>3, <3>1, OrderedFacts, Zenon
  <2>. QED
    BY <2>1, <2>2
<1>5. /\ Tidy(log', current, memory.calls)
      /\ AllToolsAfter(log', current) \/ memory.calls \subseteq Answers(log')
      /\ Mine(log')
  <2> HIDE DEF l
  <2>1. CASE c \in seen
    <3>1. log' = l
      BY <1>1, <2>1
    <3> HIDE DEF Mine, Answers
    <3>2. /\ Tidy(l, current, memory.calls)
          /\ AllToolsAfter(l, current) \/ memory.calls \subseteq Answers(l)
          /\ Mine(l)
      BY <1>3, <1>4
    <3>. QED
      BY <3>1, <3>2, Zenon
  <2>2. CASE c \notin seen
    <3>1. /\ Grown(l, log', e) /\ e \in Row /\ e.id = created + 1
          /\ e.role = "tool" /\ e.result = c /\ e.parts.calls = {}
      <4>1. Empty.calls = {} /\ Create(l, ToolRow(c))
        BY <1>1, <2>2 DEF Empty
      <4>. QED
        BY <1>4, <4>1, OrderedFacts, RowForms, CreateAppends
    <3> HIDE DEF e
    <3>2. c \in memory.calls /\ c \notin Answers(log)
      BY <1>1, <1>3, <2>2, RowsPrimed DEF CInv, Repairing
    <3>3. AllToolsAfter(l, current)
      BY <1>3, <1>4, <3>2
    <3>4. Tidy(log', current, memory.calls) /\ AllToolsAfter(log', current)
      BY <1>4, <3>1, <3>2, <3>3, OrderedFacts, TidyAnswered
    <3>5. Mine(log')
      <4>1. l \in Seq(Row) /\ e.id # current /\ Mine(l)
        BY <1>4, <3>1, OrderedFacts
      <4>. QED
        BY <3>1, <4>1, GrownTrails
    <3>. QED
      BY <3>4, <3>5
  <2>. QED
    BY <2>1, <2>2
<1> HIDE DEF l, e
<1>6. Tidy(log, current, memory.calls)' /\ Accepts(sent, {})'
  <2>1. memory'.calls = memory.calls
    BY <1>1, <1>2
  <2>. QED
    BY <1>1, <1>5, <2>1, OrderedFacts, Zenon
<1>7. Trailing'
  <2>1. memory'.calls = memory.calls /\ current' = current /\ phase' = "repair"
        /\ todo' \subseteq memory.calls
    BY <1>1, <1>2, <1>3
  <2>2. AllToolsAfter(log', current) <=> AllToolsAfter(log, current)'
    BY <1>1 DEF AllToolsAfter
  <2>. QED
    BY <1>3, <1>5, <2>1, <2>2, RowsPrimed DEF Trailing
<1>. QED
  BY <1>6, <1>7 DEF Ordered

(* A user's message.                                                       *)
LEMMA UserIsOrdered ==
  ASSUME ~Ties, CInv, Ordered, BeginTurn \/ WriteQueued
  PROVE  Ordered'
<1> DEFINE e == NewRow(UserRow)
<1>1. Create(log, UserRow) /\ phase' = "step" /\ UNCHANGED <<current, memory>>
  BY DEF BeginTurn, WriteQueued, NextStep
<1>2. /\ Grown(log, log', e) /\ e \in Row /\ e.id = created + 1
      /\ e.role = "user" /\ e.result = None /\ e.parts.calls = {}
  <2>1. Empty.calls = {}
    BY DEF Empty
  <2>. QED
    BY <1>1, <2>1, OrderedFacts, RowForms, CreateAppends
<1> HIDE DEF e
<1>3. Tidy(log', current, memory.calls)
  BY <1>2, OrderedFacts, TidyGrows
<1>4. Accepts(sent, {})'
  <2>1. CASE BeginTurn
    <3>1. sent' = History /\ Accepts(History, {})
      BY <2>1, OrderedFacts, HistoryIsAccepted DEF BeginTurn
    <3>. QED
      BY <3>1, Zenon
  <2>2. CASE WriteQueued
    <3>1. sent' = sent /\ Accepts(sent, {})
      BY <2>2, OrderedFacts DEF WriteQueued, KeepTurn
    <3>. QED
      BY <3>1, Zenon
  <2>. QED
    BY <2>1, <2>2
<1>5. /\ current = None => memory.calls = {}
      /\ \A i \in DOMAIN log : log[i].id = current => log[i].role = "assistant"
      /\ memory.calls \subseteq ResultsIn(RowsIn(log))
  <2>1. CASE BeginTurn
    <3>1. current = None /\ memory.calls = {}
      BY <2>1 DEF BeginTurn, Ordered, Trailing
    <3>. QED
      BY <3>1, OrderedFacts, AnyRow
  <2>2. CASE WriteQueued
    BY <2>2, RowsPrimed DEF WriteQueued, NextStep, Ordered, Trailing
  <2>. QED
    BY <2>1, <2>2
<1>6. /\ \A i \in DOMAIN log' : log'[i].id = current => log'[i].role = "assistant"
      /\ ResultsIn(RowsIn(log)) \subseteq ResultsIn(RowsIn(log'))
  <2>1. log \in Seq(Row) /\ e.id # current
    BY <1>2, OrderedFacts
  <2>. QED
    BY <1>2, <1>5, <2>1, GrownTrails
<1>7. Trailing'
  BY <1>1, <1>5, <1>6, RowsPrimed DEF Trailing
<1>8. Tidy(log, current, memory.calls)'
  BY <1>1, <1>3, Zenon
<1>. QED
  BY <1>4, <1>7, <1>8 DEF Ordered

(* The row a step or a summary is streamed into.                           *)
LEMMA NewMessageIsOrdered ==
  ASSUME ~Ties, CInv, Ordered, NEW row \in {AssistantRow, SummaryRow},
         Create(log, row), current' = created + 1, memory' = Empty,
         \/ row = AssistantRow /\ phase' = "stream" /\ sent' = sent
         \/ row = SummaryRow /\ phase' = "summary" /\ sent' = History
  PROVE  Ordered'
<1> DEFINE e == NewRow(row)
           x == created + 1
<1>1. /\ Grown(log, log', e) /\ e \in Row /\ e.id = x
      /\ e.role = row.role /\ e.result = None /\ e.parts.calls = {}
      /\ row.role \in {"assistant", "summary"}
  <2>1. Empty.calls = {}
    BY DEF Empty
  <2>2. /\ row.role \in {"assistant", "summary"} /\ row.parts = Empty
        /\ row.result = None /\ Empty \in Parts
    BY RowForms
  <2>. QED
    BY <2>1, <2>2, OrderedFacts, CreateAppends
<1>2. x \in Nat /\ x # None
  BY OrderedFacts, NoneFresh
<1>3. log' \in Seq(Row)
  <2>1. Kept /\ WellKept(log, created)
    BY OrderedFacts
  <2>2. row.role \in {"user", "assistant", "summary", "tool"} /\ row.parts \in Parts
        /\ row.result = None
    BY RowForms
  <2>3. WellKept(log', created')
    BY <2>1, <2>2, CreateKeeps
  <2>. QED
    BY <2>3 DEF WellKept
<1> HIDE DEF e
<1>4. Tidy(log', None, {})
  <2>1. Tidy(log, None, {})
    BY OrderedFacts, TidyReleased
  <2>. QED
    BY <1>1, <1>2, <2>1, OrderedFacts, TidyGrows
<1>5. \A i \in DOMAIN log' : log'[i].id = x => i = Len(log) + 1 /\ log'[i] = e
  <2>1. \A i \in DOMAIN log : log[i].id # x
    <3>1. \A i \in DOMAIN log : log[i].id <= created /\ log[i].id \in Nat
      <4>1. \A i \in DOMAIN log : log[i] \in Row /\ log[i].id <= created
        BY OrderedFacts DEF WellKept
      <4>. QED
        BY <4>1, MaxRowsNat DEF Row, Id
    <3>. QED
      BY <3>1, OrderedFacts
  <2>. QED
    BY <1>1, <2>1 DEF Grown
<1>6. Tidy(log', x, {})
  BY <1>1, <1>3, <1>4, <1>5, TidyTaken
<1>7. AllToolsAfter(log', x)
  <2>1. Len(log') = Len(log) + 1 /\ Len(log) \in Nat
    BY <1>1, OrderedFacts DEF Grown
  <2>. QED
    BY <1>5, <2>1 DEF AllToolsAfter
<1>8. current' = x /\ memory'.calls = {}
  BY DEF Empty
<1>9. Tidy(log, current, memory.calls)'
  BY <1>6, <1>8, Zenon
<1>10. Accepts(sent, {})'
  BY OrderedFacts, HistoryIsAccepted, Zenon
<1>11. Trailing'
  <2>1. CASE row = AssistantRow /\ phase' = "stream"
    <3>1. \A i \in DOMAIN log' : log'[i].id = x => log'[i].role = "assistant"
      BY <1>1, <1>5, <2>1, RowForms
    <3>2. AllToolsAfter(log, current)'
      BY <1>7, <1>8 DEF AllToolsAfter
    <3> HIDE DEF x
    <3>. QED
      BY <1>2, <1>8, <2>1, <3>1, <3>2 DEF Trailing
  <2>2. CASE phase' = "summary"
    <3> HIDE DEF x
    <3>. QED
      BY <1>2, <1>8, <2>2 DEF Trailing
  <2>. QED
    BY <2>1, <2>2
<1>. QED
  BY <1>9, <1>10, <1>11 DEF Ordered

LEMMA StepKeepsOrder ==
  ASSUME ~Ties, CInv, Ordered, [Next]_vars
  PROVE  Ordered'
<1>1. CASE \/ UNCHANGED vars \/ StaleSave \/ Fail \/ ListForRepair
  BY <1>1, QuietIsOrdered DEF vars, StaleSave, Fail, ListForRepair, KeepTurn
<1>2. CASE TextDelta \/ FinishStep \/ SummaryText \/ FinishSummary
  BY <1>2, TextIsOrdered
<1>3. CASE \E c \in Call : ToolInputStart(c) \/ ToolCall(c)
  BY <1>3, CallIsOrdered
<1>4. CASE \E c \in Call : ToolResult(c)
  BY <1>4, ResultIsOrdered
<1>5. CASE \E c \in Call : RepairCall(c)
  BY <1>5, RepairIsOrdered
<1>6. CASE BeginTurn \/ WriteQueued
  BY <1>6, UserIsOrdered
<1>7. CASE PrepareStep
  <2>1. /\ Create(log, AssistantRow) /\ current' = created + 1 /\ memory' = Empty
        /\ phase' = "stream" /\ sent' = sent
    BY <1>7 DEF PrepareStep, KeepTurn
  <2>. QED
    BY <2>1, NewMessageIsOrdered
<1>8. CASE BeginSummary
  <2>1. /\ Create(log, SummaryRow) /\ current' = created + 1 /\ memory' = Empty
        /\ phase' = "summary" /\ sent' = History
    BY <1>8 DEF BeginSummary
  <2>. QED
    BY <2>1, NewMessageIsOrdered
<1>9. CASE EndTurn \/ NothingToRepair \/ FailSummary \/ SavePointer \/ Crash
  <2>1. Close /\ log' = log
    BY <1>9 DEF EndTurn, NothingToRepair, FailSummary, SavePointer, Crash
  <2>. QED
    BY <2>1, EndIsOrdered
<1>10. CASE GiveUpRepair
  <2>1. \/ log' = log
        \/ \E c \in todo \intersect memory.open : log' = Stored(Closing(c))
    BY <1>10 DEF GiveUpRepair, Closing
  <2>2. Close
    BY <1>10 DEF GiveUpRepair
  <2>3. \A c : Closing(c) \in Parts /\ Closing(c).calls = memory.calls
    BY OrderedFacts, ClosingParts
  <2>. QED
    BY <2>1, <2>2, <2>3, EndIsOrdered
<1>11. CASE EndRepair
  <2>1. Close /\ log' = Stored([memory EXCEPT !.ended = TRUE])
    BY <1>11 DEF EndRepair
  <2>2. /\ [memory EXCEPT !.ended = TRUE] \in Parts
        /\ [memory EXCEPT !.ended = TRUE].calls = memory.calls
    BY OrderedFacts DEF Parts
  <2>. QED
    BY <2>1, <2>2, EndIsOrdered
<1>12. CASE CancelSummary
  <2>1. Close /\ \E at \in DOMAIN log : log' = RemoveAt(log, at)
    BY <1>12 DEF CancelSummary
  <2>. QED
    BY <2>1, EndIsOrdered
<1>. QED
  BY <1>1, <1>2, <1>3, <1>4, <1>5, <1>6, <1>7, <1>8, <1>9, <1>10, <1>11, <1>12
     DEF Next

(* With rows listed as they were created, the history a turn starts from   *)
(* is one the provider accepts, whatever an error, a crash, a failed write *)
(* or a client's save left behind: every call is answered, once, right     *)
(* behind its message.  (With rows of one second in any order it is not.)  *)
THEOREM HistoryStands == ~Ties => (Spec => []AcceptedHistory)
<1> SUFFICES ASSUME ~Ties PROVE Spec => []AcceptedHistory
  OBVIOUS
<1>1. Init => Ordered
  <2> SUFFICES ASSUME Init PROVE Ordered
    OBVIOUS
  <2>1. /\ log = <<>> /\ phase = "idle" /\ current = None
        /\ memory.calls = {} /\ sent = <<>>
    BY DEF Init, Empty
  <2>2. DOMAIN log = {}
    BY <2>1
  <2>3. Accepts(<<>>, {})
    BY DEF Accepts
  <2>. QED
    BY <2>1, <2>2, <2>3 DEF Ordered, Tidy, Trailing
<1>2. CInv /\ Ordered /\ [Next]_vars => Ordered'
  BY StepKeepsOrder
<1>3. Ordered => AcceptedHistory
  BY AcceptsIsAccepted DEF Ordered
<1>. QED
  BY <1>1, <1>2, <1>3, ConversationInvariance, PTL DEF Spec

-----------------------------------------------------------------------------
(* The types, in whatever order rows are listed.                           *)

LEMMA ListedRows ==
  ASSUME log \in Seq(Row)
  PROVE  Listed \in Seq(Row)
<1> DEFINE at == {i \in DOMAIN log : log[i].id = pointer}
<1>1. CASE at = {}
  BY <1>1 DEF Listed
<1>2. CASE at # {}
  <2> DEFINE i == CHOOSE i \in at : TRUE
             head == [log[i] EXCEPT !.role = "user"]
  <2>1. Listed = <<head>> \o SubSeq(log, i + 1, Len(log))
    BY <1>2 DEF Listed
  <2>2. i \in DOMAIN log
    BY <1>2
  <2> HIDE DEF i
  <2>3. log[i] \in Row /\ i \in 1 .. Len(log)
    BY <2>2
  <2>4. head \in Row
    BY <2>3 DEF Row
  <2>5. SubSeq(log, i + 1, Len(log)) \in Seq(Row)
    BY <2>3
  <2> HIDE DEF head
  <2>. QED
    BY <2>1, <2>4, <2>5
<1>. QED
  BY <1>1, <1>2

LEMMA SentMessages ==
  ASSUME NEW l \in Seq(Row), NEW i \in DOMAIN l
  PROVE  Sent(l, i) \in Seq(Message)
<1> DEFINE answered == ResultsIn(RowsIn(l))
<1>1. /\ l[i].role \in {"user", "assistant", "summary", "tool"}
      /\ l[i].parts.calls \in SUBSET Call
  <2>1. l[i] \in Row
    OBVIOUS
  <2>. QED
    BY <2>1 DEF Row, Parts
<1>2. Known(l) \subseteq Call
  BY AnyRow DEF Known, CallsIn, RowsIn
<1>3. CASE l[i].role = "user"
  <2> DEFINE a == Msg("user", {}, {})
  <2>1. a \in Message
    BY MsgFacts
  <2>2. Sent(l, i) = <<a>>
    BY <1>3, SentIs, Zenon
  <2> HIDE DEF a
  <2>. QED
    BY <2>1, <2>2
<1>4. CASE l[i].role = "tool"
  <2> DEFINE b == Msg("tool", {}, {l[i].result})
  <2>1. {l[i].result} \subseteq Known(l) => b \in Message
    BY <1>2, MsgFacts
  <2>2. Sent(l, i) = IF {l[i].result} \subseteq Known(l) THEN <<b>> ELSE <<>>
    BY <1>4, SentIs, Zenon DEF FilterOrphans
  <2> HIDE DEF b
  <2>3. CASE {l[i].result} \subseteq Known(l)
    <3>1. b \in Message /\ Sent(l, i) = <<b>>
      BY <2>1, <2>2, <2>3
    <3>. QED
      BY <3>1
  <2>4. CASE ~({l[i].result} \subseteq Known(l))
    <3>1. Sent(l, i) = <<>>
      BY <2>2, <2>4
    <3>. QED
      BY <3>1
  <2>. QED
    BY <2>3, <2>4
<1>5. CASE l[i].role \in {"assistant", "summary"} /\ Blank(l[i])
  <2>1. Sent(l, i) = <<>>
    BY <1>5, SentIs, Zenon
  <2>. QED
    BY <2>1
<1>6. CASE l[i].role \in {"assistant", "summary"} /\ ~Blank(l[i])
  <2> DEFINE d == Msg("assistant", l[i].parts.calls, {})
             e == Msg("tool", {}, l[i].parts.calls \ answered)
             s == Synthetic(l[i].parts.calls, answered)
  <2>1. d \in Message
    BY <1>1, MsgFacts
  <2>2. e \in Message
    <3>1. l[i].parts.calls \ answered \in SUBSET Call
      BY <1>1
    <3>. QED
      BY <3>1, MsgFacts
  <2>3. s = <<>> \/ s = <<e>>
    BY DEF Synthetic
  <2>4. Sent(l, i) = <<d>> \o s
    BY <1>6, SentIs, Zenon
  <2> HIDE DEF d, e, s
  <2>5. <<e>> \in Seq(Message) /\ <<>> \in Seq(Message) /\ <<d>> \in Seq(Message)
    BY <2>1, <2>2
  <2>6. s \in Seq(Message)
    BY <2>3, <2>5, Zenon
  <2>7. <<d>> \o s \in Seq(Message)
    BY <2>5, <2>6
  <2>. QED
    BY <2>4, <2>7, Zenon
<1>. QED
  BY <1>1, <1>3, <1>4, <1>5, <1>6

LEMMA FlattenMessages ==
  ASSUME NEW m, NEW n \in Nat, Len(m) = n, \A i \in 1 .. n : m[i] \in Seq(Message),
         n = 0 => m = <<>>
  PROVE  FlattenSeq(m) \in Seq(Message)
<1>1. CASE n = 0
  <2>1. FlattenSeq(m) = <<>>
    BY <1>1 DEF FlattenSeq
  <2>. QED
    BY <2>1
<1>2. CASE n # 0
  <2>1. PICK f : /\ f[1] = m[1]
                 /\ \A i \in 1 .. n - 1 : f[i + 1] = f[i] \o m[i + 1]
                 /\ FlattenSeq(m) = f[n]
    BY <1>2, FlattenIs
  <2> DEFINE T == {k \in Nat : k = 0 \/ k > n \/ f[k] \in Seq(Message)}
  <2>2. 0 \in T
    OBVIOUS
  <2>3. ASSUME NEW k \in Nat, k \in T PROVE k + 1 \in T
    <3>1. CASE k = 0
      <4>1. f[1] \in Seq(Message)
        BY <1>2, <2>1
      <4>2. k + 1 = 1
        BY <3>1
      <4>. QED
        BY <4>1, <4>2
    <3>2. CASE k # 0 /\ k + 1 <= n
      <4>1. PICK j \in 1 .. n : j = k + 1
        BY <3>2
      <4>2. f[j] = f[k] \o m[j]
        <5>1. k \in 1 .. n - 1
          BY <3>2
        <5>2. f[k + 1] = f[k] \o m[k + 1]
          BY <2>1, <5>1, Zenon
        <5>. QED
          BY <4>1, <5>2, Zenon
      <4>3. f[k] \in Seq(Message) /\ m[j] \in Seq(Message)
        BY <2>3, <3>2
      <4>4. f[j] \in Seq(Message)
        BY <4>2, <4>3
      <4>. QED
        BY <4>1, <4>4
    <3>3. CASE k # 0 /\ ~(k + 1 <= n)
      BY <3>3
    <3>. QED
      BY <3>1, <3>2, <3>3
  <2> HIDE DEF T
  <2>4. n \in T
    BY <2>2, <2>3, Induction
  <2>. QED
    BY <1>2, <2>1, <2>4 DEF T
<1>. QED
  BY <1>1, <1>2

LEMMA HistoryMessages ==
  ASSUME log \in Seq(Row)
  PROVE  History \in Seq(Message)
<1> DEFINE l == Listed
           m == [i \in DOMAIN l |-> Sent(l, i)]
<1>1. History = FlattenSeq(m)
  BY DEF History, Sent, Known, RowsIn
<1>2. l \in Seq(Row)
  BY ListedRows
<1> HIDE DEF l
<1>3. /\ Len(l) \in Nat /\ DOMAIN l = 1 .. Len(l)
      /\ Len(m) = Len(l) /\ (Len(l) = 0 => m = <<>>)
  BY <1>2
<1>4. \A i \in 1 .. Len(l) : m[i] \in Seq(Message)
  BY <1>2, <1>3, SentMessages
<1> HIDE DEF m
<1>. QED
  BY <1>1, <1>3, <1>4, FlattenMessages

Phases == {"idle", "step", "stream", "failed", "repair", "summary", "save"}

(* The variables keep their types, for any constants.                      *)
THEOREM TypeCorrect == Spec => []TypeOK
<1> DEFINE Rest == phase \in Phases /\ sent \in Seq(Message)
<1>1. Init => Rest
  BY DEF Init, Phases
<1>2. CInv /\ Rest /\ [Next]_vars => Rest'
  <2> SUFFICES ASSUME CInv, Rest, [Next]_vars PROVE Rest'
    OBVIOUS
  <2>1. History \in Seq(Message)
    BY HistoryMessages DEF CInv, Kept, WellKept
  <2> USE DEF Phases
  <2>2. CASE UNCHANGED vars \/ StaleSave
    BY <2>2 DEF vars, StaleSave
  <2>3. CASE \/ EndTurn \/ NothingToRepair \/ GiveUpRepair \/ EndRepair
             \/ CancelSummary \/ FailSummary \/ SavePointer \/ Crash
    <3>1. Close
      BY <2>3 DEF EndTurn, NothingToRepair, GiveUpRepair, EndRepair,
                  CancelSummary, FailSummary, SavePointer, Crash
    <3>2. phase' = "idle" /\ sent' = <<>>
      BY <3>1 DEF Close
    <3>. QED
      BY <3>2
  <2>4. CASE BeginTurn \/ WriteQueued \/ PrepareStep \/ BeginSummary
    BY <2>1, <2>4 DEF BeginTurn, WriteQueued, PrepareStep, BeginSummary, KeepTurn
  <2>5. CASE TextDelta \/ FinishStep \/ SummaryText \/ FinishSummary \/ Fail
    BY <2>5 DEF TextDelta, Update, FinishStep, SummaryText, FinishSummary, Fail,
                KeepTurn
  <2>6. CASE \E c \in Call : ToolInputStart(c) \/ ToolCall(c) \/ ToolResult(c)
    BY <2>6 DEF ToolInputStart, ToolCall, ToolResult, Update, KeepTurn
  <2>7. CASE ListForRepair \/ \E c \in Call : RepairCall(c)
    BY <2>7 DEF ListForRepair, RepairCall
  <2>. QED
    BY <2>2, <2>3, <2>4, <2>5, <2>6, <2>7 DEF Next
<1>3. CInv /\ Rest => TypeOK
  <2> SUFFICES ASSUME CInv, Rest PROVE TypeOK
    OBVIOUS
  <2>1. Len(log) \in 0 .. MaxRows /\ log \in Seq(Row)
    BY MaxRowsNat DEF CInv, Kept, WellKept
  <2>. QED
    BY <2>1 DEF CInv, Kept, Pointed, Phases, TypeOK
<1>. QED
  BY <1>1, <1>2, <1>3, ConversationInvariance, PTL DEF Spec

=============================================================================
