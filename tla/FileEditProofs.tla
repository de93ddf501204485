--------------------------- MODULE FileEditProofs ---------------------------
(***************************************************************************)
(* Proofs about FileEdit, for any sessions, texts, line endings and        *)
(* bounds: the versions of a session show its work and what it replaced,   *)
(* and its own write never makes its read of the file stale.               *)
(*                                                                         *)
(* The argument.  Only a session's own call stores versions for it         *)
(* (OthersStay), so what its call has learnt of its versions (Sound) holds *)
(* until its next step, whatever other sessions and the user do meanwhile. *)
(* And what a call stores as the old content is, but for line endings,     *)
(* what the disk held when the call wrote it (Matches), unless somebody    *)
(* changed the file between its reading and its writing.                   *)
(***************************************************************************)
EXTENDS FileEdit, TLAPS

-----------------------------------------------------------------------------
(* The least of the versions createWithVersion tries.                      *)
LEMMA MinIsThere ==
  ASSUME NEW v \in Nat, NEW S \in SUBSET (v .. v + maxRetries - 1), S # {}
  PROVE  Min(S) \in S /\ (v \in S => Min(S) = v)
<1>0. \A x \in S : x \in Nat /\ (x = v \/ x = v + 1 \/ x = v + 2)
  BY DEF maxRetries
<1>1. \E x \in S : \A y \in S : x <= y
  <2>1. CASE v \in S
    BY <1>0, <2>1
  <2>2. CASE v \notin S /\ v + 1 \in S
    BY <1>0, <2>2
  <2>3. CASE v \notin S /\ v + 1 \notin S
    <3>1. \A x \in S : x = v + 2
      BY <1>0, <2>3
    <3>2. PICK x \in S : TRUE
      OBVIOUS
    <3>3. \A y \in S : x <= y
      BY <3>1
    <3>. QED
      BY <3>3
  <2>. QED
    BY <2>1, <2>2, <2>3
<1>2. /\ Min(S) \in S
      /\ \A y \in S : Min(S) <= y
  BY <1>1 DEF Min
<1>3. PICK m : m = Min(S)
  OBVIOUS
<1>4. m \in S
  BY <1>2, <1>3, Zenon
<1>5. v \in S => m <= v
  BY <1>2, <1>3, Zenon
<1>6. m \in Nat /\ v <= m
  BY <1>0, <1>4
<1>7. v \in S => m = v
  BY <1>5, <1>6
<1>. QED
  BY <1>3, <1>4, <1>7, Zenon

-----------------------------------------------------------------------------
(* What a set of versions of one session says.                             *)
Distinct(own) == \A q, r \in own : q.version = r.version => q = r

(* Its newest version holds the text.                                      *)
Tip(own, text) ==
    \E n \in own : n.text = text /\ \A q \in own : q.version <= n.version

(* It holds what an edit wrote and, right below, what that replaced.       *)
Shows(own, edit) ==
    \E n \in own :
        /\ n.text = edit.new
        /\ \A q \in own : q.version <= n.version
        /\ edit.tool # "create" =>
              \E r \in own : /\ r.text = edit.old /\ r # n
                             /\ \A q \in own : r.version < q.version => q = n

(* It holds what an edit put on the disk and, unless the edit was          *)
(* overtaken, what the disk held before right below.                       *)
ShowsEdit(own, edit) ==
    \E n \in own :
        /\ n.text = edit.new
        /\ \A q \in own : q.version <= n.version
        /\ edit.tool # "create" /\ ~edit.late =>
              \E r \in own : /\ Same(r.text, edit.old) /\ r # n
                             /\ \A q \in own : r.version < q.version => q = n

(* Its first version holds what the disk held before its first edit.       *)
FirstIs(own, f) ==
    \E r \in own : r.version = 0 /\ (~f.late => Same(r.text, f.text))

(* What the versions of a session, the step and the content of its call,   *)
(* what it replaced first and its last edit have to do with each other.    *)
Sound(own, step, c, f, e) ==
    /\ own # {} => FirstIs(own, f)
    /\ own # {} => \E n \in own : Tip(own, n.text)
    /\ step \in {"keep", "insertOld", "store", "insertNew"} => own # {}
    /\ step \in {"insertOld", "insertNew"} =>
          \A q \in own : q.version < c.next
    /\ step \in {"base", "find", "keep", "insertOld", "store", "insertNew"} =>
          e = None
    /\ step = "record" /\ c.tool # "view" => e = None
    /\ step = "base" /\ c.tool # "create" /\ c.clean => own = {}
    /\ step \in {"store", "insertNew"} /\ c.tool # "create" /\ c.clean =>
          Tip(own, c.old)
    /\ step = "record" /\ c.tool # "view" /\ c.clean => Shows(own, c)
    /\ e # None => ShowsEdit(own, e)

(* A version stored beyond all others is the newest; what was the newest   *)
(* is right below it.                                                      *)
LEMMA NewVersionShows ==
  ASSUME NEW own \in SUBSET Row, NEW n \in Row, 
         \A q \in own : q.version < n.version,
         NEW edit, edit.new = n.text,
         edit.tool # "create" => Tip(own, edit.old)
  PROVE  Shows(own \union {n}, edit)
<1>1. \A q \in own \union {n} : q.version <= n.version
  BY DEF Row
<1>2. ASSUME edit.tool # "create"
      PROVE  \E r \in own \union {n} :
                /\ r.text = edit.old /\ r # n
                /\ \A q \in own \union {n} : r.version < q.version => q = n
  <2>1. PICK r \in own : /\ r.text = edit.old
                         /\ \A q \in own : q.version <= r.version
    BY <1>2 DEF Tip
  <2>2. r # n
    BY <2>1 DEF Row
  <2>3. \A q \in own : ~(r.version < q.version)
    BY <2>1 DEF Row
  <2>. QED
    BY <2>1, <2>2, <2>3
<1>. QED
  BY <1>1, <1>2 DEF Shows

-----------------------------------------------------------------------------
(* The types; what the table's uniqueness and its latest version are.      *)
Edit == [old : Content, new : Content, tool : {"create", "edit", "write"},
         late : BOOLEAN]
Replaced == [text : Content, late : BOOLEAN]
Written == [old : Content, new : Content]

Latest == rows # {} => \E n \in rows : \A q \in rows : q.version <= n.version

Typed ==
    /\ TypeOK
    /\ call \in [Session -> Call \union {None}]
    /\ writer \in Session \union {None}
    /\ first \in [Session -> Replaced \union {None}]
    /\ last \in [Session -> Edit \union {None}]
    /\ Latest

(* Times of reading and writing are in the past.                           *)
Past == mtime <= clock /\ \A s \in Session : readAt[s] <= clock

(* The session's call has written the file.                                *)
Wrote(s) ==
    \/ pc[s] \in {"find", "base", "keep", "insertOld", "store", "insertNew"}
    \/ pc[s] = "record" /\ call[s].tool # "view"

(* What a call holds as the old content, and what is on the disk while it  *)
(* asks, or was there when it wrote.                                       *)
Matches(s) ==
    /\ pc[s] = "ask" /\ s \notin overtaken => Same(call[s].old, Shown)
    /\ Wrote(s) => /\ wrote[s] \in Written
                   /\ wrote[s].new = call[s].new
                   /\ s \notin overtaken => Same(call[s].old, wrote[s].old)

GhostTyped ==
    wrote \in [Session -> Written \union {None}] /\ overtaken \subseteq Session

EInv ==
    /\ Typed
    /\ GhostTyped
    /\ Past
    /\ OwnWriteIsFresh
    /\ \A s \in Session : Matches(s)
    /\ \A s \in Session : Sound(Own(s), pc[s], call[s], first[s], last[s])

(* The versions of a session are rows of different versions.               *)
LEMMA OwnRows ==
  ASSUME Typed, NEW s \in Session
  PROVE  Own(s) \in SUBSET Row /\ Distinct(Own(s))
BY DEF Typed, TypeOK, Own, Distinct

(* What an Insert stores: a free version of the session, the wanted one if *)
(* that is free.                                                           *)
LEMMA InsertFacts ==
  ASSUME Typed, NEW s \in Session, NEW v \in Nat, NEW text \in Content,
         Free(s, v) # {}, Insert(s, v, text)
  PROVE  \E n \in Row :
            /\ n.session = s /\ n.text = text
            /\ \A q \in Own(s) : q.version # n.version
            /\ (\A q \in Own(s) : q.version # v) => n.version = v
            /\ rows' = rows \union {n}
<1> DEFINE k == Min(Free(s, v))
           n == [session |-> s, version |-> k, text |-> text]
<1>1. /\ Free(s, v) \in SUBSET (v .. v + maxRetries - 1)
      /\ \A x \in Free(s, v) : x \notin Versions(Own(s))
  BY DEF Free
<1>2. k \in Free(s, v) /\ (v \in Free(s, v) => k = v)
  BY <1>1, MinIsThere
<1> HIDE DEF k
<1>3. k \in Nat
  BY <1>1, <1>2 DEF maxRetries
<1>4. \A q \in Own(s) : q.version # k
  BY <1>1, <1>2 DEF Versions
<1>5. (\A q \in Own(s) : q.version # v) => v \in Free(s, v)
  BY DEF Free, Versions, maxRetries
<1>6. n \in Row
  BY <1>3 DEF Row
<1>7. rows' = rows \union {n}
  BY DEF Insert, k
<1>8. n.session = s /\ n.text = text /\ n.version = k
  OBVIOUS
<1> HIDE DEF n
<1>. QED
  BY <1>2, <1>4, <1>5, <1>6, <1>7, <1>8

(* Storing a version keeps the table's types, and other sessions' versions. *)
LEMMA InsertKeeps ==
  ASSUME Typed, NEW s \in Session, NEW n \in Row, n.session = s,
         \A q \in Own(s) : q.version # n.version, rows' = rows \union {n}
  PROVE  /\ rows' \subseteq Row
         /\ \A r, q \in rows' :
               r.session = q.session /\ r.version = q.version => r = q
         /\ Latest'
         /\ Own(s)' = Own(s) \union {n}
         /\ \A t \in Session : t # s => Own(t)' = Own(t)
<1>1. /\ rows \subseteq Row
      /\ \A r, q \in rows :
            r.session = q.session /\ r.version = q.version => r = q
      /\ rows # {} => \E m \in rows : \A q \in rows : q.version <= m.version
  BY DEF Typed, TypeOK, Latest
<1>2. rows' \subseteq Row
  BY <1>1
<1>3. \A q \in rows : q.session = s => q.version # n.version
  BY DEF Own
<1>4. \A r, q \in rows' :
         r.session = q.session /\ r.version = q.version => r = q
  BY <1>1, <1>3
<1>5. \E m \in rows' : \A q \in rows' : q.version <= m.version
  <2>1. CASE rows = {}
    BY <2>1 DEF Row
  <2>2. CASE rows # {}
    <3>1. PICK m \in rows : \A q \in rows : q.version <= m.version
      BY <1>1, <2>2
    <3>2. m.version \in Nat /\ n.version \in Nat
          /\ \A q \in rows : q.version \in Nat
      BY <1>1, <3>1 DEF Row
    <3>3. CASE n.version <= m.version
      <4>1. \A q \in rows' : q.version <= m.version
        BY <3>1, <3>3
      <4>. QED
        BY <3>1, <4>1
    <3>4. CASE m.version <= n.version
      <4>1. \A q \in rows' : q.version <= n.version
        BY <3>1, <3>2, <3>4
      <4>. QED
        BY <4>1
    <3>. QED
      BY <3>2, <3>3, <3>4
  <2>. QED
    BY <2>1, <2>2
<1>6. Latest'
  BY <1>5 DEF Latest
<1>7. Own(s)' = Own(s) \union {n} /\ \A t \in Session : t # s => Own(t)' = Own(t)
  BY DEF Own
<1>. QED
  BY <1>2, <1>4, <1>6, <1>7

(* The next version is beyond all there are.                               *)
LEMMA NextVersionFacts ==
  ASSUME Typed
  PROVE  /\ NextVersion \in Nat
         /\ \A q \in rows : q.version < NextVersion
<1>1. CASE rows = {}
  BY <1>1 DEF NextVersion
<1>2. CASE rows # {}
  <2>1. PICK n \in rows : \A q \in rows : q.version <= n.version
    BY <1>2 DEF Typed, Latest
  <2>2. \A q \in rows : q.version \in Nat
    BY DEF Typed, TypeOK, Row
  <2>3. \E x \in Versions(rows) : \A y \in Versions(rows) : x >= y
    <3>1. n.version \in Versions(rows)
      BY <2>1 DEF Versions
    <3>2. \A y \in Versions(rows) : n.version >= y
      BY <2>1, <2>2 DEF Versions
    <3>. QED
      BY <3>1, <3>2
  <2>4. PICK m : m = Max(Versions(rows))
    OBVIOUS
  <2>5. /\ m \in Versions(rows)
        /\ \A y \in Versions(rows) : m >= y
    BY <2>3, <2>4 DEF Max
  <2>6. m \in Nat
    BY <2>2, <2>5 DEF Versions
  <2>7. \A q \in rows : q.version <= m
    BY <2>2, <2>5, <2>6 DEF Versions
  <2>8. NextVersion = m + 1
    BY <1>2, <2>4 DEF NextVersion
  <2>. QED
    BY <2>2, <2>6, <2>7, <2>8
<1>. QED
  BY <1>1, <1>2

(* Setting the line ending of a text.                                      *)
LEMMA SetEnding ==
  ASSUME NEW B, NEW C, NEW t \in [body : B, crlf : C], NEW c
  PROVE  [t EXCEPT !.crlf = c] = [body |-> t.body, crlf |-> c]
OBVIOUS

LEMMA UnixText ==
  ASSUME NEW B, NEW C, NEW t \in [body : B, crlf : C]
  PROVE  ToUnix(t) = [body |-> t.body, crlf |-> FALSE]
<1>1. ToUnix(t) = [t EXCEPT !.crlf = FALSE]
  BY Zenon DEF ToUnix
<1>2. \A c : [t EXCEPT !.crlf = c] = [body |-> t.body, crlf |-> c]
  BY SetEnding
<1>3. [t EXCEPT !.crlf = FALSE] = [body |-> t.body, crlf |-> FALSE]
  BY <1>2, Zenon
<1>. QED
  BY <1>1, <1>3, Zenon

(* Contents: the tools make contents of contents.                          *)
LEMMA ContentFacts ==
  /\ Text \subseteq Content /\ Empty \in Content /\ Empty \in Text
  /\ \A text \in Content : ToUnix(text) \in Content /\ Same(ToUnix(text), text)
  /\ \A text \in Content, new \in {ToUnix(t) : t \in Text} :
        EndingsOf(text, new) \in Content
<1>1. Text \subseteq Content /\ Empty \in Content /\ Empty \in Text
  BY DEF Content, Text
<1>2. \A text \in Text : ToUnix(ToUnix(text)) = ToUnix(text)
  BY DEF Text, ToUnix, Empty
<1>3. \A text \in Content : ToUnix(text) \in Content /\ Same(ToUnix(text), text)
  BY <1>2 DEF Content, Same
<1>4. ASSUME NEW text \in Content, NEW t \in Text
      PROVE  EndingsOf(text, ToUnix(t)) \in Content
  <2>1. CASE ToUnix(t) = Empty
    BY <1>1, <2>1 DEF EndingsOf
  <2>2. CASE ToUnix(t) # Empty
    <3>0. ToUnix(Empty) = Empty
      <4>1. Empty \in [body : {Nothing}, crlf : {FALSE}]
        BY DEF Empty
      <4>2. Empty.body = Nothing
        BY DEF Empty
      <4>. QED
        BY <4>1, <4>2, UnixText, Zenon DEF Empty
    <3>1. t \in [body : Body, crlf : Crlf]
      BY <2>2, <3>0 DEF Text
    <3>2. EndingsOf(text, ToUnix(t)) = [body |-> t.body, crlf |-> text.crlf]
      BY <2>2, <3>1 DEF EndingsOf, ToUnix
    <3>3. text.crlf \in Crlf \/ text.crlf = FALSE
      BY DEF Content, Text, ToUnix, Empty
    <3>4. CASE text.crlf \in Crlf
      BY <1>1, <3>1, <3>2, <3>4 DEF Text
    <3>5. CASE text.crlf = FALSE
      <4>1. ToUnix(t) = [body |-> t.body, crlf |-> FALSE]
        BY <3>1, UnixText, Zenon
      <4>. QED
        BY <3>2, <3>5, <4>1 DEF Content
    <3>. QED
      BY <3>3, <3>4, <3>5
  <2>. QED
    BY <2>1, <2>2
<1>. QED
  BY <1>1, <1>3, <1>4

-----------------------------------------------------------------------------
(* The file, the clock and the times of reading.                           *)
WorldTyped ==
    /\ clock \in 1 .. MaxClock
    /\ disk \in Content \union {Absent}
    /\ mtime \in 0 .. MaxClock
    /\ readAt \in [Session -> 0 .. MaxClock]
    /\ edits \in 0 .. MaxEdits
    /\ troubles \in 0 .. MaxTroubles

RowsTyped ==
    /\ rows \subseteq Row
    /\ \A r, q \in rows :
          r.session = q.session /\ r.version = q.version => r = q
    /\ Latest

CallsTyped ==
    /\ pc \in [Session -> Steps]
    /\ call \in [Session -> Call \union {None}]
    /\ \A s \in Session : pc[s] # "idle" => call[s] \in Call

HistoryTyped ==
    /\ writer \in Session \union {None}
    /\ first \in [Session -> Replaced \union {None}]
    /\ last \in [Session -> Edit \union {None}]

LEMMA TypedParts ==
  Typed <=> WorldTyped /\ RowsTyped /\ CallsTyped /\ HistoryTyped
BY DEF Typed, TypeOK, WorldTyped, RowsTyped, CallsTyped, HistoryTyped

(* The bounds.                                                             *)
LEMMA Counted ==
  ASSUME WorldTyped
  PROVE  /\ troubles < MaxTroubles /\ troubles' = troubles + 1 =>
               troubles' \in 0 .. MaxTroubles
         /\ edits < MaxEdits /\ edits' = edits + 1 => edits' \in 0 .. MaxEdits
         /\ clock < MaxClock /\ clock' = clock + 1 => clock' \in 1 .. MaxClock
BY BoundsNat DEF WorldTyped

(* Whatever a step does to the file or to the times of reading, these stay *)
(* in the past; and a write that is not the session's own, or not yet      *)
(* recorded as read, is no promise to the session.                         *)
LEMMA WorldStep ==
  ASSUME EInv, [Next]_vars
  PROVE  WorldTyped' /\ Past' /\ OwnWriteIsFresh'
<1> WorldTyped /\ CallsTyped /\ HistoryTyped /\ Past /\ OwnWriteIsFresh
  BY TypedParts DEF EInv
<1>0. /\ MaxClock \in Nat /\ clock \in Nat /\ mtime \in Nat
      /\ \A s \in Session : readAt[s] \in Nat
  BY BoundsNat DEF WorldTyped
<1>1. CASE UNCHANGED vars
  BY <1>1 DEF vars, store, bounds, history, WorldTyped, Past, OwnWriteIsFresh,
              Fresh
<1>2. CASE UserWrites
  <2>1. WorldTyped'
    BY <1>2, ContentFacts, Counted DEF UserWrites, Change, WorldTyped
  <2>2. Past'
    BY <1>0, <1>2 DEF UserWrites, Past
  <2>. QED
    BY <1>2, <2>1, <2>2, FreshNames DEF UserWrites, OwnWriteIsFresh
<1>3. CASE UserDeletes
  <2>1. WorldTyped'
    BY <1>0, <1>3, Counted DEF UserDeletes, Change, WorldTyped
  <2>2. Past'
    BY <1>0, <1>3 DEF UserDeletes, Past
  <2>. QED
    BY <1>3, <2>1, <2>2, FreshNames DEF UserDeletes, OwnWriteIsFresh
<1>4. CASE Tick
  <2>1. WorldTyped'
    BY <1>4, Counted DEF Tick, store, bounds, WorldTyped
  <2>2. Past'
    BY <1>0, <1>4 DEF Tick, store, Past
  <2>. QED
    BY <1>4, <2>1, <2>2 DEF Tick, store, history, OwnWriteIsFresh, Fresh
<1>5. ASSUME NEW s \in Session, Step(s)
      PROVE  WorldTyped' /\ Past' /\ OwnWriteIsFresh'
  <2>1. CASE View(s) \/ CheckCreate(s) \/ CheckEdit(s) \/ CheckWrite(s)
    <3>1. /\ UNCHANGED <<clock, troubles, disk, mtime, readAt, writer, last>>
          /\ edits' = edits \/ (edits < MaxEdits /\ edits' = edits + 1)
      BY <2>1 DEF View, CheckCreate, CheckEdit, CheckWrite, Begin, store, history
    <3>. QED
      BY <3>1, Counted DEF WorldTyped, Past, OwnWriteIsFresh, Fresh
  <2>2. CASE \/ ReadForEdit(s) \/ NoEdit(s) \/ ReadForWrite(s) \/ Deny(s)
             \/ CreateBase(s) \/ PickVersion(s) \/ InsertVersion(s)
    <3>1. UNCHANGED <<clock, edits, troubles, disk, mtime, readAt, writer, last>>
      BY <2>2 DEF ReadForEdit, NoEdit, ReadForWrite, Deny, CreateBase,
                  PickVersion, InsertVersion, store, bounds, history
    <3>. QED
      BY <3>1 DEF WorldTyped, Past, OwnWriteIsFresh, Fresh
  <2>3. CASE \/ FindHistory(s) \/ CreateBaseFails(s) \/ VersionFails(s)
             \/ RecordReadFails(s)
    <3>1. /\ UNCHANGED <<clock, edits, disk, mtime, readAt, writer, last>>
          /\ \/ troubles' = troubles
             \/ troubles < MaxTroubles /\ troubles' = troubles + 1
      BY <2>3 DEF FindHistory, CreateBaseFails, VersionFails, RecordReadFails,
                  Fault, store, history
    <3>. QED
      BY <3>1, Counted DEF WorldTyped, Past, OwnWriteIsFresh, Fresh
  <2>4. CASE WriteFile(s)
    <3>1. /\ UNCHANGED <<clock, edits, troubles, readAt>>
          /\ mtime' = clock /\ writer' = s /\ last' = [last EXCEPT ![s] = None]
          /\ disk' = call[s].new /\ pc[s] = "ask"
      BY <2>4 DEF WriteFile, bounds
    <3>2. call[s].new \in Content
      BY <3>1 DEF CallsTyped, Call
    <3>3. last'[s] = None
      BY <3>1 DEF HistoryTyped
    <3>. QED
      BY <1>0, <3>1, <3>2, <3>3 DEF WorldTyped, Past, OwnWriteIsFresh
  <2>5. CASE WriteFileFails(s)
    <3>1. /\ UNCHANGED <<clock, edits, readAt>>
          /\ troubles < MaxTroubles /\ troubles' = troubles + 1
          /\ last' = [last EXCEPT ![s] = None]
          /\ \/ disk' = Empty /\ mtime' = clock /\ writer' = s
             \/ UNCHANGED <<disk, mtime, writer>>
      BY <2>5 DEF WriteFileFails, Fault, store
    <3>2. last'[s] = None /\ \A t \in Session : t # s => last'[t] = last[t]
      BY <3>1 DEF HistoryTyped
    <3>3. WorldTyped'
      BY <3>1, ContentFacts, Counted DEF WorldTyped
    <3>. QED
      BY <1>0, <3>1, <3>2, <3>3 DEF Past, OwnWriteIsFresh, Fresh
  <2>6. CASE RecordRead(s)
    <3>1. /\ UNCHANGED <<clock, edits, troubles, disk, mtime, writer>>
          /\ readAt' = [readAt EXCEPT ![s] = clock]
          /\ \A t \in Session : t # s => last'[t] = last[t]
      BY <2>6 DEF RecordRead, ReadTime, store, bounds, HistoryTyped
    <3>2. WorldTyped'
      BY <1>0, <3>1 DEF WorldTyped
    <3>3. /\ readAt'[s] = clock
          /\ \A t \in Session : t # s => readAt'[t] = readAt[t]
      BY <3>1 DEF WorldTyped
    <3>. QED
      BY <1>0, <3>1, <3>2, <3>3 DEF Past, OwnWriteIsFresh, Fresh
  <2>. QED
    BY <1>5, <2>1, <2>2, <2>3, <2>4, <2>5, <2>6 DEF Step
<1>. QED
  BY <1>1, <1>2, <1>3, <1>4, <1>5 DEF Next

-----------------------------------------------------------------------------
(* Where a step leaves the session that takes it, and the others.          *)
AtNext(s) == Sound(Own(s), pc[s], call[s], first[s], last[s])

(* A session's step moves nobody else's call, versions and history.        *)
OthersStay(s) ==
    \A t \in Session : t # s =>
        /\ Own(t)' = Own(t) /\ pc'[t] = pc[t] /\ call'[t] = call[t]
        /\ first'[t] = first[t] /\ last'[t] = last[t]

Kept(s) ==
    RowsTyped' /\ CallsTyped' /\ HistoryTyped' /\ AtNext(s)' /\ OthersStay(s)

LEMMA Moves ==
  ASSUME CallsTyped, NEW s \in Session, NEW step \in Steps, Goto(s, step),
         NEW c \in Call \union {None}, step # "idle" => c \in Call,
         \/ call' = [call EXCEPT ![s] = c]
         \/ call' = call /\ c = call[s]
  PROVE  /\ CallsTyped'
         /\ pc'[s] = step /\ call'[s] = c
         /\ \A t \in Session : t # s => pc'[t] = pc[t] /\ call'[t] = call[t]
<1>1. /\ pc \in [Session -> Steps]
      /\ call \in [Session -> Call \union {None}]
      /\ \A t \in Session : pc[t] # "idle" => call[t] \in Call
      /\ pc' = [pc EXCEPT ![s] = step]
  BY DEF CallsTyped, Goto
<1>2. /\ pc' \in [Session -> Steps]
      /\ pc'[s] = step
      /\ \A t \in Session : t # s => pc'[t] = pc[t]
  BY <1>1
<1>3. /\ call' \in [Session -> Call \union {None}]
      /\ call'[s] = c
      /\ \A t \in Session : t # s => call'[t] = call[t]
  BY <1>1
<1>4. \A t \in Session : pc'[t] # "idle" => call'[t] \in Call
  <2> SUFFICES ASSUME NEW t \in Session, pc'[t] # "idle"
               PROVE  call'[t] \in Call
    OBVIOUS
  <2>1. CASE t = s
    BY <1>2, <1>3, <2>1
  <2>2. CASE t # s
    BY <1>1, <1>2, <1>3, <2>2
  <2>. QED
    BY <2>1, <2>2
<1>. QED
  BY <1>2, <1>3, <1>4 DEF CallsTyped

(* The call returns.                                                       *)
LEMMA Returns ==
  ASSUME CallsTyped, NEW s \in Session, EndCall(s)
  PROVE  /\ CallsTyped' /\ pc'[s] = "idle"
         /\ \A t \in Session : t # s => pc'[t] = pc[t] /\ call'[t] = call[t]
<1>1. "idle" \in Steps /\ Goto(s, "idle") /\ call' = [call EXCEPT ![s] = None]
  BY DEF Steps, EndCall
<1>. QED
  BY <1>1, Moves

(* A call begins.                                                          *)
Begun(tool, new) == [tool |-> tool, old |-> Empty, new |-> new, next |-> 0,
                     clean |-> TRUE]

LEMMA BegunCall ==
  ASSUME NEW tool \in {"view", "create", "edit", "write"}, NEW new \in Content
  PROVE  Begun(tool, new) \in Call /\ Begun(tool, new).tool = tool
BY ContentFacts DEF Begun, Call

(* While a call looks at the file, asks, or has returned, only what the    *)
(* versions and the last edit say of each other matters.                   *)
LEMMA QuietKeeps ==
  ASSUME EInv, NEW s \in Session,
         UNCHANGED <<rows, first, last, writer>>, CallsTyped',
         \A t \in Session : t # s => pc'[t] = pc[t] /\ call'[t] = call[t],
         \/ pc'[s] \in {"idle", "read", "ask"}
         \/ pc'[s] = "record" /\ call'[s].tool = "view"
  PROVE  Kept(s)
<1>1. RowsTyped /\ HistoryTyped /\ AtNext(s)
  BY TypedParts DEF EInv, AtNext
<1>2. RowsTyped' /\ HistoryTyped'
  BY <1>1 DEF RowsTyped, HistoryTyped, Latest
<1>3. \A t \in Session : Own(t)' = Own(t)
  BY DEF Own
<1>4. OthersStay(s)
  BY <1>3 DEF OthersStay
<1>5. Sound(Own(s), pc'[s], call'[s], first[s], last[s])
  BY <1>1 DEF AtNext, Sound
<1>6. AtNext(s)'
  BY <1>3, <1>5 DEF AtNext
<1>. QED
  BY <1>2, <1>4, <1>6 DEF Kept

LEMMA BeginKeeps ==
  ASSUME EInv, NEW s \in Session,
         View(s) \/ CheckCreate(s) \/ CheckEdit(s) \/ CheckWrite(s)
  PROVE  Kept(s)
<1>1. PICK tool \in {"view", "create", "edit", "write"}, new \in Content,
           step \in {"record", "read", "ask"} :
         /\ Goto(s, step) /\ call' = [call EXCEPT ![s] = Begun(tool, new)]
         /\ step = "record" => tool = "view"
         /\ UNCHANGED <<rows, first, last, writer>>
  <2> USE ContentFacts
  <2>1. CASE View(s)
    BY <2>1 DEF View, Begin, Begun, history
  <2>2. CASE CheckCreate(s)
    BY <2>2 DEF CheckCreate, Begin, Begun, history
  <2>3. CASE CheckEdit(s)
    BY <2>3 DEF CheckEdit, Begin, Begun, history
  <2>4. CASE CheckWrite(s)
    BY <2>4 DEF CheckWrite, Begin, Begun, history
  <2>. QED
    BY <2>1, <2>2, <2>3, <2>4
<1>2. /\ CallsTyped' /\ pc'[s] = step /\ call'[s] = Begun(tool, new)
      /\ \A t \in Session : t # s => pc'[t] = pc[t] /\ call'[t] = call[t]
  <2>1. CallsTyped /\ step \in Steps
    BY TypedParts DEF EInv, Steps
  <2>2. Begun(tool, new) \in Call
    BY BegunCall
  <2>. QED
    BY <1>1, <2>1, <2>2, Moves
<1>. QED
  BY <1>1, <1>2, BegunCall, QuietKeeps

LEMMA ReturnKeeps ==
  ASSUME EInv, NEW s \in Session, Return(s),
         UNCHANGED <<rows, first, last, writer>>
  PROVE  Kept(s)
BY TypedParts, Returns, QuietKeeps DEF EInv, Return

LEMMA ReadKeeps ==
  ASSUME EInv, NEW s \in Session, ReadForEdit(s) \/ ReadForWrite(s)
  PROVE  Kept(s)
<1> CallsTyped /\ WorldTyped
  BY TypedParts DEF EInv
<1> "ask" \in Steps
  BY DEF Steps
<1>1. CASE ReadForEdit(s)
  <2>1. PICK new \in {ToUnix(text) : text \in Text} :
           call' = [call EXCEPT ![s].old = ToUnix(disk),
                                ![s].new = EndingsOf(disk, new)]
    BY <1>1 DEF ReadForEdit
  <2>2. /\ disk \in Content /\ Goto(s, "ask") /\ pc[s] = "read"
        /\ UNCHANGED <<rows, first, last, writer>>
    BY <1>1 DEF ReadForEdit, WorldTyped, history
  <2> DEFINE old == ToUnix(disk)
             text == EndingsOf(disk, new)
             c == [call[s] EXCEPT !.old = old, !.new = text]
  <2>3. old \in Content /\ text \in Content
    BY <2>2, ContentFacts
  <2>4. call' = [call EXCEPT ![s] = c]
    BY <2>1 DEF CallsTyped
  <2> HIDE DEF old, text
  <2>5. c \in Call
    BY <2>2, <2>3 DEF CallsTyped, Call
  <2> HIDE DEF c
  <2>6. /\ CallsTyped' /\ pc'[s] = "ask"
        /\ \A t \in Session : t # s => pc'[t] = pc[t] /\ call'[t] = call[t]
    BY <2>2, <2>4, <2>5, Moves
  <2>. QED
    BY <2>2, <2>6, QuietKeeps
<1>2. CASE ReadForWrite(s) /\ Return(s)
  BY <1>2, ReturnKeeps DEF ReadForWrite, history
<1>3. CASE ReadForWrite(s) /\ ~Return(s)
  <2> DEFINE old == IF disk = Absent THEN Empty ELSE disk
             c == [call[s] EXCEPT !.old = old]
  <2>1. /\ call' = [call EXCEPT ![s].old = old] /\ pc[s] = "read"
        /\ Goto(s, "ask") /\ UNCHANGED <<rows, first, last, writer>>
    BY <1>3 DEF ReadForWrite, history
  <2>2. old \in Content
    BY ContentFacts DEF WorldTyped
  <2> HIDE DEF old
  <2>3. call' = [call EXCEPT ![s] = c]
    BY <2>1 DEF CallsTyped
  <2>4. c \in Call
    BY <2>1, <2>2 DEF CallsTyped, Call
  <2> HIDE DEF c
  <2>5. /\ CallsTyped' /\ pc'[s] = "ask"
        /\ \A t \in Session : t # s => pc'[t] = pc[t] /\ call'[t] = call[t]
    BY <2>1, <2>3, <2>4, Moves
  <2>. QED
    BY <2>1, <2>5, QuietKeeps
<1>. QED
  BY <1>1, <1>2, <1>3

(* The file is written, or cut off: the session has no last edit until the *)
(* call has ended well.                                                    *)
LEMMA WriteKeeps ==
  ASSUME EInv, NEW s \in Session, WriteFile(s) \/ WriteFileFails(s)
  PROVE  Kept(s)
<1>1. /\ RowsTyped /\ CallsTyped /\ HistoryTyped /\ AtNext(s)
      /\ rows' = rows /\ first' = first /\ last' = [last EXCEPT ![s] = None]
      /\ writer' = s \/ writer' = writer
  BY TypedParts DEF EInv, AtNext, WriteFile, WriteFileFails
<1>2. /\ RowsTyped' /\ HistoryTyped' /\ last'[s] = None
      /\ \A t \in Session : t # s => last'[t] = last[t]
  BY <1>1 DEF RowsTyped, Latest, HistoryTyped
<1>3. \A t \in Session : Own(t)' = Own(t)
  BY <1>1 DEF Own
<1>4. /\ CallsTyped'
      /\ \A t \in Session : t # s => pc'[t] = pc[t] /\ call'[t] = call[t]
      /\ \/ pc'[s] = "idle"
         \/ pc'[s] = "find"
         \/ pc'[s] = "base" /\ call'[s].tool = "create"
  <2>1. CASE WriteFile(s)
    <3> DEFINE step == IF call[s].tool = "create" THEN "base" ELSE "find"
    <3>1. step \in Steps /\ Goto(s, step) /\ call' = call /\ pc[s] = "ask"
      BY <2>1 DEF WriteFile, Steps
    <3> HIDE DEF step
    <3>2. call[s] \in Call
      BY <1>1, <3>1 DEF CallsTyped
    <3>3. /\ CallsTyped' /\ pc'[s] = step /\ call'[s] = call[s]
          /\ \A t \in Session : t # s => pc'[t] = pc[t] /\ call'[t] = call[t]
      BY <1>1, <3>1, <3>2, Moves
    <3>. QED
      BY <3>3 DEF step
  <2>2. CASE WriteFileFails(s)
    BY <1>1, <2>2, Returns DEF WriteFileFails
  <2>. QED
    BY <2>1, <2>2
<1>5. OthersStay(s)
  BY <1>1, <1>2, <1>3, <1>4 DEF OthersStay
<1>6. Sound(Own(s), pc'[s], call'[s], first[s], None)
  BY <1>1, <1>4 DEF AtNext, Sound
<1>7. AtNext(s)'
  BY <1>1, <1>2, <1>3, <1>6 DEF AtNext
<1>. QED
  BY <1>2, <1>4, <1>5, <1>7 DEF Kept

(* The newest of the session's versions, when there is one.                *)
LEMMA NewestFacts ==
  ASSUME NEW s, Own(s) \in SUBSET Row, NEW n \in Own(s),
         Distinct(Own(s)), \A q \in Own(s) : q.version <= n.version
  PROVE  Newest(s) = n
<1>1. /\ Newest(s) \in Own(s)
      /\ \A q \in Own(s) : q.version <= Newest(s).version
  BY DEF Newest
<1>2. PICK m \in Own(s) : m = Newest(s)
  BY <1>1
<1>3. m.version <= n.version /\ n.version <= m.version
  BY <1>1, <1>2
<1>4. m.version = n.version
  BY <1>3 DEF Row
<1>. QED
  BY <1>2, <1>4 DEF Distinct

(* A call with its clean mark taken.                                       *)
Unclean(c) == [c EXCEPT !.clean = FALSE]

LEMMA UncleanCall ==
  ASSUME NEW c \in Call
  PROVE  /\ Unclean(c) \in Call /\ ~Unclean(c).clean
         /\ Unclean(c).tool = c.tool /\ Unclean(c).next = c.next
BY DEF Unclean, Call

LEMMA FindKeeps ==
  ASSUME EInv, NEW s \in Session, FindHistory(s)
  PROVE  Kept(s)
<1>1. /\ RowsTyped /\ CallsTyped /\ HistoryTyped /\ AtNext(s) /\ Typed
      /\ pc[s] = "find" /\ rows' = rows /\ UNCHANGED <<first, last, writer>>
  BY TypedParts DEF EInv, AtNext, FindHistory, history
<1>2. RowsTyped' /\ HistoryTyped'
  BY <1>1 DEF RowsTyped, Latest, HistoryTyped
<1>3. \A t \in Session : Own(t)' = Own(t)
  BY <1>1 DEF Own
<1>4. call[s] \in Call /\ call[s].clean \in BOOLEAN
  BY <1>1 DEF CallsTyped, Call
<1>5. \E step \in {"base", "keep", "store"}, c \in Call :
         /\ Goto(s, step)
         /\ (call' = call /\ c = call[s]) \/ call' = [call EXCEPT ![s] = c]
         /\ step = "base" /\ c.clean => Own(s) = {}
         /\ step # "base" => Own(s) # {}
         /\ step = "store" => Tip(Own(s), c.old)
  <2>1. CASE Own(s) # {} /\ Goto(s, AfterFound(s)) /\ call' = call
    <3>1. PICK n \in Own(s) : Tip(Own(s), n.text)
      BY <1>1, <2>1 DEF AtNext, Sound
    <3>2. PICK m \in Own(s) : \A q \in Own(s) : q.version <= m.version
      BY <3>1 DEF Tip
    <3>3. Newest(s) = m
      BY <1>1, <3>2, OwnRows, NewestFacts
    <3>4. CASE m.text # call[s].old
      BY <1>4, <2>1, <3>3, <3>4 DEF AfterFound
    <3>5. CASE m.text = call[s].old
      <4>1. Tip(Own(s), call[s].old)
        BY <3>2, <3>5 DEF Tip
      <4>. QED
        BY <1>4, <2>1, <3>3, <3>5, <4>1 DEF AfterFound
    <3>. QED
      BY <3>4, <3>5
  <2>2. CASE Own(s) = {} /\ Goto(s, "base") /\ call' = call
    BY <1>4, <2>2
  <2>3. CASE Goto(s, "base") /\ call' = [call EXCEPT ![s].clean = FALSE]
    <3>1. call' = [call EXCEPT ![s] = Unclean(call[s])]
      BY <1>1, <2>3 DEF Unclean, CallsTyped
    <3>. QED
      BY <1>4, <2>3, <3>1, UncleanCall
  <2>. QED
    BY <2>1, <2>2, <2>3 DEF FindHistory
<1>6. PICK step \in {"base", "keep", "store"}, c \in Call :
         /\ Goto(s, step)
         /\ (call' = call /\ c = call[s]) \/ call' = [call EXCEPT ![s] = c]
         /\ step = "base" /\ c.clean => Own(s) = {}
         /\ step # "base" => Own(s) # {}
         /\ step = "store" => Tip(Own(s), c.old)
  BY <1>5
<1>7. /\ CallsTyped' /\ pc'[s] = step /\ call'[s] = c
      /\ \A t \in Session : t # s => pc'[t] = pc[t] /\ call'[t] = call[t]
  BY <1>1, <1>6, Moves DEF Steps
<1>8. OthersStay(s)
  BY <1>1, <1>3, <1>7 DEF OthersStay
<1>9. Sound(Own(s), step, c, first[s], last[s])
  BY <1>1, <1>6 DEF AtNext, Sound
<1>10. AtNext(s)'
  BY <1>1, <1>3, <1>7, <1>9 DEF AtNext
<1>. QED
  BY <1>2, <1>7, <1>8, <1>10 DEF Kept

(* The next version is picked: it is beyond those of the session.          *)
LEMMA PickKeeps ==
  ASSUME EInv, NEW s \in Session, PickVersion(s)
  PROVE  Kept(s)
<1>1. /\ RowsTyped /\ CallsTyped /\ HistoryTyped /\ AtNext(s) /\ Typed
      /\ pc[s] \in {"keep", "store"} /\ UNCHANGED <<rows, first, last, writer>>
  BY TypedParts DEF EInv, AtNext, PickVersion, history
<1>2. RowsTyped' /\ HistoryTyped'
  BY <1>1 DEF RowsTyped, Latest, HistoryTyped
<1>3. \A t \in Session : Own(t)' = Own(t)
  BY <1>1 DEF Own
<1> DEFINE next == NextVersion
           c == [call[s] EXCEPT !.next = next]
           step == IF pc[s] = "keep" THEN "insertOld" ELSE "insertNew"
<1>4. next \in Nat /\ \A q \in Own(s) : q.version < next
  BY <1>1, NextVersionFacts DEF Own
<1>5. call[s] \in Call
  BY <1>1 DEF CallsTyped
<1>6. Goto(s, step) /\ call' = [call EXCEPT ![s] = c] /\ step \in Steps
  BY <1>1 DEF PickVersion, CallsTyped, Steps
<1> HIDE DEF next
<1>7. /\ c \in Call /\ c.next = next /\ c.tool = call[s].tool
      /\ c.clean = call[s].clean /\ c.old = call[s].old
  BY <1>4, <1>5 DEF Call
<1> HIDE DEF c
<1>8. /\ CallsTyped' /\ pc'[s] = step /\ call'[s] = c
      /\ \A t \in Session : t # s => pc'[t] = pc[t] /\ call'[t] = call[t]
  <2> HIDE DEF step
  <2>. QED
    BY <1>1, <1>6, <1>7, Moves
<1>9. OthersStay(s)
  BY <1>1, <1>3, <1>8 DEF OthersStay
<1>10. Sound(Own(s), step, c, first[s], last[s])
  BY <1>1, <1>4, <1>7 DEF AtNext, Sound
<1>11. AtNext(s)'
  <2> HIDE DEF step
  <2>. QED
    BY <1>1, <1>3, <1>8, <1>10 DEF AtNext
<1>. QED
  BY <1>2, <1>8, <1>9, <1>11 DEF Kept

(* Storing a version failed: the call goes on, no longer clean.            *)
LEMMA VersionFailsKeeps ==
  ASSUME EInv, NEW s \in Session, VersionFails(s)
  PROVE  Kept(s)
<1>1. /\ RowsTyped /\ CallsTyped /\ HistoryTyped /\ AtNext(s)
      /\ pc[s] \in {"keep", "insertOld", "store", "insertNew"}
      /\ UNCHANGED <<rows, first, last, writer>>
  BY TypedParts DEF EInv, AtNext, VersionFails, history
<1>2. RowsTyped' /\ HistoryTyped'
  BY <1>1 DEF RowsTyped, Latest, HistoryTyped
<1>3. \A t \in Session : Own(t)' = Own(t)
  BY <1>1 DEF Own
<1>4. call[s] \in Call
  BY <1>1 DEF CallsTyped
<1> DEFINE c == Unclean(call[s])
           step == AfterVersion(s)
<1>5. step \in {"store", "record"} /\ step \in Steps
  BY DEF AfterVersion, Steps
<1>6. Goto(s, step) /\ call' = [call EXCEPT ![s] = c]
  BY <1>1 DEF VersionFails, Unclean, CallsTyped
<1>7. c \in Call /\ ~c.clean
  BY <1>4, UncleanCall
<1> HIDE DEF c, step
<1>8. /\ CallsTyped' /\ pc'[s] = step /\ call'[s] = c
      /\ \A t \in Session : t # s => pc'[t] = pc[t] /\ call'[t] = call[t]
  BY <1>1, <1>5, <1>6, <1>7, Moves
<1>9. OthersStay(s)
  BY <1>1, <1>3, <1>8 DEF OthersStay
<1>10. Sound(Own(s), step, c, first[s], last[s])
  BY <1>1, <1>5, <1>7 DEF AtNext, Sound
<1>11. AtNext(s)'
  BY <1>1, <1>3, <1>8, <1>10 DEF AtNext
<1>. QED
  BY <1>2, <1>8, <1>9, <1>11 DEF Kept

(* The initial version: the first of the session, or one more of a file    *)
(* that was created before.                                                *)
LEMMA BaseKeeps ==
  ASSUME EInv, NEW s \in Session, CreateBase(s)
  PROVE  Kept(s)
<1>1. /\ RowsTyped /\ CallsTyped /\ HistoryTyped /\ AtNext(s) /\ Typed
      /\ pc[s] = "base" /\ call' = call /\ UNCHANGED <<last, writer>>
      /\ Free(s, 0) # {} /\ Insert(s, 0, call[s].old)
  BY TypedParts DEF EInv, AtNext, CreateBase
<1>2. call[s] \in Call /\ call[s].old \in Content
  BY <1>1 DEF CallsTyped, Call
<1> DEFINE f == [text |-> wrote[s].old, late |-> s \in overtaken]
<1>0. /\ first' = IF Own(s) = {} THEN [first EXCEPT ![s] = f] ELSE first
      /\ f \in Replaced /\ (~f.late => Same(call[s].old, f.text))
  <2>1. Matches(s) /\ Wrote(s)
    BY <1>1 DEF EInv, Wrote
  <2>2. /\ wrote[s] \in Written
        /\ s \notin overtaken => Same(call[s].old, wrote[s].old)
    BY <2>1 DEF Matches
  <2>3. f \in Replaced
    BY <2>2 DEF Written, Replaced
  <2>4. f.text = wrote[s].old /\ f.late = (s \in overtaken)
    OBVIOUS
  <2>5. ~f.late => Same(call[s].old, f.text)
    BY <2>2, <2>4
  <2>6. first' = IF Own(s) = {} THEN [first EXCEPT ![s] = f] ELSE first
    BY DEF CreateBase
  <2>. QED
    BY <2>3, <2>5, <2>6
<1> HIDE DEF f
<1> DEFINE step == IF call[s].old # Empty THEN "keep" ELSE "store"
<1>3. Goto(s, step) /\ step \in Steps
  BY DEF CreateBase, Steps
<1>4. PICK n \in Row :
         /\ n.session = s /\ n.text = call[s].old
         /\ \A q \in Own(s) : q.version # n.version
         /\ (\A q \in Own(s) : q.version # 0) => n.version = 0
         /\ rows' = rows \union {n}
  BY <1>1, <1>2, InsertFacts
<1>5. /\ RowsTyped'
      /\ Own(s)' = Own(s) \union {n}
      /\ \A t \in Session : t # s => Own(t)' = Own(t)
  BY <1>1, <1>4, InsertKeeps DEF RowsTyped
<1>6. /\ HistoryTyped'
      /\ first'[s] = IF Own(s) = {} THEN f ELSE first[s]
      /\ \A t \in Session : t # s => first'[t] = first[t]
  BY <1>0, <1>1 DEF HistoryTyped
<1>7. /\ CallsTyped' /\ pc'[s] = step /\ call'[s] = call[s]
      /\ \A t \in Session : t # s => pc'[t] = pc[t] /\ call'[t] = call[t]
  <2> HIDE DEF step
  <2>. QED
    BY <1>1, <1>2, <1>3, Moves
<1>8. OthersStay(s)
  BY <1>1, <1>5, <1>6, <1>7 DEF OthersStay
<1> DEFINE own == Own(s) \union {n}
<1>9. last[s] = None
  BY <1>1 DEF AtNext, Sound
<1>10. FirstIs(own, first'[s])
  <2>1. CASE Own(s) = {}
    BY <1>0, <1>4, <1>6, <2>1 DEF FirstIs
  <2>2. CASE Own(s) # {}
    BY <1>1, <1>6, <2>2 DEF AtNext, Sound, FirstIs
  <2>. QED
    BY <2>1, <2>2
<1>11. Own(s) = {} => Tip(own, call[s].old)
  BY <1>4 DEF Tip, Row
<1>12. \E m \in own : Tip(own, m.text)
  <2>1. CASE Own(s) = {}
    BY <1>4, <1>11, <2>1
  <2>2. CASE Own(s) # {}
    <3>1. PICK x \in Own(s) : Tip(Own(s), x.text)
      BY <1>1, <2>2 DEF AtNext, Sound
    <3>2. PICK m \in Own(s) : \A q \in Own(s) : q.version <= m.version
      BY <3>1 DEF Tip
    <3>3. m.version \in Nat /\ n.version \in Nat
          /\ \A q \in Own(s) : q.version \in Nat
      BY <1>1, OwnRows DEF Row
    <3>4. CASE n.version <= m.version
      BY <3>2, <3>3, <3>4 DEF Tip
    <3>5. CASE m.version <= n.version
      BY <3>2, <3>3, <3>5 DEF Tip
    <3>. QED
      BY <3>3, <3>4, <3>5
  <2>. QED
    BY <2>1, <2>2
<1>13. call[s].tool # "create" /\ call[s].clean => Own(s) = {}
  BY <1>1 DEF AtNext, Sound
<1> HIDE DEF own
<1>14. own # {}
  BY <1>10 DEF FirstIs
<1>15. Sound(own, step, call[s], first'[s], last[s])
  BY <1>9, <1>10, <1>11, <1>12, <1>13, <1>14 DEF Sound
<1>16. AtNext(s)'
  <2> HIDE DEF step
  <2>. QED
    BY <1>1, <1>5, <1>7, <1>15 DEF AtNext, own
<1>. QED
  BY <1>5, <1>6, <1>7, <1>8, <1>16 DEF Kept

(* A later version: beyond all of the session, it is its newest.           *)
LEMMA VersionKeeps ==
  ASSUME EInv, NEW s \in Session, InsertVersion(s)
  PROVE  Kept(s)
<1> DEFINE text == IF pc[s] = "insertOld" THEN call[s].old ELSE call[s].new
           step == IF pc[s] = "insertOld" THEN "store" ELSE "record"
<1>1. /\ RowsTyped /\ CallsTyped /\ HistoryTyped /\ AtNext(s) /\ Typed
      /\ pc[s] \in {"insertOld", "insertNew"} /\ call' = call
      /\ UNCHANGED <<first, last, writer>>
      /\ Free(s, call[s].next) # {} /\ Insert(s, call[s].next, text)
      /\ Goto(s, step) /\ step \in Steps
  BY TypedParts DEF EInv, AtNext, InsertVersion, AfterVersion, Steps, history
<1>2. /\ call[s] \in Call /\ text \in Content /\ call[s].next \in Nat
  BY <1>1 DEF CallsTyped, Call
<1>3. /\ \A q \in Own(s) : q.version < call[s].next
      /\ Own(s) # {} /\ last[s] = None /\ FirstIs(Own(s), first[s])
  BY <1>1 DEF AtNext, Sound
<1>4. \A q \in Own(s) : q.version # call[s].next
  BY <1>2, <1>3
<1> HIDE DEF text
<1>5. PICK n \in Row :
         /\ n.session = s /\ n.text = text
         /\ \A q \in Own(s) : q.version # n.version
         /\ n.version = call[s].next
         /\ rows' = rows \union {n}
  <2>1. \E n \in Row :
            /\ n.session = s /\ n.text = text
            /\ \A q \in Own(s) : q.version # n.version
            /\ (\A q \in Own(s) : q.version # call[s].next) =>
                  n.version = call[s].next
            /\ rows' = rows \union {n}
    BY <1>1, <1>2, InsertFacts
  <2>. QED
    BY <1>4, <2>1
<1>6. /\ RowsTyped' /\ HistoryTyped'
      /\ Own(s)' = Own(s) \union {n}
      /\ \A t \in Session : t # s => Own(t)' = Own(t)
  BY <1>1, <1>5, InsertKeeps DEF RowsTyped, HistoryTyped
<1> DEFINE own == Own(s) \union {n}
<1>7. /\ CallsTyped' /\ pc'[s] = step /\ call'[s] = call[s]
      /\ \A t \in Session : t # s => pc'[t] = pc[t] /\ call'[t] = call[t]
  <2> HIDE DEF step
  <2>. QED
    BY <1>1, <1>2, Moves
<1>8. OthersStay(s)
  BY <1>1, <1>6, <1>7 DEF OthersStay
<1>9. Own(s) \in SUBSET Row /\ \A q \in Own(s) : q.version < n.version
  BY <1>1, <1>3, <1>5, OwnRows
<1>10. Tip(own, text) /\ \E m \in own : Tip(own, m.text)
  BY <1>5, <1>9 DEF Tip, Row
<1>11. CASE pc[s] = "insertOld"
  <2>1. step = "store" /\ text = call[s].old
    BY <1>11 DEF text
  <2> HIDE DEF own, step
  <2>2. own # {} /\ FirstIs(own, first[s])
    BY <1>3 DEF own, FirstIs
  <2>3. Sound(own, step, call[s], first[s], last[s])
    BY <1>3, <1>10, <2>1, <2>2 DEF Sound
  <2>4. AtNext(s)'
    BY <1>1, <1>6, <1>7, <2>3 DEF AtNext, own
  <2>. QED
    BY <1>6, <1>7, <1>8, <2>4 DEF Kept
<1>12. CASE pc[s] = "insertNew"
  <2>1. step = "record" /\ text = call[s].new
    BY <1>12 DEF text
  <2>2. call[s].tool # "create" /\ call[s].clean => Tip(Own(s), call[s].old)
    BY <1>1, <1>12 DEF AtNext, Sound
  <2>3. call[s].clean => Shows(own, call[s])
    BY <1>5, <1>9, <2>1, <2>2, NewVersionShows
  <2> HIDE DEF own, step
  <2>4. own # {} /\ FirstIs(own, first[s])
    BY <1>3 DEF own, FirstIs
  <2>5. Sound(own, step, call[s], first[s], last[s])
    BY <1>3, <1>10, <2>1, <2>3, <2>4 DEF Sound
  <2>6. AtNext(s)'
    BY <1>1, <1>6, <1>7, <2>5 DEF AtNext, own
  <2>. QED
    BY <1>6, <1>7, <1>8, <2>6 DEF Kept
<1>. QED
  BY <1>1, <1>11, <1>12

(* The call ends well: what it stored is the session's last edit.          *)
LEMMA RecordKeeps ==
  ASSUME EInv, NEW s \in Session, RecordRead(s)
  PROVE  Kept(s)
<1> DEFINE edit == [old |-> wrote[s].old, new |-> wrote[s].new,
                    tool |-> call[s].tool, late |-> s \in overtaken]
           ends == call[s].tool # "view" /\ call[s].clean
<1>1. /\ RowsTyped /\ CallsTyped /\ HistoryTyped /\ AtNext(s)
      /\ pc[s] = "record" /\ UNCHANGED <<rows, first, writer>> /\ Return(s)
      /\ last' = IF ends THEN [last EXCEPT ![s] = edit] ELSE last
  BY TypedParts DEF EInv, AtNext, RecordRead
<1>2. /\ CallsTyped' /\ pc'[s] = "idle"
      /\ \A t \in Session : t # s => pc'[t] = pc[t] /\ call'[t] = call[t]
  BY <1>1, Returns DEF Return
<1>3. RowsTyped'
  BY <1>1 DEF RowsTyped, Latest
<1>4. \A t \in Session : Own(t)' = Own(t)
  BY <1>1 DEF Own
<1>5. call[s] \in Call
  BY <1>1 DEF CallsTyped
<1>6. ASSUME ends
      PROVE  /\ wrote[s] \in Written /\ wrote[s].new = call[s].new
             /\ s \notin overtaken => Same(call[s].old, wrote[s].old)
  BY <1>1, <1>6 DEF EInv, Matches, Wrote
<1>7. ends => /\ edit \in Edit /\ edit.new = call[s].new
              /\ edit.tool = call[s].tool
              /\ ~edit.late => Same(call[s].old, edit.old)
  BY <1>5, <1>6 DEF Edit, Call, Written
<1> HIDE DEF edit
<1>8. /\ HistoryTyped'
      /\ last'[s] = IF ends THEN edit ELSE last[s]
      /\ \A t \in Session : t # s => last'[t] = last[t]
  <2> HIDE DEF ends
  <2>. QED
    BY <1>1, <1>7 DEF HistoryTyped
<1>9. OthersStay(s)
  BY <1>1, <1>2, <1>4, <1>8 DEF OthersStay
<1>10. ends => ShowsEdit(Own(s), edit)
  <2> SUFFICES ASSUME ends PROVE ShowsEdit(Own(s), edit)
    OBVIOUS
  <2>1. Shows(Own(s), call[s])
    BY <1>1 DEF AtNext, Sound
  <2>. QED
    BY <1>7, <2>1 DEF Shows, ShowsEdit
<1>11. last'[s] # None => ShowsEdit(Own(s), last'[s])
  <2>1. CASE ends
    <3> HIDE DEF ends
    <3>. QED
      BY <1>8, <1>10, <2>1
  <2>2. CASE ~ends
    <3>1. last'[s] = last[s]
      BY <1>8, <2>2
    <3>. QED
      BY <1>1, <3>1 DEF AtNext, Sound
  <2>. QED
    BY <2>1, <2>2
<1>12. Sound(Own(s), "idle", call'[s], first[s], last'[s])
  BY <1>1, <1>11 DEF AtNext, Sound
<1>13. AtNext(s)'
  BY <1>1, <1>2, <1>4, <1>12 DEF AtNext
<1>. QED
  BY <1>2, <1>3, <1>8, <1>9, <1>13 DEF Kept

LEMMA EveryStepKeeps ==
  ASSUME EInv, NEW s \in Session, Step(s)
  PROVE  Kept(s)
<1>1. CASE View(s) \/ CheckCreate(s) \/ CheckEdit(s) \/ CheckWrite(s)
  BY <1>1, BeginKeeps
<1>2. CASE \/ NoEdit(s) \/ Deny(s) \/ CreateBaseFails(s) \/ RecordReadFails(s)
  <2>1. Return(s) /\ UNCHANGED <<rows, first, last, writer>>
    BY <1>2 DEF NoEdit, Deny, CreateBaseFails, RecordReadFails, history
  <2>. QED
    BY <2>1, ReturnKeeps
<1>3. CASE ReadForEdit(s) \/ ReadForWrite(s)
  BY <1>3, ReadKeeps
<1>4. CASE WriteFile(s) \/ WriteFileFails(s)
  BY <1>4, WriteKeeps
<1>5. CASE FindHistory(s) \/ CreateBase(s)
  BY <1>5, FindKeeps, BaseKeeps
<1>6. CASE PickVersion(s) \/ InsertVersion(s) \/ VersionFails(s)
  BY <1>6, PickKeeps, VersionKeeps, VersionFailsKeeps
<1>7. CASE RecordRead(s)
  BY <1>7, RecordKeeps
<1>. QED
  BY <1>1, <1>2, <1>3, <1>4, <1>5, <1>6, <1>7 DEF Step

-----------------------------------------------------------------------------
(* What was on the disk.                                                   *)

(* A step that leaves a session's call alone and either leaves the disk    *)
(* alone too or overtakes the call keeps what it holds right.              *)
LEMMA MatchesStays ==
  ASSUME NEW t, Matches(t),
         pc'[t] = pc[t], call'[t] = call[t], wrote'[t] = wrote[t],
         t \notin overtaken' =>
            t \notin overtaken /\ (pc[t] = "ask" => disk' = disk)
  PROVE  Matches(t)'
BY DEF Matches, Wrote, Shown

(* Of a call that is not between its reading and its writing, or has       *)
(* returned, nothing is said; of one past its writing, nothing new.        *)
LEMMA StepMatches ==
  ASSUME EInv, NEW s \in Session, Step(s)
  PROVE  /\ GhostTyped' /\ Matches(s)'
         /\ \A t \in Session : t # s =>
               /\ wrote'[t] = wrote[t]
               /\ t \notin overtaken' =>
                     t \notin overtaken /\ (pc[t] = "ask" => disk' = disk)
<1>1. /\ GhostTyped /\ CallsTyped /\ WorldTyped /\ Matches(s)
  BY TypedParts DEF EInv
<1>2. CASE View(s) \/ CheckCreate(s) \/ CheckEdit(s) \/ CheckWrite(s)
  <2>1. /\ UNCHANGED <<disk, wrote, overtaken>>
        /\ \/ pc'[s] = "record" /\ call'[s].tool = "view"
           \/ pc'[s] = "read"
           \/ pc'[s] = "ask" /\ disk = Absent /\ call'[s].old = Empty
    BY <1>1, <1>2 DEF View, CheckCreate, CheckEdit, CheckWrite, Begin, Goto,
                      during, store, CallsTyped
  <2>. QED
    BY <1>1, <2>1 DEF GhostTyped, Matches, Wrote, Shown, Same
<1>3. CASE EndCall(s) /\ overtaken' = overtaken \ {s} /\ disk' = disk
  BY <1>1, <1>3 DEF EndCall, Goto, GhostTyped, CallsTyped, Matches, Wrote
<1>4. CASE ReadForEdit(s)
  <2>1. /\ UNCHANGED <<disk, wrote, overtaken>> /\ pc'[s] = "ask"
        /\ disk \in Content /\ disk # Absent
        /\ call'[s].old = ToUnix(disk)
    BY <1>1, <1>4 DEF ReadForEdit, Goto, during, store, CallsTyped, WorldTyped,
                      Call
  <2>2. Same(ToUnix(disk), disk)
    BY <2>1, ContentFacts
  <2>. QED
    BY <1>1, <2>1, <2>2 DEF GhostTyped, Matches, Wrote, Shown
<1>5. CASE ReadForWrite(s) /\ ~Return(s)
  <2>1. /\ UNCHANGED <<disk, wrote, overtaken>> /\ pc'[s] = "ask"
        /\ call'[s].old = Shown
    BY <1>1, <1>5 DEF ReadForWrite, Goto, during, store, CallsTyped, Call, Shown
  <2>. QED
    BY <1>1, <2>1 DEF GhostTyped, Matches, Wrote, Shown, Same
<1>6. CASE WriteFile(s)
  <2>1. /\ pc[s] = "ask" /\ pc'[s] \in {"base", "find"} /\ call' = call
        /\ wrote' = [wrote EXCEPT ![s] = [old |-> Shown, new |-> call[s].new]]
        /\ overtaken' = overtaken \union (Asking \ {s})
    BY <1>1, <1>6 DEF WriteFile, Goto, CallsTyped
  <2>2. Shown \in Content /\ call[s].new \in Content
    BY <1>1, <2>1, ContentFacts DEF Shown, WorldTyped, CallsTyped, Call
  <2> DEFINE w == [old |-> Shown, new |-> call[s].new]
  <2>3. w \in Written /\ w.old = Shown /\ w.new = call[s].new
    BY <2>2 DEF Written
  <2> HIDE DEF w
  <2>4. wrote' = [wrote EXCEPT ![s] = w]
    BY <2>1 DEF w
  <2>5. GhostTyped' /\ wrote'[s] = w
        /\ \A t \in Session : t # s => wrote'[t] = wrote[t]
    BY <1>1, <2>1, <2>3, <2>4 DEF GhostTyped, Asking
  <2>6. s \notin overtaken' => Same(call[s].old, w.old)
    BY <1>1, <2>1, <2>3 DEF Matches
  <2>7. Matches(s)'
    BY <2>1, <2>3, <2>5, <2>6 DEF Matches
  <2>. QED
    BY <2>1, <2>5, <2>7 DEF Asking
<1>7. CASE WriteFileFails(s)
  <2>1. EndCall(s) /\ s \notin overtaken'
        /\ \/ overtaken' = (overtaken \union Asking) \ {s}
           \/ overtaken' = overtaken \ {s} /\ disk' = disk
    BY <1>7 DEF WriteFileFails, store
  <2>. QED
    BY <1>1, <2>1 DEF EndCall, Goto, GhostTyped, CallsTyped, Matches, Wrote,
                      Asking
<1>8. CASE \/ FindHistory(s) \/ CreateBase(s) \/ PickVersion(s)
           \/ InsertVersion(s) \/ VersionFails(s)
  <2>1. /\ UNCHANGED <<disk, wrote, overtaken>>
        /\ pc[s] \in {"find", "base", "keep", "insertOld", "store", "insertNew"}
    BY <1>8 DEF FindHistory, CreateBase, PickVersion, InsertVersion,
                VersionFails, during, store
  <2>2. pc'[s] # "ask"
    BY <1>1, <1>8 DEF FindHistory, CreateBase, PickVersion, InsertVersion,
                VersionFails, Goto, AfterFound, AfterVersion, CallsTyped
  <2>3. call'[s].old = call[s].old /\ call'[s].new = call[s].new
    <3>1. call[s] \in Call
      BY <1>1, <2>1 DEF CallsTyped
    <3>2. \/ call' = call
          \/ call' = [call EXCEPT ![s].next = NextVersion]
          \/ call' = [call EXCEPT ![s].clean = FALSE]
      BY <1>8 DEF FindHistory, CreateBase, PickVersion, InsertVersion,
                  VersionFails
    <3>. QED
      BY <1>1, <3>1, <3>2 DEF CallsTyped, Call
  <2>. QED
    BY <1>1, <2>1, <2>2, <2>3 DEF GhostTyped, Matches, Wrote
<1>9. CASE \/ NoEdit(s) \/ Deny(s) \/ CreateBaseFails(s) \/ RecordRead(s)
           \/ RecordReadFails(s) \/ (ReadForWrite(s) /\ Return(s))
  BY <1>3, <1>9 DEF NoEdit, Deny, CreateBaseFails, RecordRead, RecordReadFails,
                    ReadForWrite, Return, store
<1>. QED
  BY <1>2, <1>4, <1>5, <1>6, <1>7, <1>8, <1>9 DEF Step

-----------------------------------------------------------------------------
(* The theorems.                                                           *)

(* The invariant holds, whatever sessions and the user do to the file and  *)
(* whichever write or query fails.                                         *)
THEOREM EditInvariance == Spec => []EInv
<1>1. Init => EInv
  <2> SUFFICES ASSUME Init PROVE EInv
    OBVIOUS
  <2>1. /\ clock = 1 /\ disk \in Text \union {Absent} /\ mtime = 0 /\ rows = {}
        /\ readAt = [s \in Session |-> 0]
        /\ pc = [s \in Session |-> "idle"]
        /\ call = [s \in Session |-> None] /\ edits = 0 /\ troubles = 0
        /\ writer = None /\ first = [s \in Session |-> None]
        /\ last = [s \in Session |-> None]
        /\ wrote = [s \in Session |-> None] /\ overtaken = {}
    BY DEF Init
  <2>2. WorldTyped /\ Past
    BY <2>1, BoundsNat, ContentFacts DEF WorldTyped, Past
  <2>3. RowsTyped /\ CallsTyped /\ HistoryTyped
    BY <2>1 DEF RowsTyped, Latest, CallsTyped, HistoryTyped, Steps
  <2>4. OwnWriteIsFresh
    BY <2>1 DEF OwnWriteIsFresh
  <2>5. \A s \in Session : Sound(Own(s), pc[s], call[s], first[s], last[s])
    BY <2>1 DEF Sound, Own
  <2>6. GhostTyped /\ \A s \in Session : Matches(s)
    BY <2>1 DEF GhostTyped, Matches, Wrote
  <2>. QED
    BY <2>2, <2>3, <2>4, <2>5, <2>6, TypedParts DEF EInv
<1>2. EInv /\ [Next]_vars => EInv'
  <2> SUFFICES ASSUME EInv, [Next]_vars PROVE EInv'
    OBVIOUS
  <2>1. WorldTyped' /\ Past' /\ OwnWriteIsFresh'
    BY WorldStep
  <2>2. RowsTyped' /\ CallsTyped' /\ HistoryTyped'
        /\ \A s \in Session : AtNext(s)'
    <3>1. CASE \E s \in Session : Step(s)
      <4>1. PICK s \in Session : Kept(s)
        BY <3>1, EveryStepKeeps
      <4>2. \A t \in Session : t # s => AtNext(t)'
        BY <4>1 DEF Kept, OthersStay, AtNext, EInv
      <4>. QED
        BY <4>1, <4>2 DEF Kept
    <3>2. CASE UNCHANGED vars \/ UserWrites \/ UserDeletes \/ Tick
      <4>1. UNCHANGED <<rows, pc, call, writer, first, last>>
            \/ (UNCHANGED <<rows, pc, call, first, last>> /\ writer' = None)
        BY <3>2 DEF vars, UserWrites, UserDeletes, Tick, history
      <4>2. RowsTyped /\ CallsTyped /\ HistoryTyped
        BY TypedParts DEF EInv
      <4>. QED
        BY <4>1, <4>2 DEF RowsTyped, Latest, CallsTyped, HistoryTyped, EInv,
                          AtNext, Own
    <3>. QED
      BY <3>1, <3>2 DEF Next
  <2>3. Typed'
    BY <2>1, <2>2, TypedParts, PTL
  <2>4. GhostTyped' /\ \A t \in Session : Matches(t)'
    <3>1. GhostTyped /\ \A t \in Session : Matches(t)
      BY DEF EInv
    <3>2. CASE \E s \in Session : Step(s)
      <4>1. PICK s \in Session : Step(s)
        BY <3>2
      <4>2. /\ GhostTyped' /\ Matches(s)'
            /\ \A t \in Session : t # s =>
                  /\ wrote'[t] = wrote[t]
                  /\ t \notin overtaken' =>
                        t \notin overtaken /\ (pc[t] = "ask" => disk' = disk)
        BY <4>1, StepMatches
      <4>3. \A t \in Session : t # s => pc'[t] = pc[t] /\ call'[t] = call[t]
        BY <4>1, EveryStepKeeps DEF Kept, OthersStay
      <4>4. \A t \in Session : t # s => Matches(t)'
        BY <3>1, <4>2, <4>3, MatchesStays
      <4>. QED
        BY <4>2, <4>4
    <3>3. CASE UNCHANGED vars \/ UserWrites \/ UserDeletes \/ Tick
      <4>1. /\ UNCHANGED <<pc, call, wrote>>
            /\ \/ UNCHANGED <<disk, overtaken>>
               \/ overtaken' = overtaken \union Asking
        BY <3>3 DEF vars, UserWrites, UserDeletes, Tick, during, store
      <4>2. \A t \in Session : t \notin overtaken' =>
               t \notin overtaken /\ (pc[t] = "ask" => disk' = disk)
        BY <4>1 DEF Asking
      <4>3. GhostTyped'
        BY <3>1, <4>1 DEF GhostTyped, Asking
      <4>4. \A t \in Session : Matches(t)'
        BY <3>1, <4>1, <4>2, MatchesStays
      <4>. QED
        BY <4>3, <4>4
    <3>. QED
      BY <3>2, <3>3 DEF Next
  <2>. QED
    BY <2>1, <2>2, <2>3, <2>4 DEF EInv, AtNext
<1>. QED
  BY <1>1, <1>2, PTL DEF Spec

(* Every variable keeps its type; no two rows of a session ever have the   *)
(* same version.                                                           *)
THEOREM TypeCorrect == Spec => []TypeOK
<1>1. EInv => TypeOK
  BY DEF EInv, Typed
<1>. QED
  BY <1>1, EditInvariance, PTL

(* The "Modified Files" of a session compare what the disk held before its *)
(* first recorded edit, but for line endings and unless that edit was      *)
(* overtaken between its reading and its writing, with what its last edit  *)
(* put on the disk, for any number of sessions, edits and failures.        *)
THEOREM SidebarIsRight == Spec => []SidebarShowsSessionsWork
<1>1. EInv => SidebarShowsSessionsWork
  <2> SUFFICES ASSUME EInv, NEW s \in Session
               PROVE  /\ Own(s) # {} /\ ~first[s].late =>
                            Same(Oldest(s).text, first[s].text)
                      /\ last[s] # None => Newest(s).text = last[s].new
    BY DEF SidebarShowsSessionsWork
  <2>1. /\ Own(s) \in SUBSET Row /\ Distinct(Own(s))
        /\ Sound(Own(s), pc[s], call[s], first[s], last[s])
    BY OwnRows DEF EInv
  <2>2. ASSUME Own(s) # {}, ~first[s].late
        PROVE  Same(Oldest(s).text, first[s].text)
    <3>1. PICK r \in Own(s) : r.version = 0 /\ Same(r.text, first[s].text)
      BY <2>1, <2>2 DEF Sound, FirstIs
    <3>2. \A q \in Own(s) : q.version >= r.version
      BY <2>1, <3>1 DEF Row
    <3>3. PICK m \in Own(s) :
             m = Oldest(s) /\ \A q \in Own(s) : q.version >= m.version
      BY <3>2 DEF Oldest
    <3>4. m.version = r.version
      BY <2>1, <3>1, <3>3 DEF Row
    <3>. QED
      BY <2>1, <3>1, <3>3, <3>4 DEF Distinct
  <2>3. ASSUME last[s] # None PROVE Newest(s).text = last[s].new
    <3>1. PICK n \in Own(s) : /\ n.text = last[s].new
                              /\ \A q \in Own(s) : q.version <= n.version
      BY <2>1, <2>3 DEF Sound, ShowsEdit
    <3>. QED
      BY <2>1, <3>1, NewestFacts
  <2>. QED
    BY <2>2, <2>3
<1>. QED
  BY <1>1, EditInvariance, PTL

(* An edit that succeeded can be undone: right below what it wrote, the    *)
(* session's versions hold, but for line endings, what was on the disk in  *)
(* its place, somebody else's change too unless it was made between the    *)
(* edit's reading and its writing.                                         *)
THEOREM EditsCanBeUndone == Spec => []ReplacedIsKept
<1>1. EInv => ReplacedIsKept
  <2> SUFFICES ASSUME EInv, NEW s \in Session, last[s] # None,
                      last[s].tool # "create", ~last[s].late
               PROVE  Undoable(s)
    BY DEF ReplacedIsKept
  <2>1. /\ Own(s) \in SUBSET Row /\ Distinct(Own(s))
        /\ ShowsEdit(Own(s), last[s])
    BY OwnRows DEF EInv, Sound
  <2>2. PICK n \in Own(s) :
           /\ \A q \in Own(s) : q.version <= n.version
           /\ \E r \in Own(s) : /\ Same(r.text, last[s].old) /\ r # n
                  /\ \A q \in Own(s) : r.version < q.version => q = n
    BY <2>1 DEF ShowsEdit
  <2>3. Newest(s) = n
    BY <2>1, <2>2, NewestFacts
  <2>. QED
    BY <2>2, <2>3 DEF Undoable
<1>. QED
  BY <1>1, EditInvariance, PTL

(* A session's own edit never makes its next one read the file again: the  *)
(* time it recorded is not before the file's, until somebody else writes.  *)
THEOREM OwnEditsStayFresh == Spec => []OwnWriteIsFresh
<1>1. EInv => OwnWriteIsFresh
  BY DEF EInv
<1>. QED
  BY <1>1, EditInvariance, PTL

=============================================================================
