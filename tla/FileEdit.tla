------------------------------ MODULE FileEdit ------------------------------
(***************************************************************************)
(* One file and the tools that work on it: view, edit (which creates,      *)
(* replaces and deletes content), multiedit and write in                   *)
(* internal/agent/tools, the versions of the file they keep for each       *)
(* session (internal/history/file.go) and the time each session last read  *)
(* it (internal/filetracker/service.go).                                   *)
(*                                                                         *)
(* A session runs one of these tools at a time; several sessions work on   *)
(* the file at once, and the user changes or removes it at any moment.     *)
(* A call is a sequence of steps on three stores (the disk, the table of   *)
(* versions, the table of reads), each of which may fail: the most common  *)
(* reason is that the turn is cancelled, which fails every later query.    *)
(***************************************************************************)
EXTENDS Integers, FiniteSets, FiniteSetsExt

CONSTANTS
    Session,    \* sessions whose agents use the file
    Body,       \* what a file may say
    Crlf,       \* line endings: Windows' (TRUE), Unix' (FALSE) or both
    Nothing,    \* the body of an empty file
    Absent,     \* there is no file
    None,       \* no call, no edit
    MaxClock,   \* bound: seconds that pass
    MaxEdits,   \* bound: edits begun, by all sessions
    MaxTroubles \* bound: writes and queries that fail, and changes of the
                \* file by the user

ASSUME BoundsNat ==
    MaxClock \in Nat \ {0} /\ {MaxEdits, MaxTroubles} \subseteq Nat
ASSUME FreshNames ==
    {Nothing, Absent, None} \cap Body = {} /\ None \notin Session
ASSUME EndingsBool == Crlf \subseteq BOOLEAN

Empty == [body |-> Nothing, crlf |-> FALSE]
Text == {Empty} \union [body : Body, crlf : Crlf]
ToUnix(text) == [text EXCEPT !.crlf = FALSE]
(* The same but for the line endings, which edit and multiedit take off    *)
(* what they read.                                                         *)
Same(a, b) == ToUnix(a) = ToUnix(b)
(* What a file, a row or a call may hold.                                  *)
Content == Text \union {ToUnix(text) : text \in Text}

VARIABLES
    clock,      \* the time in seconds, from 1; 0 is Go's zero time
    disk,       \* the file's text, or Absent
    mtime,      \* its time stamp, truncated to seconds
    rows,       \* the file's rows of the table files
    readAt,     \* read_files: when each session last read the file, or 0
    pc,         \* where each session's tool call is
    edits,      \* how many edits were begun
    troubles,   \* how often a write or query failed or the user changed
                \* the file
    call,       \* what it holds: tool, old and new content, next version
    writer,     \* history: the session that wrote the file last, or None
    wrote,      \* history: what each call found on the disk when it wrote
                \* the file, and what it put there
    overtaken,  \* history: the calls between whose reading and writing
                \* somebody else changed the file
    first,      \* history: what the session's first recorded edit replaced
    last        \* history: the session's last edit, if all of it succeeded

store == <<disk, mtime>>
bounds == <<edits, troubles>>
during == <<wrote, overtaken>>
history == <<writer, first, last>>
vars == <<clock, disk, mtime, rows, readAt, pc, call, edits, troubles,
          wrote, overtaken, writer, first, last>>

Row == [session : Session, version : Nat, text : Content]
Call == [tool : {"view", "create", "edit", "write"}, old : Content,
         new : Content, next : Nat, clean : BOOLEAN]
Steps == {"idle", "read", "ask", "find", "base", "keep", "insertOld",
          "store", "insertNew", "record"}

Own(s) == {r \in rows : r.session = s}
Versions(set) == {r.version : r \in set}
(* GetFileByPathAndSession: the session's row with the highest version.    *)
Newest(s) == CHOOSE r \in Own(s) : \A q \in Own(s) : q.version <= r.version
(* Mutant: the oldest row instead.                                         *)
Oldest(s) == CHOOSE r \in Own(s) : \A q \in Own(s) : q.version >= r.version

Goto(s, step) == pc' = [pc EXCEPT ![s] = step]
(* The call returns, with an answer or with an error.                      *)
EndCall(s) ==
    /\ Goto(s, "idle")
    /\ call' = [call EXCEPT ![s] = None]
    /\ wrote' = [wrote EXCEPT ![s] = None]
Return(s) == EndCall(s) /\ overtaken' = overtaken \ {s}
Begin(s, tool, new, step) ==
    /\ pc[s] = "idle"
    /\ IF tool = "view" THEN UNCHANGED edits
       ELSE edits < MaxEdits /\ edits' = edits + 1
    /\ call' = [call EXCEPT ![s] = [tool |-> tool, old |-> Empty, new |-> new,
                                    next |-> 0, clean |-> TRUE]]
    /\ Goto(s, step)
    /\ UNCHANGED during

(* A write or a query fails.                                               *)
Fault == troubles < MaxTroubles /\ troubles' = troubles + 1

Init ==
    /\ clock = 1
    /\ disk \in Text \union {Absent}
    /\ mtime = 0
    /\ rows = {}
    /\ readAt = [s \in Session |-> 0]
    /\ pc = [s \in Session |-> "idle"]
    /\ call = [s \in Session |-> None]
    /\ edits = 0
    /\ troubles = 0
    /\ writer = None
    /\ wrote = [s \in Session |-> None]
    /\ overtaken = {}
    /\ first = [s \in Session |-> None]
    /\ last = [s \in Session |-> None]

-----------------------------------------------------------------------------
(* The checks at the start of a call.                                      *)

(* Not modified since the session last read it.                            *)
Fresh(s) == mtime <= readAt[s]

View(s) ==
    /\ disk # Absent
    /\ Begin(s, "view", Empty, "record")
    /\ UNCHANGED <<clock, troubles, store, rows, readAt, history>>

(* createNewFile, processMultiEditWithCreation                             *)
CheckCreate(s) ==
    /\ disk = Absent
    /\ \E new \in Text : Begin(s, "create", new, "ask")
    /\ UNCHANGED <<clock, troubles, store, rows, readAt, history>>

(* replaceContent, deleteContent, processMultiEditExistingFile             *)
CheckEdit(s) ==
    /\ disk # Absent
    /\ readAt[s] # 0
    /\ Fresh(s)
    /\ Begin(s, "edit", Empty, "read")
    /\ UNCHANGED <<clock, troubles, store, rows, readAt, history>>

CheckWrite(s) ==
    /\ disk = Absent \/ Fresh(s)
    /\ \E new \in Text \ {Empty} :
          Begin(s, "write", new, IF disk = Absent THEN "ask" ELSE "read")
    /\ UNCHANGED <<clock, troubles, store, rows, readAt, history>>

-----------------------------------------------------------------------------
(* What it reads, and the wait for permission.                             *)

(* ToWindowsLineEndings, when the file had them.                           *)
EndingsOf(text, new) ==
    IF new = Empty THEN Empty ELSE [new EXCEPT !.crlf = text.crlf]

(* The edit is applied to the text with Unix line endings; what is written *)
(* gets the file's own line endings again.                                 *)
ReadForEdit(s) ==
    /\ pc[s] = "read"
    /\ call[s].tool = "edit"
    /\ disk # Absent
    /\ \E new \in {ToUnix(text) : text \in Text} :
          /\ new # ToUnix(disk)
          /\ call' = [call EXCEPT ![s].old = ToUnix(disk),
                                  ![s].new = EndingsOf(disk, new)]
    /\ Goto(s, "ask")
    /\ UNCHANGED <<clock, bounds, store, rows, readAt, during, history>>

(* The file is gone, or the edit does not match it or changes nothing.     *)
NoEdit(s) ==
    /\ pc[s] = "read"
    /\ call[s].tool = "edit"
    /\ Return(s)
    /\ UNCHANGED <<clock, bounds, store, rows, readAt, history>>

(* write refuses to write what is there already.                           *)
ReadForWrite(s) ==
    /\ pc[s] = "read"
    /\ call[s].tool = "write"
    /\ IF disk = call[s].new
       THEN Return(s)
       ELSE /\ call' = [call EXCEPT ![s].old =
                             IF disk = Absent THEN Empty ELSE disk]
            /\ Goto(s, "ask")
            /\ UNCHANGED during
    /\ UNCHANGED <<clock, bounds, store, rows, readAt, history>>

(* Permission is denied, or the turn is cancelled while it waits.          *)
Deny(s) ==
    /\ pc[s] = "ask"
    /\ Return(s)
    /\ UNCHANGED <<clock, bounds, store, rows, readAt, history>>

-----------------------------------------------------------------------------
(* What it writes.                                                         *)

(* What whoever reads the file now finds in it.                            *)
Shown == IF disk = Absent THEN Empty ELSE disk
(* The calls that have read the file and have not written it.              *)
Asking == {s \in Session : pc[s] = "ask"}

WriteFile(s) ==
    /\ pc[s] = "ask"
    /\ disk' = call[s].new
    /\ mtime' = clock
    /\ writer' = s
    /\ wrote' = [wrote EXCEPT ![s] = [old |-> Shown, new |-> disk']]
    /\ overtaken' = overtaken \union (Asking \ {s})
    /\ last' = [last EXCEPT ![s] = None]
    /\ Goto(s, IF call[s].tool = "create" THEN "base" ELSE "find")
    /\ UNCHANGED <<clock, bounds, rows, readAt, call, first>>

(* os.WriteFile truncates before it writes.                                *)
WriteFileFails(s) ==
    /\ Fault
    /\ pc[s] = "ask"
    /\ \/ /\ disk' = Empty /\ mtime' = clock /\ writer' = s
          /\ overtaken' = (overtaken \union Asking) \ {s}
       \/ UNCHANGED <<store, writer>> /\ overtaken' = overtaken \ {s}
    /\ last' = [last EXCEPT ![s] = None]
    /\ EndCall(s)
    /\ UNCHANGED <<clock, edits, rows, readAt, first>>

(* Mutant: the version in between is kept when nothing changed.            *)
KeepUnchanged(s) == IF Newest(s).text = call[s].old THEN "keep" ELSE "store"

(* The content the call replaces is kept when it is not the newest version *)
(* already.                                                                *)
AfterFound(s) == IF Newest(s).text # call[s].old THEN "keep" ELSE "store"

FindHistory(s) ==
    /\ pc[s] = "find"
    /\ \/ Own(s) # {} /\ Goto(s, AfterFound(s)) /\ UNCHANGED <<call, troubles>>
       \/ Own(s) = {} /\ Goto(s, "base") /\ UNCHANGED <<call, troubles>>
       \/ /\ Fault
          /\ Goto(s, "base")
          /\ call' = [call EXCEPT ![s].clean = FALSE]
    /\ UNCHANGED <<clock, edits, store, rows, readAt, during, history>>

(* createWithVersion: the uniqueness of path, session and version makes    *)
(* it try the next versions, three in all.                                 *)
maxRetries == 3
Free(s, version) == (version .. version + maxRetries - 1) \ Versions(Own(s))

(* Mutant: it replaces the version that is there.                          *)
Replace(s, version, text) ==
    rows' = {r \in rows : r.session # s \/ r.version # version}
                \union {[session |-> s, version |-> version, text |-> text]}

Insert(s, version, text) ==
    rows' = rows \union {[session |-> s, version |-> Min(Free(s, version)),
                          text |-> text]}

(* Create, at the initial version.  The found file is the zero File here,  *)
(* so what was just stored is stored once more unless it is empty.         *)
CreateBase(s) ==
    /\ pc[s] = "base"
    /\ Free(s, 0) # {}
    /\ Insert(s, 0, call[s].old)
    /\ first' = IF Own(s) = {}
                THEN [first EXCEPT ![s] = [text |-> wrote[s].old,
                                           late |-> s \in overtaken]]
                ELSE first
    /\ Goto(s, IF call[s].old # Empty THEN "keep" ELSE "store")
    /\ UNCHANGED <<clock, bounds, store, readAt, call, during, writer, last>>

(* The tool returns the error although the file is written.                *)
CreateBaseFails(s) ==
    /\ pc[s] = "base"
    /\ Fault \/ (Free(s, 0) = {} /\ UNCHANGED troubles)
    /\ Return(s)
    /\ UNCHANGED <<clock, edits, store, rows, readAt, history>>

(* CreateVersion: the version after the latest one of any session.         *)
NextVersion == IF rows = {} THEN 0 ELSE Max(Versions(rows)) + 1

PickVersion(s) ==
    /\ pc[s] \in {"keep", "store"}
    /\ call' = [call EXCEPT ![s].next = NextVersion]
    /\ Goto(s, IF pc[s] = "keep" THEN "insertOld" ELSE "insertNew")
    /\ UNCHANGED <<clock, bounds, store, rows, readAt, during, history>>

AfterVersion(s) ==
    IF pc[s] \in {"keep", "insertOld"} THEN "store" ELSE "record"

(* It is beyond the versions of the session, so there is always a free one. *)
InsertVersion(s) ==
    /\ pc[s] \in {"insertOld", "insertNew"}
    /\ Free(s, call[s].next) # {}
    /\ Insert(s, call[s].next,
              IF pc[s] = "insertOld" THEN call[s].old ELSE call[s].new)
    /\ Goto(s, AfterVersion(s))
    /\ UNCHANGED <<clock, bounds, store, readAt, call, during, history>>

(* An error of CreateVersion is logged, and the call goes on.              *)
VersionFails(s) ==
    /\ Fault
    /\ pc[s] \in {"keep", "insertOld", "store", "insertNew"}
    /\ call' = [call EXCEPT ![s].clean = FALSE]
    /\ Goto(s, AfterVersion(s))
    /\ UNCHANGED <<clock, edits, store, rows, readAt, during, history>>

(* Mutant: a call that wrote the file does not record it as read.          *)
ViewedAt(s) == IF call[s].tool = "view" THEN clock ELSE readAt[s]

(* RecordFileRead: the time is that of the query.                          *)
ReadTime(s) == clock

(* RecordRead, and the call ends well.                                     *)
RecordRead(s) ==
    /\ pc[s] = "record"
    /\ readAt' = [readAt EXCEPT ![s] = ReadTime(s)]
    /\ last' = IF call[s].tool # "view" /\ call[s].clean
               THEN [last EXCEPT ![s] = [old |-> wrote[s].old,
                                         new |-> wrote[s].new,
                                         tool |-> call[s].tool,
                                         late |-> s \in overtaken]]
               ELSE last
    /\ Return(s)
    /\ UNCHANGED <<clock, bounds, store, rows, writer, first>>

(* An error of RecordRead is logged; the answer is the same.               *)
RecordReadFails(s) ==
    /\ Fault
    /\ pc[s] = "record"
    /\ Return(s)
    /\ UNCHANGED <<clock, edits, store, rows, readAt, history>>

-----------------------------------------------------------------------------
(* The user, an editor or a shell command changes the file.                *)
Change == troubles < MaxTroubles /\ troubles' = troubles + 1

UserWrites ==
    /\ Change
    /\ \E text \in Text : disk' = text
    /\ mtime' = clock
    /\ writer' = None
    /\ overtaken' = overtaken \union Asking
    /\ UNCHANGED <<clock, edits, rows, readAt, pc, call, wrote, first, last>>

UserDeletes ==
    /\ Change
    /\ disk # Absent
    /\ disk' = Absent
    /\ mtime' = 0
    /\ writer' = None
    /\ overtaken' = overtaken \union Asking
    /\ UNCHANGED <<clock, edits, rows, readAt, pc, call, wrote, first, last>>

Tick ==
    /\ clock < MaxClock
    /\ clock' = clock + 1
    /\ UNCHANGED <<store, rows, readAt, pc, call, bounds, during, history>>

Step(s) ==
    \/ View(s) \/ CheckCreate(s) \/ CheckEdit(s) \/ CheckWrite(s)
    \/ ReadForEdit(s) \/ NoEdit(s) \/ ReadForWrite(s)
    \/ Deny(s) \/ WriteFile(s) \/ WriteFileFails(s)
    \/ FindHistory(s) \/ CreateBase(s) \/ CreateBaseFails(s)
    \/ PickVersion(s) \/ InsertVersion(s) \/ VersionFails(s)
    \/ RecordRead(s) \/ RecordReadFails(s)

Next == (\E s \in Session : Step(s)) \/ UserWrites \/ UserDeletes \/ Tick

Spec == Init /\ [][Next]_vars

-----------------------------------------------------------------------------
TypeOK ==
    /\ clock \in 1 .. MaxClock
    /\ disk \in Content \union {Absent}
    /\ mtime \in 0 .. MaxClock
    /\ rows \subseteq Row
    /\ \A r, q \in rows :
          r.session = q.session /\ r.version = q.version => r = q
    /\ readAt \in [Session -> 0 .. MaxClock]
    /\ pc \in [Session -> Steps]
    /\ \A s \in Session : pc[s] # "idle" => call[s] \in Call
    /\ edits \in 0 .. MaxEdits
    /\ troubles \in 0 .. MaxTroubles

(* What the "Modified Files" of a session show (loadSessionFiles compares  *)
(* its first version with its last) is the change from what the disk held  *)
(* when the session's first recorded edit replaced it to what its last     *)
(* edit put there, whatever versions other sessions take in between,       *)
(* whatever failed before, and however often the file was removed and      *)
(* created again.  Line endings are not compared, and a first edit that    *)
(* somebody overtook while it waited for permission is excepted: see       *)
(* WhatIsReplacedIsKept.                                                   *)
SidebarShowsSessionsWork ==
    \A s \in Session :
        /\ Own(s) # {} /\ ~first[s].late => Same(Oldest(s).text, first[s].text)
        /\ last[s] # None => Newest(s).text = last[s].new

(* Right below what an edit wrote, the session's versions hold what was on *)
(* the disk in its place.                                                  *)
Undoable(s) ==
    \E r \in Own(s) :
        /\ Same(r.text, last[s].old)
        /\ \A q \in Own(s) : r.version < q.version => q = Newest(s)
        /\ r # Newest(s)

(* An edit that succeeded can be undone, what somebody else changed before *)
(* it read the file included.  Line endings are not compared, and an edit  *)
(* that somebody overtook while it waited for permission is excepted.      *)
ReplacedIsKept ==
    \A s \in Session :
        last[s] # None /\ last[s].tool # "create" /\ ~last[s].late => Undoable(s)

(* "User manually changed the content; store an intermediate version"      *)
(* (edit.go 427): whatever content an edit replaced is kept, whenever the  *)
(* user changed it.                                                        *)
WhatIsReplacedIsKept ==
    \A s \in Session : last[s] # None /\ last[s].tool # "create" => Undoable(s)

(* A session's own edit never makes it read the file again: while nobody   *)
(* else writes the file, the next edit passes the check of its time stamp. *)
OwnWriteIsFresh ==
    \A s \in Session : last[s] # None /\ writer = s => Fresh(s)

=============================================================================
