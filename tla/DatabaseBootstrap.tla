------------------------- MODULE DatabaseBootstrap -------------------------
(***************************************************************************)
(* How a start finds its database:  persistence/DatabaseBootstrap, which   *)
(* applies a staged import, restores an interrupted one and sets aside a   *)
(* file it cannot read, under the lock of persistence/InstanceLock.  Every *)
(* call to the file system is a step of its own: the machine may refuse it *)
(* and the process may end before it.                                      *)
(*                                                                         *)
(* A database is its main file and the write-ahead log beside it, which    *)
(* holds what was committed last.  The -shm companion carries no data and  *)
(* is left out.                                                            *)
(***************************************************************************)
EXTENDS Naturals, Sequences

CONSTANTS None,
          MaxCuts    \* bound on the crashes and the failures of the machine

ASSUME CutsAssumption == MaxCuts \in Nat

VARIABLES
    main,       \* the main file at each place
    log,        \* the log beside it
    mark,       \* the lock file says "running"
    phase,      \* "off", "starting" or "session"
    at,         \* where the start is in the code, when todo is empty
    todo,       \* the calls to the file system the code is going through
    notice,     \* importFailure of the start
    setAside,   \* the start set a database aside
    recovered,  \* InstanceLock::recovered
    cuts,       \* crashes and failures so far
    history     \* what the properties remember of earlier steps

directory == <<main, log>>
start == <<at, todo, notice, setAside, recovered>>
vars == <<main, log, mark, phase, start, cuts, history>>

\* workpane.sqlite3, .import, .backup and .unreadable-<stamp>.
Places == {"file", "staged", "backup", "aside"}

\* "reader" is the database of the reader with every commit in its main file,
\* "behind" the same without the last commits, "damaged" the same in a state
\* this version cannot read, "import" a whole configuration, "torn" part of one,
\* "fresh" an empty database and "mixed" one that took the log of another.
Contents == {"reader", "behind", "damaged", "import", "torn", "fresh", "mixed"}

\* None is the absence of any of these, and of a log.
ASSUME NoneAssumption == None \notin Contents \cup {"commits"}

Labels == {"import", "validate", "open", "fresh"}
Notices == {"none", "rejected", "interrupted"}

Init ==
    /\ main = [p \in Places |-> None]
    /\ log = [p \in Places |-> None]
    /\ mark = FALSE /\ phase = "off"
    /\ at = "import" /\ todo = <<>>
    /\ notice = "none" /\ setAside = FALSE /\ recovered = FALSE
    /\ cuts = 0
    \* had: a session ran once; staged: the last session staged an import; cut: a
    \* start was cut since; parted: one was cut between a main file and its log;
    \* crashed: a process died since the last clean stop.
    /\ history = [had |-> FALSE, staged |-> FALSE, cut |-> FALSE, parted |-> FALSE, crashed |-> FALSE]

-----------------------------------------------------------------------------
(* The calls to the file system.                                           *)

Remove(p) == <<[op |-> "remove main", from |-> p], [op |-> "remove log", from |-> p]>>

\* Mutant of Move: what stands at the destination is not removed first.
MoveOver(from, to) == <<[op |-> "rename main", from |-> from, to |-> to],
                        [op |-> "rename log", from |-> from, to |-> to]>>

Move(from, to) == Remove(to) \o <<[op |-> "rename main", from |-> from, to |-> to],
                                  [op |-> "rename log", from |-> from, to |-> to]>>

Restore == Remove("file") \o Move("backup", "file")

\* What a call does to the directory.  Only a main file that is missing makes a
\* rename impossible: the code looks whether a log is there.
Apply(call) ==
    CASE call.op = "remove main" -> main' = [main EXCEPT ![call.from] = None] /\ UNCHANGED log
      [] call.op = "remove log" -> log' = [log EXCEPT ![call.from] = None] /\ UNCHANGED main
      [] call.op = "rename main" ->
            main' = [main EXCEPT ![call.to] = main[call.from], ![call.from] = None] /\ UNCHANGED log
      [] call.op = "rename log" ->
            log' = [log EXCEPT ![call.to] = log[call.from], ![call.from] = None] /\ UNCHANGED main

Impossible(call) == call.op = "rename main" /\ main[call.from] = None

Do ==
    /\ phase = "starting" /\ todo # <<>>
    /\ ~Impossible(Head(todo))
    /\ Apply(Head(todo))
    /\ todo' = Tail(todo)
    /\ UNCHANGED <<mark, phase, at, notice, setAside, recovered, cuts, history>>

-----------------------------------------------------------------------------
(* What openValidated and whole answer.  The machine may fail any of them. *)

\* What the database at p holds once it is opened.
Merged(p) ==
    CASE log[p] = None -> IF main[p] = None THEN "fresh" ELSE main[p]
      [] log[p] # None /\ main[p] \in {"reader", "behind"} -> "reader"
      [] log[p] # None /\ main[p] \in {None, "fresh"} -> "fresh"   \* SQLite drops the log of an empty file
      [] log[p] # None /\ main[p] = "damaged" -> "damaged"
      [] log[p] # None /\ main[p] \in {"import", "torn", "mixed"} -> "mixed"

Readable(p) == Merged(p) \notin {"damaged", "torn"}
Whole(p) == main[p] = "import"

Budget == cuts < MaxCuts
Spend == cuts' = cuts + 1

\* The check of a readable file succeeds, unless the machine fails it.
Passes(good) == good /\ UNCHANGED cuts
Refuses(good) == IF good THEN Budget /\ Spend ELSE UNCHANGED cuts

-----------------------------------------------------------------------------
(* A start.  Acquire takes the lock and marks it, and the code then goes   *)
(* from one label to the next.                                             *)

Acquire ==
    /\ phase = "off"
    /\ phase' = "starting" /\ mark' = TRUE /\ recovered' = mark
    /\ at' = "import" /\ todo' = <<>> /\ notice' = "none" /\ setAside' = FALSE
    /\ UNCHANGED <<directory, cuts, history>>

Goto(label, calls) ==
    /\ at' = label
    /\ todo' = calls
    /\ UNCHANGED <<directory, mark, phase, setAside, recovered, history>>

HasStaged == main["staged"] # None
HasBackup == main["backup"] # None

\* A backup without a staged import: an import interrupted after it took the
\* place of the database, which stays when it validates.
Interrupted ==
    /\ HasBackup /\ ~HasStaged
    /\ \/ /\ main["file"] # None /\ Passes(Readable("file"))
          /\ notice' = notice
          /\ Goto("open", Remove("backup"))
       \/ /\ IF main["file"] = None THEN UNCHANGED cuts ELSE Refuses(Readable("file"))
          /\ notice' = "interrupted"
          /\ Goto("open", Restore)

NoImport ==
    /\ ~HasBackup /\ ~HasStaged
    /\ UNCHANGED <<notice, cuts>>
    /\ Goto("open", <<>>)

\* Mutant of Dropped: the refusal is not answered.
DroppedSilently ==
    /\ HasStaged /\ Refuses(Whole("staged"))
    /\ UNCHANGED notice
    /\ Goto("open", Remove("staged") \o (IF HasBackup THEN Restore ELSE <<>>))

\* A staged file that is not whole is dropped.
Dropped ==
    /\ HasStaged /\ Refuses(Whole("staged"))
    /\ notice' = "rejected"
    /\ Goto("open", Remove("staged") \o (IF HasBackup THEN Restore ELSE <<>>))

\* Mutant of Placed: the database is moved aside whether or not it is there.
PlacedUnasked ==
    /\ HasStaged /\ Passes(Whole("staged"))
    /\ UNCHANGED notice
    /\ Goto("validate", Move("file", "backup") \o Move("staged", "file"))

\* A whole one takes the place of the database, which becomes the backup.
Placed ==
    /\ HasStaged /\ Passes(Whole("staged"))
    /\ UNCHANGED notice
    /\ Goto("validate", (IF main["file"] # None /\ ~HasBackup THEN Move("file", "backup") ELSE <<>>)
                            \o Move("staged", "file"))

Ready(label) == phase = "starting" /\ todo = <<>> /\ at = label

ApplyStagedImport == Ready("import") /\ (Interrupted \/ NoImport \/ Dropped \/ Placed)

\* The placed database is accepted, or the previous one comes back.
Validate ==
    /\ Ready("validate")
    /\ \/ /\ Passes(Readable("file"))
          /\ notice' = notice
          /\ Goto("open", Remove("backup"))
       \/ /\ Refuses(Readable("file"))
          /\ notice' = "rejected"
          /\ Goto("open", Restore)

\* The start ends with an open database: a session of the reader.
Opened ==
    /\ Ready("open") \/ Ready("fresh")
    /\ Readable("file")
    /\ phase' = "session"
    /\ main' = [main EXCEPT !["file"] = Merged("file")]
    /\ log' = [log EXCEPT !["file"] = None]
    /\ setAside' = (at = "fresh")
    /\ UNCHANGED <<mark, at, todo, notice, recovered, cuts, history>>

\* What this version cannot read is set aside, and a fresh one is opened.
SetAside ==
    /\ Ready("open")
    /\ ~Readable("file")
    /\ UNCHANGED <<notice, cuts>>
    /\ Goto("fresh", Move("file", "aside"))

-----------------------------------------------------------------------------
(* Where a start is cut short.                                             *)

\* A start cut just before the log follows its main file parts the two.
Cut ==
    LET parts == todo # <<>> /\ Head(todo).op = "rename log" /\ log[Head(todo).from] # None
    IN  history' = [history EXCEPT !.cut = TRUE, !.parted = @ \/ parts]

\* The machine refuses a call, or a call is impossible: the start fails and the
\* lock is released, which empties its file.  A file that was just created may stay.
Fail ==
    /\ phase = "starting"
    /\ IF todo # <<>> /\ Impossible(Head(todo)) THEN UNCHANGED cuts ELSE Budget /\ Spend
    /\ Cut
    /\ phase' = "off" /\ mark' = FALSE
    /\ \/ UNCHANGED main
       \/ /\ todo = <<>> /\ at \in {"open", "fresh"} /\ main["file"] = None
          /\ main' = [main EXCEPT !["file"] = "fresh"]
    /\ UNCHANGED <<log, start>>

\* The lock could not be written: acquire fails, and the mark may be lost.
AcquireFails ==
    /\ phase = "off" /\ Budget /\ Spend
    /\ mark' \in {mark, FALSE}
    /\ UNCHANGED <<directory, phase, start, history>>

\* The process dies in a start.
CrashStarting ==
    /\ phase = "starting" /\ Budget /\ Spend
    /\ LET parts == todo # <<>> /\ Head(todo).op = "rename log" /\ log[Head(todo).from] # None
       IN  history' = [history EXCEPT !.cut = TRUE, !.parted = @ \/ parts, !.crashed = TRUE]
    /\ phase' = "off"
    /\ UNCHANGED <<directory, mark, start>>

-----------------------------------------------------------------------------
(* A session.  What it opened is the database of the reader from there on, *)
(* and a file it set aside is told and never looked at again.              *)

\* An import is staged, whole, or torn by what the disk did to it.
Stage(content) ==
    /\ phase = "session"
    /\ main' = [main EXCEPT !["staged"] = content]
    /\ history' = [history EXCEPT !.staged = TRUE]
    /\ UNCHANGED <<log, mark, phase, start, cuts>>

Leaves(content, commits) ==
    /\ main' = [main EXCEPT !["file"] = content, !["aside"] = None]
    /\ log' = [log EXCEPT !["file"] = commits, !["aside"] = None]

After(crashed) == [had |-> TRUE, staged |-> main["staged"] # None, cut |-> FALSE, parted |-> FALSE,
                   crashed |-> crashed]

\* A clean stop empties the lock file last.  A damaged database is what the disk
\* or another version of the product makes of it before the next start.
Stop ==
    /\ phase = "session"
    /\ phase' = "off" /\ mark' = FALSE
    /\ \E content \in {"reader", "damaged"} : Leaves(content, None)
    /\ history' = After(FALSE)
    /\ UNCHANGED <<start, cuts>>

\* The process dies in a session, with commits that are only in the log, or none.
Crash ==
    /\ phase = "session" /\ Budget /\ Spend
    /\ phase' = "off"
    /\ Leaves("behind", "commits") \/ Leaves("damaged", "commits") \/ Leaves("reader", None)
    /\ history' = After(TRUE)
    /\ UNCHANGED <<mark, start>>

-----------------------------------------------------------------------------
Next ==
    \/ Acquire \/ AcquireFails
    \/ Do \/ ApplyStagedImport \/ Validate \/ Opened \/ SetAside
    \/ Fail \/ CrashStarting
    \/ \E content \in {"import", "torn"} : Stage(content)
    \/ Stop \/ Crash

Spec == Init /\ [][Next]_vars

-----------------------------------------------------------------------------
(* Properties.                                                             *)

Calls == [op : {"remove main", "remove log"}, from : Places]
            \cup [op : {"rename main", "rename log"}, from : Places, to : Places]

\* Every variable has its type.
TypeOK ==
    /\ main \in [Places -> Contents \cup {None}]
    /\ log \in [Places -> {"commits", None}]
    /\ mark \in BOOLEAN /\ setAside \in BOOLEAN /\ recovered \in BOOLEAN
    /\ phase \in {"off", "starting", "session"}
    /\ at \in Labels /\ notice \in Notices
    /\ todo \in Seq(Calls)
    /\ cuts \in 0..MaxCuts
    /\ history \in [had : BOOLEAN, staged : BOOLEAN, cut : BOOLEAN, parted : BOOLEAN, crashed : BOOLEAN]

\* The database of the reader, with what was committed last, is at p.
Complete(p) ==
    \/ main[p] \in {"reader", "damaged"}
    \/ main[p] = "behind" /\ log[p] = "commits"

Survives ==
    \/ main["file"] = "import"
    \/ \E p \in {"file", "backup", "aside"} : Complete(p)

\* Wherever starts were cut, and however often, the database of the reader is
\* still there with every commit, or a whole import stands in its place; the one
\* exception is a start cut between the two renames of a move.
Kept == phase = "off" /\ history.had /\ ~history.parted => Survives

\* applyStagedImport: "the notice is answered only once the previous database is
\* back", in its place or, when it cannot be read, set aside.
NoticeTrue ==
    phase = "session" /\ notice # "none" /\ ~history.parted =>
        \/ main["file"] = "reader"
        \/ main["file"] = "fresh" /\ main["aside"] = "damaged"

\* No database is ever opened with the log of another.
NeverMixed == \A p \in Places : main[p] # "mixed"

\* No start loses the database of the reader or mixes it with another.
DataKept == TypeOK /\ Kept /\ NeverMixed

\* A start that was not cut applies the import the reader staged or says that it
\* was refused, and names the database it set aside.
Answered ==
    phase = "session" /\ ~history.cut =>
        /\ history.staged /\ main["staged"] = None => main["file"] = "import" \/ notice = "rejected"
        /\ main["aside"] # None => setAside

\* The reader is told that a session did not close cleanly only when one did not.
RecoveredReal == phase = "session" /\ recovered => history.crashed

\* What a start tells the reader is true, and what the reader must know is told.
Told == NoticeTrue /\ Answered /\ RecoveredReal

\* However starts are cut, once the machine stops failing a start opens a database.
StartsSucceed == phase = "starting" ~> phase = "session"

\* moveDatabase: "A database and its write-ahead companions move together, because
\* what was committed last may only be in the log.": no session opens the database
\* of the reader without what was committed last.
MovesTogether == phase = "session" => main["file"] # "behind"
=============================================================================
