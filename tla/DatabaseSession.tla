-------------------------- MODULE DatabaseSession --------------------------
(***************************************************************************)
(* What a session does with the database DatabaseBootstrap opened: the     *)
(* works StorageHost hands to the database thread, one after the other.    *)
(* persistence/PluginDatabase migrates, writes and erases the tables of    *)
(* one plugin, and persistence/ConfigurationTransfer copies the whole      *)
(* database: out of it, beside an erase that recovers a plugin, or in, for *)
(* the next start.  A work is a program of calls; every call may fail, and *)
(* the process may end between any two.                                    *)
(***************************************************************************)
EXTENDS DatabaseBootstrap

CONSTANTS MaxVersion,  \* bound on the migrations a plugin declares
          MaxWorks     \* bound on the works of all sessions

ASSUME SessionAssumption == MaxVersion \in Nat \ {0} /\ MaxWorks \in Nat

VARIABLES
    live,      \* the data of the plugin the database holds, committed
    open,      \* the same inside an open transaction, or None
    declared,  \* the migrations the installed plugin declares
    job,       \* the work on the database thread, or None
    chosen,    \* the file the reader exports to: None, or a copy
    rescue,    \* the copies under plugin-data-recovery, each under a name of its own
    gone,      \* what recoveries erased
    stuck,     \* a ROLLBACK of this session failed
    works      \* works so far

data == <<live, open, declared, chosen, rescue, gone, stuck>>
sessionVars == <<vars, data, job, works>>

\* Tables that no migration of this plugin creates.
Strange == MaxVersion + 1
Rows == {"none", "half", "whole"}
Data == [version : 0..MaxVersion, tables : 0..Strange, rows : Rows]
Blank == [version |-> 0, tables |-> 0, rows |-> "none"]

\* A file that was created and is not filled yet.
Half == [Blank EXCEPT !.rows = "half"]

\* The data of a plugin as some build left it: whole, but perhaps Strange.
Stored == {d \in Data :
              /\ d.tables \in {d.version, Strange} /\ d.rows # "half"
              /\ d.version = 0 => d = Blank}

Kinds == {"migrate", "transaction", "run", "erase", "recover", "export", "import"}

SessionInit ==
    /\ Init
    /\ live = Blank /\ open = None /\ declared = 1
    /\ job = None /\ chosen = None /\ rescue = {} /\ gone = {}
    /\ stuck = FALSE /\ works = 0

\* What the connection sees.
View == IF open = None THEN live ELSE open

-----------------------------------------------------------------------------
(* The programs.                                                           *)

Call(op) == [op |-> op, arg |-> "none", version |-> 0]
At(op, arg) == [op |-> op, arg |-> arg, version |-> 0]
Of(op, v) == [op |-> op, arg |-> "none", version |-> v]

\* The copy is written in a folder of its own beside the destination and takes
\* its place once it is whole.
Snapshot(to) == <<Call("reserve"), At("create", "partial"), At("fill", "partial"), At("replace", to)>>

EraseProgram ==
    <<Call("read"), Call("begin"), Call("drop"), Call("forget"), Call("preferences"), Call("commit")>>

Migration(v) == <<Call("begin"), Of("change", v), Call("parents"), Of("record", v), Call("commit")>>

\* The versions after the stored one, each in a transaction of its own, and the
\* comparison of the tables with the ones the migrations create.
Migrations == <<Call("read"), Call("fits"), Of("loop", View.version + 1), Call("verify")>>

\* A snapshot never replaces the database in use.
Export(to) == <<At("touches", to)>> \o Snapshot(to)

\* The chosen file is validated, then opened once more to be copied.
Import(to) == <<Call("validate"), Call("read")>> \o Snapshot(to)

\* Mutant of Recovery: the plugin is erased first.
RecoveryErasesFirst(to) == EraseProgram \o <<Call("folders")>> \o Export(to)

\* A recovery copies the database before it erases the plugin.
Recovery(to) == <<Call("folders")>> \o Export(to) \o EraseProgram

\* Two statements of a plugin, which mean something only together.
Transaction == <<Call("begin"), At("write", "half"), At("write", "whole"), Call("commit")>>

Program(kind, to) ==
    CASE kind = "migrate" -> Migrations
      [] kind = "transaction" -> Transaction
      [] kind = "run" -> <<At("write", "whole")>>
      [] kind = "erase" -> EraseProgram
      [] kind = "recover" -> Recovery(to)
      [] kind = "export" -> Export(to)
      [] kind = "import" -> Import(to)

Destination(kind) ==
    CASE kind = "recover" -> {"rescue"}
      [] kind = "export" -> {"chosen", "live"}
      [] kind = "import" -> {"staged"}
      [] OTHER -> {"none"}

Ops == {"read", "fits", "loop", "begin", "change", "parents", "record", "commit", "verify", "write", "drop",
        "forget", "preferences", "folders", "touches", "validate", "reserve", "create", "fill", "replace"}
Args == {"none", "half", "whole", "partial", "chosen", "live", "rescue", "staged"}
WorkCalls == [op : Ops, arg : Args, version : 0..(MaxVersion + 1)]

\* A work, what it has still to do, what it answers and what stood before it.
Jobs == [kind : Kinds, todo : Seq(WorkCalls), partial : Data \cup {None}, answer : {None, "done", "failed"},
         before : [live : Data, chosen : Data \cup {None}, staged : Contents \cup {None}]]

\* None is the absence of a work, of an answer and of data.
ASSUME NothingAssumption == None \notin Jobs \cup Data \cup {"done", "failed"}

\* A work is taken from the queue of the database thread.
Take(kind) ==
    /\ phase = "session" /\ job = None /\ works < MaxWorks
    /\ \E to \in Destination(kind) :
          job' = [kind |-> kind, todo |-> Program(kind, to), partial |-> None, answer |-> None,
                  before |-> [live |-> live, chosen |-> chosen, staged |-> main["staged"]]]
    /\ works' = works + 1
    /\ UNCHANGED <<vars, data>>

-----------------------------------------------------------------------------
(* The calls.                                                              *)

Working == phase = "session" /\ job # None /\ job.answer = None /\ job.todo # <<>>
Now == Head(job.todo)

\* The stored tables are of a later version, or not the ones the migrations create.
Newer == View.version > declared
Differs == View.tables # declared

\* What the state makes fail.
Refused(call) ==
    \/ call.op = "begin" /\ open # None
    \/ call.op = "create" /\ open # None /\ job.kind # "import"   \* VACUUM inside a transaction
    \/ call.op = "touches" /\ call.arg = "live"
    \/ call.op = "fits" /\ Newer
    \/ call.op = "write" /\ View.tables = 0
    \/ call.op = "verify" /\ Differs

\* What a plugin handed over may make fail, and what the reader did.
OfPlugin == {"change", "parents", "write", "verify"}
OfReader == {"validate"}

\* Comparisons, which no machine fails.
Sure == {"touches", "fits", "loop"}

\* The calls after this one: the loop over the migrations goes round once more.
Rest ==
    IF Now.op = "loop" /\ Now.version <= declared
    THEN Migration(Now.version) \o <<Of("loop", Now.version + 1)>> \o Tail(job.todo)
    ELSE Tail(job.todo)

\* A statement runs inside the open transaction or is committed by itself.
Sees(after) == IF open = None THEN live' = after /\ open' = open ELSE open' = after /\ live' = live

\* A copy is put at a place.  The file an import stages may be another than the
\* one that was validated; the live database keeps the log of the one it replaces.
\* What an import holds is not told apart (Holds), and neither is its copy.
Put(to, copy) ==
    /\ job' = [job EXCEPT !.todo = Tail(@), !.partial = IF to = "partial" THEN copy ELSE None]
    /\ chosen' = IF to = "chosen" THEN copy ELSE chosen
    /\ rescue' = IF to = "rescue" THEN rescue \cup {copy} ELSE rescue
    /\ CASE to = "staged" -> \E content \in {"import", "torn"} : Stage(content)
         [] to = "live" -> main' = [main EXCEPT !["file"] = "mixed"]
                           /\ UNCHANGED <<log, mark, phase, start, cuts, history>>
         [] OTHER -> UNCHANGED vars
    /\ UNCHANGED <<live, open, declared, gone, stuck, works>>

Copy ==
    /\ Working /\ ~Refused(Now)
    /\ \/ Now.op = "create" /\ Put(Now.arg, Half)
       \/ Now.op = "fill" /\ Put(Now.arg, IF job.kind = "import" THEN Blank ELSE live)
       \/ Now.op = "replace" /\ Put(Now.arg, job.partial)

Statement ==
    /\ Working /\ ~Refused(Now)
    /\ CASE Now.op = "begin" -> open' = live /\ live' = live
         [] Now.op = "commit" -> live' = open /\ open' = None
         [] Now.op = "change" -> Sees([View EXCEPT !.tables = IF @ = Strange THEN @ ELSE Now.version])
         [] Now.op = "record" -> Sees([View EXCEPT !.version = Now.version])
         [] Now.op = "write" -> Sees([View EXCEPT !.rows = Now.arg])
         [] Now.op = "drop" -> Sees([View EXCEPT !.tables = 0, !.rows = "none"])
         [] Now.op = "forget" -> Sees([View EXCEPT !.version = 0])
         [] OTHER -> Now.op \notin {"create", "fill", "replace"} /\ UNCHANGED <<live, open>>
    /\ job' = [job EXCEPT !.todo = Rest]
    /\ gone' = IF Now.op = "commit" /\ job.kind = "recover" THEN gone \cup {live} ELSE gone
    /\ UNCHANGED <<vars, declared, chosen, rescue, stuck, works>>

\* The work is done, and its answer says so.
Succeed ==
    /\ phase = "session" /\ job # None /\ job.answer = None /\ job.todo = <<>>
    /\ job' = [job EXCEPT !.answer = "done"]
    /\ UNCHANGED <<vars, data, works>>

\* Mutant of RollsBack: a COMMIT that fails is not rolled back.
RollsBackUncommitted(op) == op \in {"change", "parents", "record", "write", "drop", "forget", "preferences"}

\* The calls after a BEGIN, whose failure rolls the transaction back.
RollsBack(op) == op \in {"change", "parents", "record", "write", "drop", "forget", "preferences", "commit"}

\* The first call that fails ends the work: its transaction is rolled back, unless
\* that fails too, and what it copied so far is removed.
Break ==
    LET own == job.kind # "run" /\ RollsBack(Now.op)
    IN  /\ Working
        /\ Now.op \in Sure => Refused(Now)
        /\ \/ /\ IF Refused(Now) \/ Now.op \in OfPlugin \cup OfReader THEN UNCHANGED cuts ELSE Budget /\ Spend
              /\ open' = IF own THEN None ELSE open
              /\ UNCHANGED stuck
           \/ /\ own /\ Budget /\ Spend
              /\ stuck' = TRUE
              /\ UNCHANGED open
        /\ job' = [job EXCEPT !.answer = "failed", !.todo = <<>>, !.partial = None]
        /\ UNCHANGED <<directory, mark, phase, start, history, live, declared, chosen, rescue, gone, works>>

\* The answer goes to the main thread, and the next work may be taken.
Answer ==
    /\ job # None /\ job.answer # None
    /\ job' = None
    /\ UNCHANGED <<vars, data, works>>

-----------------------------------------------------------------------------
(* The sessions around them.                                               *)

\* What an opened database holds.  One that lost its last commits holds what it
\* held at some earlier commit, and an import what its author had.
Holds(content) ==
    CASE content = "reader" -> {live}
      [] content = "fresh" -> {Blank}
      [] OTHER -> Stored

Enter ==
    /\ Opened
    /\ live' \in Holds(main'["file"])
    /\ declared' \in 1..MaxVersion
    /\ open' = None /\ stuck' = FALSE /\ chosen' = None
    /\ UNCHANGED <<job, rescue, gone, works>>

\* The executor finishes its works before a clean stop, and what is still inside a
\* transaction is lost with the connection.
Leave ==
    /\ \/ Stop /\ job = None
       \/ Crash
    /\ open' = None /\ job' = None
    /\ UNCHANGED <<live, declared, chosen, rescue, gone, stuck, works>>

\* A start as DatabaseBootstrap has it.
Starts == Acquire /\ UNCHANGED <<data, job, works>>
GoesOn == (Do \/ ApplyStagedImport \/ Validate \/ SetAside \/ Fail) /\ UNCHANGED <<data, job, works>>
CutShort == (AcquireFails \/ CrashStarting) /\ UNCHANGED <<data, job, works>>

SessionNext ==
    \/ Starts \/ GoesOn \/ CutShort \/ Enter \/ Leave
    \/ \E kind \in Kinds : Take(kind)
    \/ Statement \/ Copy \/ Succeed \/ Break \/ Answer

SessionSpec == SessionInit /\ [][SessionNext]_sessionVars

\* The reader starts the product again, and a start goes on until it ends: one that
\* can go nowhere but fail does fail.  Nothing makes a session work or end.
FairSessionSpec ==
    /\ SessionSpec
    /\ WF_sessionVars(Starts)
    /\ WF_sessionVars(Enter \/ GoesOn)

-----------------------------------------------------------------------------
(* Properties.                                                             *)

\* Every variable has its type.  What is committed is whole: the rows of a
\* transaction together, and the version with the tables of its migration.
SessionTypeOK ==
    /\ live \in Stored
    /\ open \in Data \cup {None}
    /\ declared \in 1..MaxVersion /\ works \in 0..MaxWorks /\ stuck \in BOOLEAN
    /\ job \in Jobs \cup {None}

\* A copy that can be seen is whole, wherever the work that made it ended.
CopiesWhole == chosen \in Stored \cup {None} /\ rescue \subseteq Stored

\* What a recovery erased stands whole in a copy.
Rescued == gone \subseteq rescue

\* No work, no crash in one and no start loses data the reader did not erase.
SessionKept == DataKept /\ SessionTypeOK /\ CopiesWhole /\ Rescued

Answers(answer) == phase = "session" /\ job # None /\ job.answer = answer

\* A success is in the database, or in the file it names, unless a ROLLBACK failed.
DoneIsDone ==
    Answers("done") /\ ~stuck =>
        /\ job.kind = "migrate" => live.version = declared /\ live.tables = declared
        /\ job.kind \in {"transaction", "run"} => live.rows = "whole"
        /\ job.kind \in {"erase", "recover"} => live = Blank
        /\ job.kind = "export" => chosen = live
        /\ job.kind = "import" => main["staged"] # None

\* A failure leaves what stood before; only a migration keeps the versions it reached.
FailedIsNothing ==
    Answers("failed") =>
        /\ job.kind # "migrate" => live = job.before.live
        /\ chosen = job.before.chosen /\ main["staged"] = job.before.staged

\* Every answer is true, and no work leaves its transaction to the next.
SessionTold ==
    /\ Told
    /\ DoneIsDone
    /\ FailedIsNothing
    /\ (job = None \/ job.answer # None) => (open = None \/ stuck)
=============================================================================
