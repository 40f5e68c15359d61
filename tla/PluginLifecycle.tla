-------------------------- MODULE PluginLifecycle --------------------------
(***************************************************************************)
(* The plugins of the product and the switch that starts and stops them    *)
(* while it runs:  lua/workpane/plugins.lua, the startup and shutdown of   *)
(* lua/workpane/bootstrap.lua, and the bounded wait of Product::stop.      *)
(*                                                                         *)
(* Everything runs on one Lua thread as coroutines.  A coroutine runs      *)
(* until it awaits: turn names the one that is running between two of its  *)
(* awaits, and is Nobody while the loop of the product waits for events.   *)
(* Boot is the coroutine that starts the plugins, Closer the one that      *)
(* stops them all, and each member of Clicks is one press of a switch or   *)
(* of an erase button, whose coroutine runs inside exclusive().            *)
(***************************************************************************)
EXTENDS PluginOrder, FiniteSets

CONSTANTS
    Clicks, Boot, Closer, Nobody,
    Installed,      \* what the folder of each plugin first holds
    Authored,       \* what an author may write there later, per plugin
    OffAtStart,     \* the plugins the stored switches turn off
    Readers,        \* the plugins that read the log once they run
    Fickle,         \* the plugins whose enabled, registration or start may fail
    QuitWhileBooting, \* whether the window may be closed while it loads
    MaxEdits

Coroutines == Clicks \cup {Boot, Closer}

ASSUME LifecycleAssumption ==
    /\ Boot \notin Clicks /\ Closer \notin Clicks /\ Boot # Closer
    /\ Nobody \notin Coroutines
    /\ QuitWhileBooting \in BOOLEAN /\ MaxEdits \in Nat
    /\ OffAtStart \subseteq Plugins /\ Readers \subseteq Plugins /\ Fickle \subseteq Plugins
    /\ Installed = [p \in Plugins |-> Installed[p]] /\ Definitions(Installed)
    /\ \A p \in Plugins : \A text \in Authored[p] : Definition(text)

\* Milliseconds.
stopGrace == 3000
closingTime == 2500
handover == 20
shutdownBudget == 3000

VARIABLES
    folder,    \* what the folder of each plugin holds
    edits,     \* how often an author wrote one
    def,       \* entry.candidate: the definition read from the folder
    state,     \* entry.state
    attempt,   \* entry.attempt
    ran,       \* entry.ran
    started,   \* started, and what the registry of the host holds
    disabled,  \* disabled
    busy,      \* busy
    waiting,   \* waiting: the coroutines queued behind the change in progress
    turn,      \* the coroutine that runs now
    pc,        \* where each coroutine is
    job,       \* what each click asked
    todo,      \* the plugins each coroutine has still to visit
    cyclic,    \* resolve(): the plugins its order found in a cycle
    target,    \* the plugin each coroutine is starting or stopping
    retried,   \* start(entry, recovered): the data was already reset
    stopping,  \* the plugins whose stop function is running
    halted,    \* history: those whose stop began since they were started
    quit,      \* the product emitted workpane.shutdown
    index,     \* the index of the loop of stopAll
    share,     \* the time it gives each stop
    late,      \* a change ran or was due when the product began to close
    spent,     \* the time stopAll used, at least
    gone       \* the runtime is closed

registry == <<folder, edits, def, state, attempt, ran, started, disabled>>
change == <<busy, waiting, turn, pc, job, todo, cyclic, target, retried>>
ending == <<stopping, halted, quit, late, index, share, spent, gone>>
vars == <<folder, edits, def, state, attempt, ran, started, disabled,
          busy, waiting, turn, pc, job, todo, cyclic, target, retried,
          stopping, halted, quit, late, index, share, spent, gone>>

Running == {p \in Plugins : state[p] = "running"}
Started == {started[i] : i \in 1..Len(started)}

-----------------------------------------------------------------------------
(* plugins.boot reads every folder, installs the catalogs and resolves.  A *)
(* plugin that is off and cannot be read is only told once it is turned on.*)

Init ==
    /\ folder = Installed /\ def = Installed /\ edits = 0
    /\ state = [p \in Plugins |->
                  CASE def[p] # Unreadable -> "discovered"
                    [] def[p] = Unreadable /\ p \in OffAtStart -> "disabled"
                    [] def[p] = Unreadable /\ p \notin OffAtStart -> "refused"]
    /\ attempt = [p \in Plugins |-> TRUE]
    /\ ran = [p \in Plugins |-> FALSE]
    /\ started = <<>> /\ disabled = OffAtStart
    /\ busy = FALSE /\ waiting = <<>>
    /\ turn = Boot
    /\ pc = [c \in Coroutines |-> IF c = Boot THEN "resolving" ELSE "idle"]
    /\ job = [c \in Coroutines |-> [kind |-> "none", id |-> Nobody]]
    /\ todo = [c \in Coroutines |-> IF c = Boot THEN Ordered(def).order ELSE <<>>]
    /\ cyclic = Ordered(def).cyclic
    /\ target = [c \in Coroutines |-> Nobody]
    /\ retried = [c \in Coroutines |-> FALSE]
    /\ stopping = {} /\ halted = {}
    /\ quit = FALSE /\ late = FALSE /\ index = 0 /\ share = 0 /\ spent = 0 /\ gone = FALSE

Booted == pc[Boot] = "done"

\* What a coroutine does between the end of stopAll and the call that tells the
\* product, within one turn of the loop, is not followed.
Over == gone \/ pc[Closer] = "done"

\* The loop of the product has no coroutine to resume first.
Idle == turn = Nobody /\ ~Over
RunsAt(c, where) == turn = c /\ pc[c] = where /\ ~gone
ResumesAt(c, where) == turn = Nobody /\ pc[c] = where /\ ~Over

-----------------------------------------------------------------------------
(* exclusive(): one change at a time.                                      *)

\* Mutant of Enter: a released coroutine does not look at busy again.
EnterAtOnce(c) ==
    IF busy /\ pc[c] # "woken"
    THEN /\ waiting' = Append(waiting, c)
         /\ pc' = [pc EXCEPT ![c] = "queued"]
         /\ UNCHANGED <<busy, turn>>
    ELSE /\ busy' = TRUE
         /\ pc' = [pc EXCEPT ![c] = "begin"]
         /\ turn' = c
         /\ UNCHANGED waiting

Enter(c) ==
    IF busy
    THEN /\ waiting' = Append(waiting, c)
         /\ pc' = [pc EXCEPT ![c] = "queued"]
         /\ UNCHANGED <<busy, turn>>
    ELSE /\ busy' = TRUE
         /\ pc' = [pc EXCEPT ![c] = "begin"]
         /\ turn' = c
         /\ UNCHANGED waiting

\* Mutant of Leave: the change ends without releasing the next one.
LeaveForgets(c) ==
    /\ busy' = FALSE
    /\ waiting' = waiting
    /\ pc' = [pc EXCEPT ![c] = "done"]
    /\ turn' = Nobody

\* The end of a change: the next coroutine is released, which resumes once the
\* runtime comes to it and looks at busy again.
Leave(c) ==
    /\ busy' = FALSE
    /\ turn' = Nobody
    /\ IF waiting = <<>>
       THEN /\ pc' = [pc EXCEPT ![c] = "done"]
            /\ UNCHANGED waiting
       ELSE /\ pc' = [pc EXCEPT ![c] = "done", ![Head(waiting)] = "woken"]
            /\ waiting' = Tail(waiting)

\* A press of the reader, which only a window that loaded hands to Lua and only
\* before the product starts to close.
Press(c, kind, p) ==
    /\ Idle /\ Booted /\ ~quit
    /\ c \in Clicks /\ pc[c] = "idle"
    /\ job' = [job EXCEPT ![c] = [kind |-> kind, id |-> p]]
    /\ Enter(c)
    /\ UNCHANGED <<registry, todo, cyclic, target, retried, ending>>

Wake(c) ==
    /\ ResumesAt(c, "woken")
    /\ Enter(c)
    /\ late' = (late \/ (c = Closer /\ busy))
    /\ UNCHANGED <<registry, job, todo, cyclic, target, retried, stopping, halted, quit, index, share, spent, gone>>

\* The product closes.  A window that never finished loading asks nothing first.
Quit ==
    /\ Idle /\ ~quit
    /\ Booted \/ QuitWhileBooting
    /\ quit' = TRUE
    /\ late' = (busy \/ \E c \in Clicks : pc[c] = "woken")
    /\ Enter(Closer)
    /\ UNCHANGED <<registry, job, todo, cyclic, target, retried, stopping, halted, index, share, spent, gone>>

\* An author writes the folder of a plugin.
Edit(p, text) ==
    /\ Idle /\ edits < MaxEdits
    /\ folder' = [folder EXCEPT ![p] = text]
    /\ edits' = edits + 1
    /\ UNCHANGED <<def, state, attempt, ran, started, disabled, change, ending>>

-----------------------------------------------------------------------------
(* resolve(): one pass over the ordered plugins.                           *)

Resolve(c, defs) ==
    /\ todo' = [todo EXCEPT ![c] = Ordered(defs).order]
    /\ cyclic' = Ordered(defs).cyclic

\* The pass is over: the boot is done, or the change leaves exclusive().
Resolved(c) ==
    /\ RunsAt(c, "resolving") /\ todo[c] = <<>>
    /\ IF c = Boot
       THEN /\ pc' = [pc EXCEPT ![c] = "done"]
            /\ turn' = Nobody
            /\ UNCHANGED <<busy, waiting>>
       ELSE Leave(c)
    /\ UNCHANGED <<registry, job, todo, cyclic, target, retried, ending>>

Visit(c) == todo' = [todo EXCEPT ![c] = Tail(@)] /\ UNCHANGED cyclic

\* What keeps a plugin from being started by this pass.
Passes(p) == state[p] = "running" \/ (p \notin disabled /\ ~attempt[p])

Pass(c) ==
    /\ RunsAt(c, "resolving") /\ todo[c] # <<>>
    /\ Passes(Head(todo[c]))
    /\ Visit(c)
    /\ UNCHANGED <<registry, busy, waiting, turn, pc, job, target, retried, ending>>

TurnedOff(c) ==
    /\ RunsAt(c, "resolving") /\ todo[c] # <<>>
    /\ LET p == Head(todo[c])
       IN  /\ state[p] # "running" /\ p \in disabled
           /\ state' = [state EXCEPT ![p] = "disabled"]
    /\ Visit(c)
    /\ UNCHANGED <<folder, edits, def, attempt, ran, started, disabled,
                   busy, waiting, turn, pc, job, target, retried, ending>>

\* A candidate plugin of the pass, one that is on, does not run and may try.
Candidate(p) == state[p] # "running" /\ p \notin disabled /\ attempt[p]

\* refuse() ends the attempts of a plugin.
Refused(p) ==
    /\ state' = [state EXCEPT ![p] = "refused"]
    /\ attempt' = [attempt EXCEPT ![p] = FALSE]

Refuse(c) ==
    /\ RunsAt(c, "resolving") /\ todo[c] # <<>>
    /\ LET p == Head(todo[c])
       IN  /\ Candidate(p)
           /\ p \in cyclic \/ Blocking(def[p], Running) = "missing"
           /\ Refused(p)
    /\ Visit(c)
    /\ UNCHANGED <<folder, edits, def, ran, started, disabled,
                   busy, waiting, turn, pc, job, target, retried, ending>>

Wait(c) ==
    /\ RunsAt(c, "resolving") /\ todo[c] # <<>>
    /\ LET p == Head(todo[c])
       IN  /\ Candidate(p) /\ p \notin cyclic
           /\ Blocking(def[p], Running) = "inactive"
           /\ state' = [state EXCEPT ![p] = "waiting"]
    /\ Visit(c)
    /\ UNCHANGED <<folder, edits, def, attempt, ran, started, disabled,
                   busy, waiting, turn, pc, job, target, retried, ending>>

-----------------------------------------------------------------------------
(* start().  Reading the folder again, asking enabled() and registering    *)
(* happen at once; then the migrations and the start function are awaited. *)

Reread(p) ==
    /\ def' = [def EXCEPT ![p] = folder[p]]
    /\ ran' = [ran EXCEPT ![p] = FALSE]

\* The code cannot be read any more.
StartUnreadable(c, p) ==
    /\ ran[p] /\ folder[p] = Unreadable
    /\ Reread(p)
    /\ Refused(p)
    /\ pc' = [pc EXCEPT ![c] = "resolving"] /\ turn' = c
    /\ UNCHANGED <<started, target, retried, halted>>

\* Its enabled function answers false.
StartUnavailable(c, p) ==
    /\ p \in Fickle
    /\ IF ran[p] THEN folder[p] # Unreadable /\ Reread(p) ELSE UNCHANGED <<def, ran>>
    /\ state' = [state EXCEPT ![p] = "unavailable"]
    /\ attempt' = [attempt EXCEPT ![p] = FALSE]
    /\ pc' = [pc EXCEPT ![c] = "resolving"] /\ turn' = c
    /\ UNCHANGED <<started, target, retried, halted>>

\* enabled fails or the registry refuses the manifest, which it always does for
\* a plugin it still holds.
StartRefused(c, p) ==
    /\ p \in Fickle \cup Started
    /\ IF ran[p] THEN folder[p] # Unreadable /\ Reread(p) ELSE UNCHANGED <<def, ran>>
    /\ Refused(p)
    /\ pc' = [pc EXCEPT ![c] = "resolving"] /\ turn' = c
    /\ UNCHANGED <<started, target, retried, halted>>

\* The host holds its manifest, so it may act: its start runs.
StartRegistered(c, p, again) ==
    /\ p \notin Started
    /\ IF ran[p] THEN folder[p] # Unreadable /\ def' = [def EXCEPT ![p] = folder[p]]
                 ELSE UNCHANGED def
    /\ ran' = [ran EXCEPT ![p] = TRUE]
    /\ state' = [state EXCEPT ![p] = "starting"]
    /\ started' = Append(started, p)
    /\ halted' = halted \ {p}
    /\ target' = [target EXCEPT ![c] = p]
    /\ retried' = [retried EXCEPT ![c] = again]
    /\ pc' = [pc EXCEPT ![c] = "launching"] /\ turn' = Nobody
    /\ UNCHANGED attempt

StartOf(c, p, again) ==
    \/ StartUnreadable(c, p)
    \/ StartUnavailable(c, p)
    \/ StartRefused(c, p)
    \/ StartRegistered(c, p, again)

Start(c) ==
    /\ RunsAt(c, "resolving") /\ todo[c] # <<>>
    /\ LET p == Head(todo[c])
       IN  /\ Candidate(p) /\ p \notin cyclic
           /\ Blocking(def[p], Running) = "none"
           /\ StartOf(c, p, FALSE)
    /\ Visit(c)
    /\ UNCHANGED <<folder, edits, disabled, busy, waiting, job, stopping, quit, late, index, share, spent, gone>>

\* Mutant of Withdrawn: the plugin leaves the registry and not the list.
WithdrawnPartly(p) ==
    /\ started' = started
    /\ stopping' = stopping \ {p}

\* withdraw(): everything the plugin registered goes, the coroutine of its stop
\* is forgotten with its other tasks, and it leaves the registry and started.
Withdrawn(p) ==
    /\ started' = Among(started, Plugins \ {p})
    /\ stopping' = stopping \ {p}

Launched(c) ==
    /\ ResumesAt(c, "launching")
    /\ state' = [state EXCEPT ![target[c]] = "running"]
    /\ pc' = [pc EXCEPT ![c] = "resolving"] /\ turn' = c
    /\ UNCHANGED <<folder, edits, def, attempt, ran, started, disabled,
                   busy, waiting, job, todo, cyclic, target, retried, ending>>

\* A migration or the start failed, for a reason a reset of the data cannot
\* mend or after one: the plugin is withdrawn and refused.
LaunchFails(c) ==
    /\ ResumesAt(c, "launching") /\ target[c] \in Fickle
    /\ Withdrawn(target[c])
    /\ Refused(target[c])
    /\ pc' = [pc EXCEPT ![c] = "resolving"] /\ turn' = c
    /\ UNCHANGED <<folder, edits, def, ran, disabled, busy, waiting, job, todo, cyclic, target, retried,
                   halted, quit, late, index, share, spent, gone>>

\* The stored data does not fit the code, once: it is withdrawn, and its data is
\* backed up and reset.
LaunchMisfits(c) ==
    /\ ResumesAt(c, "launching") /\ target[c] \in Fickle /\ ~retried[c]
    /\ Withdrawn(target[c])
    /\ pc' = [pc EXCEPT ![c] = "recovering"]
    /\ UNCHANGED <<folder, edits, def, state, attempt, ran, disabled,
                   busy, waiting, turn, job, todo, cyclic, target, retried,
                   halted, quit, late, index, share, spent, gone>>

Recovered(c) ==
    /\ ResumesAt(c, "recovering")
    /\ StartOf(c, target[c], TRUE)
    /\ UNCHANGED <<folder, edits, disabled, busy, waiting, job, todo, cyclic, stopping, quit, late, index, share, spent, gone>>

RecoveryFails(c) ==
    /\ ResumesAt(c, "recovering")
    /\ Refused(target[c])
    /\ pc' = [pc EXCEPT ![c] = "resolving"] /\ turn' = c
    /\ UNCHANGED <<folder, edits, def, ran, started, disabled, busy, waiting, job, todo, cyclic, target, retried, ending>>

-----------------------------------------------------------------------------
(* plugins.disable.                                                        *)

\* dependents(): found in one pass over started, since a dependency always
\* starts first, and stopped from the last started to the first.
Dependents(p) ==
    LET found == FoldLeft(LAMBDA f, q : IF Needs(def[q]) \cap f # {} THEN f \cup {q} ELSE f,
                          {p}, started)
    IN  Reverse(Among(started, found \ {p}))

Begins(c, kind) == RunsAt(c, "begin") /\ job[c].kind = kind

BeginDisable(c) ==
    /\ Begins(c, "disable")
    /\ LET p == job[c].id
       IN  /\ disabled' = disabled \cup {p}
           /\ state' = [state EXCEPT ![p] = IF @ = "running" THEN "stopping" ELSE @]
           /\ todo' = [todo EXCEPT ![c] = Dependents(p)] /\ UNCHANGED cyclic
    /\ pc' = [pc EXCEPT ![c] = "disabling"]
    /\ UNCHANGED <<folder, edits, def, attempt, ran, started,
                   busy, waiting, turn, job, target, retried, ending>>

\* stop(): the stop function runs as a task of the plugin, and the change waits
\* until it returns or its grace is over.
Stop(c, p, where) ==
    /\ state' = [state EXCEPT ![p] = "stopping"]
    /\ stopping' = stopping \cup {p}
    /\ halted' = halted \cup {p}
    /\ target' = [target EXCEPT ![c] = p]
    /\ pc' = [pc EXCEPT ![c] = where] /\ turn' = Nobody

\* Mutant of StopDependent: the dependents stop in the order they started.
StopDependentForward(c) ==
    /\ RunsAt(c, "disabling") /\ todo[c] # <<>>
    /\ Stop(c, Last(todo[c]), "halting")
    /\ todo' = [todo EXCEPT ![c] = Front(@)] /\ UNCHANGED cyclic
    /\ UNCHANGED <<folder, edits, def, attempt, ran, started, disabled,
                   busy, waiting, job, retried, quit, late, index, share, spent, gone>>

StopDependent(c) ==
    /\ RunsAt(c, "disabling") /\ todo[c] # <<>>
    /\ Stop(c, Head(todo[c]), "halting")
    /\ Visit(c)
    /\ UNCHANGED <<folder, edits, def, attempt, ran, started, disabled,
                   busy, waiting, job, retried, quit, late, index, share, spent, gone>>

StopItself(c) ==
    /\ RunsAt(c, "disabling") /\ todo[c] = <<>>
    /\ state[job[c].id] = "stopping"
    /\ Stop(c, job[c].id, "halting")
    /\ UNCHANGED <<folder, edits, def, attempt, ran, started, disabled, todo, cyclic,
                   busy, waiting, job, retried, quit, late, index, share, spent, gone>>

\* The stop returned or its grace passed: the plugin is withdrawn.
Halt(c) ==
    /\ ResumesAt(c, "halting")
    /\ Withdrawn(target[c])
    /\ state' = [state EXCEPT ![target[c]] = IF target[c] = job[c].id THEN "disabled" ELSE "waiting"]
    /\ pc' = [pc EXCEPT ![c] = "disabling"] /\ turn' = c
    /\ UNCHANGED <<folder, edits, def, attempt, ran, disabled,
                   busy, waiting, job, todo, cyclic, target, retried, halted, quit, late, index, share, spent, gone>>

Disabled(c) ==
    /\ RunsAt(c, "disabling") /\ todo[c] = <<>>
    /\ state[job[c].id] # "stopping"
    /\ state' = [state EXCEPT ![job[c].id] = "disabled"]
    /\ Resolve(c, def)
    /\ pc' = [pc EXCEPT ![c] = "resolving"]
    /\ UNCHANGED <<folder, edits, def, attempt, ran, started, disabled,
                   busy, waiting, turn, job, target, retried, ending>>

-----------------------------------------------------------------------------
(* plugins.enable and plugins.erase.                                       *)

\* Neither does anything to a plugin that runs.
BeginNothing(c) ==
    /\ Begins(c, "enable") \/ Begins(c, "erase")
    /\ state[job[c].id] = "running"
    /\ Leave(c)
    /\ UNCHANGED <<registry, job, todo, cyclic, target, retried, ending>>

\* The folder is read again, and every plugin that may start is started.
BeginEnable(c) ==
    /\ Begins(c, "enable")
    /\ LET p == job[c].id
           read == folder[p] # Unreadable
       IN  /\ state[p] # "running"
           /\ disabled' = disabled \ {p}
           /\ Reread(p)
           /\ attempt' = [attempt EXCEPT ![p] = read]
           /\ state' = [state EXCEPT ![p] = IF read THEN "waiting" ELSE "refused"]
    /\ Resolve(c, def')
    /\ pc' = [pc EXCEPT ![c] = "resolving"]
    /\ UNCHANGED <<folder, edits, started, busy, waiting, turn, job, target, retried, ending>>

BeginErase(c) ==
    /\ Begins(c, "erase")
    /\ state[job[c].id] # "running"
    /\ pc' = [pc EXCEPT ![c] = "erasing"] /\ turn' = Nobody
    /\ UNCHANGED <<registry, busy, waiting, job, todo, cyclic, target, retried, ending>>

\* The data is gone, so an enabled plugin is read and started again.
Erased(c) ==
    /\ ResumesAt(c, "erasing")
    /\ LET p == job[c].id
           read == folder[p] # Unreadable
       IN  /\ p \notin disabled /\ p \notin Started
           /\ Reread(p)
           /\ attempt' = [attempt EXCEPT ![p] = TRUE]
           /\ state' = [state EXCEPT ![p] = IF read THEN @ ELSE "refused"]
    /\ Resolve(c, def')
    /\ pc' = [pc EXCEPT ![c] = "resolving"] /\ turn' = c
    /\ UNCHANGED <<folder, edits, started, disabled, busy, waiting, job, target, retried, ending>>

\* The storage failed, or the plugin is off and stays as it is.
ErasedOnly(c) ==
    /\ ResumesAt(c, "erasing")
    /\ Leave(c)
    /\ UNCHANGED <<registry, job, todo, cyclic, target, retried, ending>>

-----------------------------------------------------------------------------
(* plugins.stopAll and the end of the product.                             *)

\* Mutant of Share: every stop may take the grace of a switch.
ShareWhole == stopGrace

\* What one stop may take of the time the product gives its closing.
Share ==
    LET n == IF started = <<>> THEN 1 ELSE Len(started)
    IN  IF closingTime \div n < stopGrace THEN closingTime \div n ELSE stopGrace

\* Mutant of BeginClose: the loop begins past the end of the list.
BeginClosePast ==
    /\ RunsAt(Closer, "begin")
    /\ index' = Len(started) + 1 /\ share' = Share
    /\ pc' = [pc EXCEPT ![Closer] = "closing"]
    /\ UNCHANGED <<registry, busy, waiting, turn, job, todo, cyclic, target, retried,
                   stopping, halted, quit, late, spent, gone>>

\* The list is read again at every index of the loop.
BeginClose ==
    /\ RunsAt(Closer, "begin")
    /\ index' = Len(started) /\ share' = Share
    /\ pc' = [pc EXCEPT ![Closer] = "closing"]
    /\ UNCHANGED <<registry, busy, waiting, turn, job, todo, cyclic, target, retried,
                   stopping, halted, quit, late, spent, gone>>

\* A plugin that reads the log is left for later.
CloseReaderLater ==
    /\ RunsAt(Closer, "closing") /\ index \in 1..Len(started)
    /\ started[index] \in Readers
    /\ todo' = [todo EXCEPT ![Closer] = Append(@, started[index])] /\ UNCHANGED cyclic
    /\ index' = index - 1
    /\ UNCHANGED <<registry, busy, waiting, turn, pc, job, target, retried,
                   stopping, halted, quit, late, share, spent, gone>>

CloseNext ==
    /\ RunsAt(Closer, "closing") /\ index \in 1..Len(started)
    /\ started[index] \notin Readers
    /\ Stop(Closer, started[index], "settling")
    /\ index' = index - 1
    /\ UNCHANGED <<folder, edits, def, attempt, ran, started, disabled,
                   busy, waiting, job, todo, cyclic, retried, quit, late, share, spent, gone>>

\* The logs written by the stops are handed to the readers before they stop.
CloseHands ==
    /\ RunsAt(Closer, "closing") /\ index = 0
    /\ pc' = [pc EXCEPT ![Closer] = "handing"] /\ turn' = Nobody
    /\ UNCHANGED <<registry, busy, waiting, job, todo, cyclic, target, retried, ending>>

Handed ==
    /\ ResumesAt(Closer, "handing")
    /\ spent' = spent + handover
    /\ pc' = [pc EXCEPT ![Closer] = "closing readers"] /\ turn' = Closer
    /\ UNCHANGED <<registry, busy, waiting, job, todo, cyclic, target, retried,
                   stopping, halted, quit, late, index, share, gone>>

CloseReader ==
    /\ RunsAt(Closer, "closing readers") /\ todo[Closer] # <<>>
    /\ Stop(Closer, Head(todo[Closer]), "settling reader")
    /\ Visit(Closer)
    /\ UNCHANGED <<folder, edits, def, attempt, ran, started, disabled,
                   busy, waiting, job, retried, quit, late, index, share, spent, gone>>

\* A stop of the closing returned in no time, or used its whole share, and
\* then its coroutine runs on.
Settle ==
    /\ pc[Closer] \in {"settling", "settling reader"} /\ Idle
    /\ pc' = [pc EXCEPT ![Closer] = IF @ = "settling" THEN "closing" ELSE "closing readers"]
    /\ turn' = Closer
    /\ \/ /\ stopping' = stopping \ {target[Closer]} /\ spent' = spent
       \/ /\ stopping' = stopping /\ spent' = spent + share
    /\ UNCHANGED <<registry, busy, waiting, job, todo, cyclic, target, retried,
                   halted, quit, late, index, share, gone>>

Closed ==
    /\ RunsAt(Closer, "closing readers") /\ todo[Closer] = <<>>
    /\ Leave(Closer)
    /\ UNCHANGED <<registry, job, todo, cyclic, target, retried, ending>>

\* A stop function the closing no longer waits for returns.
StopReturns(p) ==
    /\ Idle /\ p \in stopping
    /\ pc[Closer] \notin {"settling", "settling reader"} \/ target[Closer] # p
    /\ \A c \in Clicks : pc[c] # "halting" \/ target[c] # p
    /\ stopping' = stopping \ {p}
    /\ UNCHANGED <<registry, change, halted, quit, late, index, share, spent, gone>>

\* workpane_stopped ends the wait of Product::stop, and the bridge closes.
Stopped ==
    /\ pc[Closer] = "done" /\ turn = Nobody /\ ~gone
    /\ gone' = TRUE
    /\ UNCHANGED <<registry, change, stopping, halted, quit, late, index, share, spent>>

\* Mutant of OutOfTime: the product waits for its plugins without a deadline.
OutOfTimeNever ==
    /\ gone /\ ~gone
    /\ UNCHANGED vars

\* The wait of Product::stop is over its budget: either the stops used it, or
\* stopAll began late, so that how long it waited is not known.
OutOfTime ==
    /\ quit /\ Idle
    /\ \/ late \/ spent >= shutdownBudget
       \/ pc[Closer] \in {"queued", "woken"}
    /\ gone' = TRUE
    /\ UNCHANGED <<registry, change, stopping, halted, quit, late, index, share, spent>>

-----------------------------------------------------------------------------
Kinds == {"enable", "disable", "erase"}

\* The steps a coroutine takes by itself; what it awaits here always answers.
Step(c) ==
    \/ Wake(c)
    \/ Resolved(c) \/ Pass(c) \/ TurnedOff(c) \/ Refuse(c) \/ Wait(c) \/ Start(c)
    \/ Recovered(c) \/ RecoveryFails(c)
    \/ BeginDisable(c) \/ StopDependent(c) \/ StopItself(c) \/ Halt(c) \/ Disabled(c)
    \/ BeginNothing(c) \/ BeginEnable(c) \/ BeginErase(c) \/ Erased(c) \/ ErasedOnly(c)

\* The start function of a plugin ends; nothing in the product makes it.
Launch(c) == Launched(c) \/ LaunchFails(c) \/ LaunchMisfits(c)

Closing ==
    \/ BeginClose \/ CloseReaderLater \/ CloseNext \/ CloseHands
    \/ Handed \/ CloseReader \/ Settle \/ Closed \/ Stopped \/ OutOfTime

Next ==
    \/ \E c \in Clicks, kind \in Kinds, p \in Plugins : Press(c, kind, p)
    \/ \E c \in Coroutines : Step(c) \/ Launch(c)
    \/ Quit
    \/ \E p \in Plugins : \E text \in Authored[p] : Edit(p, text)
    \/ Closing
    \/ \E p \in Plugins : StopReturns(p)

\* The runtime resumes every coroutine whose await was answered, and the
\* database, the timers and the clock of Product::stop answer theirs.
Fairness == /\ \A c \in Coroutines : WF_vars(Step(c))
            /\ WF_vars(Closing)

Spec == Init /\ [][Next]_vars
FairSpec == Spec /\ Fairness

-----------------------------------------------------------------------------
(* Properties.                                                             *)

States == {"discovered", "refused", "disabled", "unavailable", "starting",
           "running", "waiting", "stopping"}

TypeOK ==
    /\ state \in [Plugins -> States]
    /\ attempt \in [Plugins -> BOOLEAN] /\ ran \in [Plugins -> BOOLEAN]
    /\ Started \subseteq Plugins /\ disabled \subseteq Plugins
    /\ busy \in BOOLEAN
    /\ {waiting[i] : i \in 1..Len(waiting)} \subseteq Clicks \cup {Closer}
    /\ turn \in Coroutines \cup {Nobody}
    /\ stopping \subseteq Plugins /\ halted \subseteq Plugins

\* Where a coroutine holds the switch of exclusive().
Outside == {"idle", "queued", "woken", "done"}
Inside(c) == pc[c] \notin Outside
Changing == \E c \in Coroutines : Inside(c)

\* "One change of the plugins runs at a time": two presses, or a press and the
\* closing, never meet half way.
OneChange == \A c, d \in Clicks \cup {Closer} : Inside(c) /\ Inside(d) => c = d

\* A coroutine that waits for its turn is always released: the change it waits
\* for runs, or one that was released has still to look.
QueueServed ==
    waiting # <<>> => busy \/ \E c \in Coroutines : pc[c] = "woken"

\* docs/plugins.md: "Closing the product waits for the change in progress before
\* the plugins stop, so no stop runs twice or beside a start."
NoStopBesideStart ==
    \A c \in Coroutines : pc[c] = "launching" => target[c] \notin stopping

\* One change at a time, from the first press to the closing, and each gets its turn.
Exclusive == TypeOK /\ OneChange /\ QueueServed /\ NoStopBesideStart

\* docs/plugins.md: dependencies are "plugins that must run before this one", and
\* a dependency outlives every plugin that relies on it: whatever a registered
\* plugin depends on was registered before it and is past its start.
DependenciesUp ==
    \A i \in 1..Len(started) : \A d \in Needs(def[started[i]]) :
        /\ \E j \in 1..i - 1 : started[j] = d
        /\ state[d] \in {"running", "stopping"}

\* The stop of a plugin begins only once the stop of every plugin that relies
\* on it began before and was given its time.
DependentsStopFirst ==
    \A p \in halted : \A q \in Started :
        p \in Needs(def[q]) => q \in halted

\* Dependencies are there from before the start of a plugin to after its stop.
DependenciesHold == DependenciesUp /\ DependentsStopFirst

\* Between two changes nothing is half way, no plugin waits whose dependencies
\* all run, and none runs that the reader turned off.
Settled ==
    Booted /\ ~Changing /\ ~quit =>
        \A p \in Plugins :
            /\ state[p] \notin {"discovered", "starting", "stopping"}
            /\ state[p] = "running" <=> p \in Started
            /\ state[p] = "running" => p \notin disabled
            /\ p \in disabled <=> state[p] = "disabled"
            /\ state[p] = "waiting" => Blocking(def[p], Running) = "inactive"

\* "Each stop runs for at most its share of the time the product gives its
\* closing": when the closing does not have to wait for a change, every plugin
\* that was started has begun its stop before the bridge closes.
EveryStopBegins == gone /\ ~late => Started \subseteq halted

\* The loop of stopAll reads the list of the started plugins at each index, across
\* its waits: it never reads past an end a failed start moved meanwhile.
CloseInRange == pc[Closer] = "closing" => index <= Len(started)

\* The product closes whatever its plugins do.
ClosingEnds == quit ~> gone

\* Every press gets its turn and ends, unless a start function never returns.
PressesEnd ==
    []<>(\A c \in Coroutines : pc[c] # "launching") =>
        \A c \in Clicks : pc[c] = "queued" ~> (pc[c] = "done" \/ gone)
=============================================================================
