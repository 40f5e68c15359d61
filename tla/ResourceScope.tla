--------------------------- MODULE ResourceScope ---------------------------
(***************************************************************************)
(* A scope of resources of a plugin:  lua/workpane/resources.lua over the  *)
(* requests and owned coroutines of bridge.lua and the withdrawal of       *)
(* task.lua and plugins.lua.                                               *)
(*                                                                         *)
(* A plugin admits operations to the scope.  An opener asks the host for a *)
(* resource and owns what the host opened, a reader waits on the resource  *)
(* of an opener until that resource is closed.  The plugin may release a   *)
(* resource, close the scope, and be withdrawn, while any of it is under   *)
(* way: an opening that was accepted goes on, and releases what it gets.   *)
(***************************************************************************)
EXTENDS Integers, FiniteSets

CONSTANTS
    Openers,   \* the operations of acquire(), each with the resource it opens
    Readers,   \* the operations of run()
    On,        \* the resource each reader waits on
    Calls,     \* the requests the plugin makes beside the scope
    Limit      \* the operations, and the resources, a scope admits

ASSUME ScopeAssumption ==
    /\ IsFiniteSet(Openers) /\ IsFiniteSet(Readers) /\ Openers \cap (Readers \cup Calls) = {}
    /\ On \in [Readers -> Openers]
    /\ Limit \in Nat \ {0}

Operations == Openers \cup Readers
Requests == Openers \cup Calls

VARIABLES
    \* The state of the scope.
    op,        \* how far each operation is
    count, acquired,
    entries,   \* the resources the scope owns
    closing,   \* the closing of each: "none", "called", "ended" or "failed"
    scope,     \* "open", then "closing", "waiting" and "closed" as close() goes on
    awaited,   \* the closings close() awaits
    failed,    \* whether close() met a failure, or state.failure holds one
    answer,    \* what close() answered
    \* The bridge and the host.
    requests,  \* the owner of each request that is pending, as bridge.lua keeps it
    native,    \* what the host made of each request
    replies,   \* the requests whose reply is on its way to Lua
    plugin     \* "running" or "withdrawn"

state == <<op, count, acquired, entries, closing, scope, awaited, failed, answer>>
bridge == <<requests, native, replies>>
vars == <<state, bridge, plugin>>

Init ==
    /\ op = [o \in Operations |-> "none"] /\ count = 0 /\ acquired = 0
    /\ entries = {} /\ closing = [o \in Openers |-> "none"]
    /\ scope = "open" /\ awaited = {} /\ failed = FALSE /\ answer = "none"
    /\ requests = [o \in Requests |-> "none"] /\ native = [o \in Requests |-> "none"]
    /\ replies = {} /\ plugin = "running"

Active == {"admitted", "waiting", "returning"}

\* state.pending.
Pending == {o \in Operations : op[o] \in Active}

-----------------------------------------------------------------------------
(* Admission, and what an operation does.                                  *)

\* run() and acquire() count an operation, or refuse it.
Admit(o) ==
    /\ plugin = "running" /\ op[o] = "none"
    /\ scope = "open" /\ count < Limit
    /\ o \in Openers => acquired < Limit
    /\ op' = [op EXCEPT ![o] = "admitted"]
    /\ count' = count + 1
    /\ acquired' = IF o \in Openers THEN acquired + 1 ELSE acquired
    /\ UNCHANGED <<entries, closing, scope, awaited, failed, answer, bridge, plugin>>

Finish(o) == op' = [op EXCEPT ![o] = "done"] /\ count' = count - 1

\* Mutant of RequestOwner: a request belongs to the plugin whose code makes it.
RequestOwnerPlugin(o) == "plugin"

\* The owner bridge.request notes: the coroutine of an operation is owned by its
\* scope, so its request is not the plugin's to cancel.
RequestOwner(o) == IF o \in Openers THEN "scope" ELSE "plugin"

\* bridge.request: the host accepts the request, or refuses it at once.
Request(o) ==
    \/ /\ requests' = [requests EXCEPT ![o] = RequestOwner(o)]
       /\ native' = [native EXCEPT ![o] = "asked"]
    \/ /\ native' = [native EXCEPT ![o] = "refused"]
       /\ UNCHANGED requests

\* The coroutine of the operation starts, and an opener makes its request.
Begin(o) ==
    /\ op[o] = "admitted"
    /\ op' = [op EXCEPT ![o] = "waiting"]
    /\ IF o \in Openers THEN Request(o) ELSE UNCHANGED <<requests, native>>
    /\ UNCHANGED <<count, acquired, entries, closing, scope, awaited, failed, answer, replies, plugin>>

\* The plugin asks the host for something of its own.
Call(o) ==
    /\ plugin = "running" /\ native[o] = "none"
    /\ Request(o)
    /\ UNCHANGED <<state, replies, plugin>>

\* The host did what it was asked or could not, and replies.
HostAnswers(o, outcome) ==
    /\ native[o] = "asked"
    /\ native' = [native EXCEPT ![o] = outcome]
    /\ replies' = replies \cup {o}
    /\ UNCHANGED <<state, requests, plugin>>

\* Mutant of Abandon: only a closing gives a place back.
AbandonKept(o) ==
    /\ Finish(o)
    /\ UNCHANGED <<acquired, entries, closing>>

\* The opening failed, or answered nothing new: its place is given back.
Abandon(o) ==
    /\ Finish(o)
    /\ acquired' = acquired - 1
    /\ UNCHANGED <<entries, closing>>

\* The resource becomes an entry of the scope.
Own(o) ==
    /\ entries' = entries \cup {o}
    /\ Finish(o)
    /\ UNCHANGED <<acquired, closing>>

\* The scope closes by now: the resource is closed at once, and the operation
\* waits for that.
OwnLate(o) ==
    /\ entries' = entries \cup {o}
    /\ closing' = [closing EXCEPT ![o] = "called"]
    /\ op' = [op EXCEPT ![o] = "returning"]
    /\ UNCHANGED <<count, acquired>>

\* The opener whose request was settled goes on.
Opened(o) ==
    \/ native[o] = "refused" /\ Abandon(o)
    \/ native[o] = "open" /\ scope = "open" /\ Own(o)
    \/ native[o] = "open" /\ scope # "open" /\ OwnLate(o)

\* A reply settles its request; one that no request waits for is dropped.
Reply(o) ==
    /\ o \in replies
    /\ replies' = replies \ {o}
    /\ requests' = [requests EXCEPT ![o] = "none"]
    /\ IF o \in Openers /\ requests[o] # "none"
       THEN Opened(o)
       ELSE UNCHANGED <<op, count, acquired, entries, closing>>
    /\ UNCHANGED <<scope, awaited, failed, answer, native, plugin>>

\* A reader ends when its resource is closed under it; data may come before.
ReadEnds(o) ==
    /\ o \in Readers /\ op[o] = "waiting"
    /\ Finish(o)
    /\ UNCHANGED <<acquired, entries, closing, scope, awaited, failed, answer, bridge, plugin>>

Cut(o) == op[o] = "waiting" /\ (On[o] \in entries => closing[On[o]] # "none")

-----------------------------------------------------------------------------
(* Releasing and closing.                                                  *)

\* release(): the first call closes the resource, another joins it.
Release(o) ==
    /\ plugin = "running" /\ o \in entries /\ closing[o] = "none"
    /\ closing' = [closing EXCEPT ![o] = "called"]
    /\ UNCHANGED <<op, count, acquired, entries, scope, awaited, failed, answer, bridge, plugin>>

\* What the scope owns once the closing of a resource came out.
Closed(o, outcome) == entries \ {o}

\* The closing function of a resource answered: the entry goes, whatever came
\* out, and a failure is kept for close().
CloseEnds(o, outcome) ==
    /\ closing[o] = "called"
    /\ closing' = [closing EXCEPT ![o] = outcome]
    /\ entries' = Closed(o, outcome)
    /\ acquired' = acquired - 1
    /\ failed' = (failed \/ outcome = "failed")
    /\ IF op[o] = "returning" THEN Finish(o) ELSE UNCHANGED <<op, count>>
    /\ UNCHANGED <<scope, awaited, answer, bridge, plugin>>

\* Mutant of Close: what an operation still waits on is left to it.
CloseIdle ==
    /\ scope' = IF scope = "open" THEN "closing" ELSE scope
    /\ awaited' = IF scope = "open" THEN entries ELSE awaited
    /\ closing' = [o \in Openers |->
            IF scope = "open" /\ o \in entries \ {On[r] : r \in Readers \cap Pending} /\ closing[o] = "none"
            THEN "called" ELSE closing[o]]
    /\ UNCHANGED <<op, count, acquired, entries, failed, answer>>

\* close(): admission stops, and every entry is released; a second call joins
\* the first.
Close ==
    /\ scope' = IF scope = "open" THEN "closing" ELSE scope
    /\ awaited' = IF scope = "open" THEN entries ELSE awaited
    /\ closing' = [o \in Openers |->
            IF scope = "open" /\ o \in entries /\ closing[o] = "none" THEN "called" ELSE closing[o]]
    /\ UNCHANGED <<op, count, acquired, entries, failed, answer>>

PluginCloses ==
    /\ plugin = "running" /\ scope = "open"
    /\ Close
    /\ UNCHANGED <<bridge, plugin>>

\* Withdrawal closes the scopes of the plugin, and then settles its requests and
\* cancels its own coroutines.
Withdraw ==
    LET dropped == {o \in Requests : requests[o] = "plugin"}
    IN  /\ plugin = "running"
        /\ plugin' = "withdrawn"
        /\ requests' = [o \in Requests |-> IF o \in dropped THEN "none" ELSE requests[o]]
        /\ Close
        /\ UNCHANGED <<native, replies>>

\* The opener whose request was refused at once, or settled by a withdrawal, goes on
\* without a resource.
Unanswered(o) ==
    /\ o \in Openers /\ op[o] = "waiting" /\ requests[o] = "none"
    /\ Abandon(o)
    /\ UNCHANGED <<scope, awaited, failed, answer, bridge, plugin>>

\* close() awaited every closing it began with,
Released == \A o \in awaited : closing[o] \in {"ended", "failed"}

AwaitReleases ==
    /\ scope = "closing" /\ Released
    /\ scope' = "waiting"
    /\ UNCHANGED <<op, count, acquired, entries, closing, awaited, failed, answer, bridge, plugin>>

\* and then every operation that is pending, the ones that release their own
\* late resource included.
Emptied == Pending = {}

\* Mutant of Problem: the failures of the closings close() itself began are told.
ProblemBegun == \E o \in awaited : closing[o] = "failed"

\* What close() is told of: any closing of the scope that failed.
Problem == failed

AwaitOperations ==
    /\ scope = "waiting" /\ Emptied
    /\ scope' = "closed"
    /\ answer' = IF Problem THEN "failed" ELSE "closed"
    /\ UNCHANGED <<op, count, acquired, entries, closing, awaited, failed, bridge, plugin>>

-----------------------------------------------------------------------------
Next ==
    \/ \E o \in Operations : Admit(o) \/ Begin(o) \/ ReadEnds(o)
    \/ \E o \in Calls : Call(o)
    \/ \E o \in Requests : HostAnswers(o, "open") \/ HostAnswers(o, "refused") \/ Reply(o)
    \/ \E o \in Openers :
        \/ Unanswered(o) \/ Release(o)
        \/ CloseEnds(o, "ended") \/ CloseEnds(o, "failed")
    \/ PluginCloses \/ Withdraw \/ AwaitReleases \/ AwaitOperations

\* The host answers every request, a closing function answers, and the coroutines
\* run on; a reader whose resource stays open may wait for ever.
Fairness ==
    /\ \A o \in Operations : WF_vars(Begin(o))
    /\ \A o \in Readers : WF_vars(Cut(o) /\ ReadEnds(o))
    /\ \A o \in Openers :
        /\ WF_vars(HostAnswers(o, "open") \/ HostAnswers(o, "refused"))
        /\ WF_vars(Reply(o) \/ Unanswered(o))
        /\ WF_vars(CloseEnds(o, "ended") \/ CloseEnds(o, "failed"))
    /\ WF_vars(AwaitReleases) /\ WF_vars(AwaitOperations)

Spec == Init /\ [][Next]_vars
FairSpec == Spec /\ Fairness

-----------------------------------------------------------------------------
(* Properties.                                                             *)

\* The resources that are being opened for the scope.
Opening == {o \in Openers : op[o] \in {"admitted", "waiting"}}

TypeOK ==
    /\ op \in [Operations -> {"none", "done"} \cup Active]
    /\ count \in Int /\ acquired \in Int
    /\ entries \subseteq Openers /\ awaited \subseteq Openers
    /\ closing \in [Openers -> {"none", "called", "ended", "failed"}]
    /\ \A o \in entries : closing[o] \in {"none", "called"}
    /\ scope \in {"open", "closing", "waiting", "closed"}
    /\ failed \in BOOLEAN /\ answer \in {"none", "closed", "failed"}
    /\ requests \in [Requests -> {"none", "plugin", "scope"}]
    /\ native \in [Requests -> {"none", "asked", "open", "refused"}]
    /\ replies \subseteq Requests /\ plugin \in {"running", "withdrawn"}

\* The counters are the operations that are pending and the resources that are open or
\* being opened, through every failure and every late answer: the scope neither
\* exceeds its limits nor loses room.
Counted ==
    /\ count = Cardinality(Pending) /\ count <= Limit
    /\ acquired = Cardinality(Opening \cup entries) /\ acquired <= Limit

Ledger == INSTANCE ResourceLedger WITH
    Resources <- Openers,
    taken <- {o \in Openers : native[o] = "open"},
    given <- {o \in Openers : closing[o] # "none"},
    back <- {o \in Openers : closing[o] \in {"ended", "failed"}},
    over <- scope = "closed"

\* The scope keeps the ledger: whatever the host opened is closed exactly once, also
\* when it opened it after the scope began to close or the plugin went, and closing
\* is answered only when all of it came back.
Implements == Ledger!Spec

\* "A cleanup failure is retained while every other resource is still closed, then
\* answered to the caller": also that of a resource released before, or opened late.
FailureAnswered ==
    scope = "closed" => (answer = "failed" <=> \E o \in Openers : closing[o] = "failed")

\* Closing ends, though readers wait on the resources it closes.
ClosingEnds == scope # "open" ~> scope = "closed"
=============================================================================
