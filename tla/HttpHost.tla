------------------------------ MODULE HttpHost ------------------------------
(***************************************************************************)
(* The servers plugins run:  scripting/HttpHost.cpp, the mailbox it shares *)
(* with the threads of each server, http/StaticFileServer.cpp and the      *)
(* handlers of lua/workpane/http.lua.                                      *)
(*                                                                         *)
(* A server is known by the request that asks for it.  A worker binds it   *)
(* and posts its registration to the main thread; it listens, and answers, *)
(* from the bind on.  What it answers is gathered in the mailbox, handed   *)
(* over once per drain of the main-thread queue, and heard by the plugin   *)
(* when Lua is polled next.  A plugin may stop a server or be withdrawn    *)
(* and come back at any moment, and the product may close.                 *)
(***************************************************************************)
EXTENDS Integers, Sequences, SequencesExt, FiniteSetsExt

CONSTANTS
    Servers,     \* the servers asked for, each by its request
    OwnerOf,     \* the plugin that asks for each
    Asked        \* bound of the model: how many requests each is asked

Plugins == {OwnerOf[s] : s \in Servers}

ASSUME HttpAssumption ==
    Asked \in [Servers -> Nat] /\ DOMAIN OwnerOf = Servers /\ IsFiniteSet(Servers)

VARIABLES
    \* The side of the plugins.
    registered,  \* the plugins the registry knows
    handlers,    \* the servers http.lua has a handler of
    settled,     \* what the future of each serve came to
    heard,       \* the requests each handler was given
    events,      \* what the host emitted and Lua was not given yet
    \* The host, on the main thread.
    starting,    \* m_starting
    servers,     \* m_servers
    retired,     \* m_retired
    ready,       \* the tasks of the drain that runs
    stage,       \* how far Product::stop is
    \* The workers, and the queue they post to.
    tasks,       \* what the workers were given: to bind, to post, to stop
    queue,       \* MainThreadQueue.m_tasks
    \* The threads of the servers, and the mailbox.
    listener,
    answered,    \* how many requests each answered
    pending,     \* Mailbox.pending
    posted, open,
    \* What only the properties look at.
    early,       \* how many each had answered when it was registered
    withdrawn    \* the servers whose plugin went after it asked for them

lua == <<registered, handlers, settled, heard>>
box == <<pending, posted, open>>
ghost == <<early, withdrawn>>
vars == <<lua, events, starting, servers, retired, ready, stage, tasks, queue, listener, answered, box, ghost>>

Task(kind, s) == [kind |-> kind, server |-> s]
Deliver == [kind |-> "deliver"]
Registration(s) == Task("register", s)

Init ==
    /\ registered = Plugins /\ handlers = {} /\ events = <<>>
    /\ settled = [s \in Servers |-> "none"] /\ heard = [s \in Servers |-> <<>>]
    /\ starting = {} /\ servers = {} /\ retired = {} /\ ready = <<>> /\ stage = "serving"
    /\ tasks = {} /\ queue = <<>>
    /\ listener = [s \in Servers |-> "none"] /\ answered = [s \in Servers |-> 0]
    /\ pending = [s \in Servers |-> <<>>] /\ posted = FALSE /\ open = TRUE
    /\ early = [s \in Servers |-> 0] /\ withdrawn = {}

-----------------------------------------------------------------------------
(* The calls of plugins, which Lua makes between two drains.               *)

Turn == stage = "serving" /\ ready = <<>>

Serve(s) ==
    /\ Turn /\ settled[s] = "none" /\ OwnerOf[s] \in registered
    /\ settled' = [settled EXCEPT ![s] = "pending"]
    /\ handlers' = handlers \cup {s}
    /\ starting' = starting \cup {s}
    /\ tasks' = tasks \cup {Task("bind", s)}
    /\ UNCHANGED <<registered, heard, events, servers, retired, ready, stage, queue, listener, answered, box, ghost>>

\* Mutant of Retire: nobody is asked to wait for the connections.
RetireUnjoined(gone) ==
    /\ listener' = [s \in Servers |-> IF s \in gone THEN "closing" ELSE listener[s]]
    /\ retired' = retired \cup gone
    /\ UNCHANGED tasks

\* retire(): the port is released at once, the wait goes to a worker.
Retire(gone) ==
    /\ listener' = [s \in Servers |-> IF s \in gone THEN "closing" ELSE listener[s]]
    /\ retired' = retired \cup gone
    /\ tasks' = tasks \cup {Task("stop", s) : s \in gone}

Stop(s) ==
    /\ Turn /\ s \in servers
    /\ Retire({s})
    /\ servers' = servers \ {s}
    /\ handlers' = handlers \ {s}
    /\ UNCHANGED <<registered, settled, heard, events, starting, ready, stage, queue, answered, box, ghost>>

\* The core withdraws a plugin: bridge.forget settles what it waits for,
\* http.forget drops its handlers and its servers, and the registry lets go of it.
Withdraw(p) ==
    LET mine == {s \in Servers : OwnerOf[s] = p}
    IN  /\ Turn /\ p \in registered
        /\ registered' = registered \ {p}
        /\ handlers' = handlers \ mine
        /\ settled' = [s \in Servers |-> IF s \in mine /\ settled[s] = "pending" THEN "failed" ELSE settled[s]]
        /\ starting' = starting \ mine
        /\ Retire(servers \cap mine)
        /\ servers' = servers \ mine
        /\ withdrawn' = withdrawn \cup {s \in mine : settled[s] # "none"}
        /\ UNCHANGED <<heard, events, ready, stage, queue, answered, box, early>>

Register(p) ==
    /\ Turn /\ p \notin registered
    /\ registered' = registered \cup {p}
    /\ UNCHANGED <<handlers, settled, heard, events, starting, servers, retired, ready, stage, tasks, queue, listener, answered, box, ghost>>

\* The next event reaches Lua: the reply of a serve settles its future, and a
\* batch of requests the handler of its server.
Hear ==
    LET event == Head(events)
        s == event.server
    IN  /\ Turn /\ events # <<>>
        /\ events' = Tail(events)
        /\ \/ /\ event.kind = "requests"
              /\ heard' = IF s \in handlers THEN [heard EXCEPT ![s] = @ \o event.records] ELSE heard
              /\ UNCHANGED <<settled, handlers>>
           \/ /\ event.kind = "reply" /\ settled[s] = "pending"
              /\ settled' = [settled EXCEPT ![s] = IF event.ok THEN "served" ELSE "failed"]
              /\ handlers' = IF event.ok THEN handlers ELSE handlers \ {s}
              /\ UNCHANGED heard
           \/ /\ event.kind = "reply" /\ settled[s] # "pending"
              /\ UNCHANGED <<settled, handlers, heard>>
        /\ UNCHANGED <<registered, starting, servers, retired, ready, stage, tasks, queue, listener, answered, box, ghost>>

-----------------------------------------------------------------------------
(* The workers.                                                            *)

\* StaticFileServer::start binds, or its address is refused.
Bind(s, outcome) ==
    /\ Task("bind", s) \in tasks
    /\ listener' = [listener EXCEPT ![s] = outcome]
    /\ tasks' = (tasks \ {Task("bind", s)}) \cup {Task("post", s)}
    /\ UNCHANGED <<lua, events, starting, servers, retired, ready, stage, queue, answered, box, ghost>>

PostRegistration(s) ==
    /\ Task("post", s) \in tasks
    /\ queue' = Append(queue, Registration(s))
    /\ tasks' = tasks \ {Task("post", s)}
    /\ UNCHANGED <<lua, events, starting, servers, retired, ready, stage, listener, answered, box, ghost>>

\* StaticFileServer::stop returned: its threads ended.
Join(s) ==
    /\ Task("stop", s) \in tasks
    /\ listener' = [listener EXCEPT ![s] = "ended"]
    /\ queue' = Append(queue, Task("erase", s))
    /\ tasks' = tasks \ {Task("stop", s)}
    /\ UNCHANGED <<lua, events, starting, servers, retired, ready, stage, answered, box, ghost>>

-----------------------------------------------------------------------------
(* The threads of a server, up to the last connection of one that closes.  *)

Answer(s) ==
    /\ listener[s] \in {"open", "closing"} /\ answered[s] < Asked[s]
    /\ answered' = [answered EXCEPT ![s] = @ + 1]
    /\ pending' = IF open THEN [pending EXCEPT ![s] = Append(@, answered[s] + 1)] ELSE pending
    /\ posted' = (posted \/ open)
    /\ queue' = IF open /\ ~posted THEN Append(queue, Deliver) ELSE queue
    /\ UNCHANGED <<lua, events, starting, servers, retired, ready, stage, tasks, listener, open, ghost>>

-----------------------------------------------------------------------------
(* The drain of the main-thread queue.                                     *)

Drain ==
    /\ Turn /\ queue # <<>>
    /\ ready' = queue /\ queue' = <<>>
    /\ UNCHANGED <<lua, events, starting, servers, retired, stage, tasks, listener, answered, box, ghost>>

Running(kind) ==
    /\ ready # <<>> /\ Head(ready).kind = kind
    /\ ready' = Tail(ready)
    /\ UNCHANGED <<lua, stage, queue, answered>>

Reply(s, ok) == [kind |-> "reply", server |-> s, ok |-> ok]

\* Mutant of Wanted: the plugin that has the name is taken for the one that asked.
WantedByName(s) == OwnerOf[s] \in registered

\* Whether the registration finds its request, and the plugin of it.
Wanted(s) == s \in starting /\ OwnerOf[s] \in registered

\* Mutant of Answers: a bind that failed is only logged.
AnswersServed(s, kept) == IF kept THEN <<Reply(s, kept)>> ELSE <<>>

\* The reply of the registration, whatever became of the server.
Answers(s, kept) == <<Reply(s, kept)>>

\* The registration of a server that nobody withdrew, of one whose bind failed,
\* and of one nobody waits for any more, which is retired.
RunRegistration ==
    LET s == Head(ready).server
        kept == Wanted(s) /\ listener[s] = "open"
    IN  /\ Running("register")
        /\ starting' = starting \ {s}
        /\ events' = events \o Answers(s, kept)
        /\ \/ /\ kept
              /\ servers' = servers \cup {s}
              /\ early' = [early EXCEPT ![s] = answered[s]]
              /\ UNCHANGED <<retired, tasks, listener>>
           \/ /\ ~kept /\ listener[s] = "open"
              /\ Retire({s})
              /\ UNCHANGED <<servers, early>>
           \/ /\ listener[s] = "failed"
              /\ UNCHANGED <<servers, early, retired, tasks, listener>>
        /\ UNCHANGED <<box, withdrawn>>

Batch(s) == [kind |-> "requests", server |-> s, records |-> pending[s]]

\* Mutant of RunDelivery: what came of a server that is not registered yet is left
\* in the mailbox, with no delivery to come.
RunDeliveryLeft ==
    /\ Running("deliver")
    /\ pending' = [s \in Servers |-> IF s \in servers THEN <<>> ELSE pending[s]]
    /\ posted' = FALSE
    /\ events' = events \o SetToSeq({Batch(s) : s \in {t \in servers : pending[t] # <<>>}})
    /\ UNCHANGED <<starting, servers, retired, tasks, listener, open, ghost>>

\* deliver(): the mailbox is emptied, and only what belongs to a registered
\* server is emitted.
RunDelivery ==
    /\ Running("deliver")
    /\ pending' = [s \in Servers |-> <<>>]
    /\ posted' = FALSE
    /\ events' = events \o SetToSeq({Batch(s) : s \in {t \in servers : pending[t] # <<>>}})
    /\ UNCHANGED <<starting, servers, retired, tasks, listener, open, ghost>>

RunErase ==
    /\ Running("erase")
    /\ retired' = retired \ {Head(ready).server}
    /\ UNCHANGED <<events, starting, servers, tasks, listener, box, ghost>>

-----------------------------------------------------------------------------
(* Product::stop.                                                          *)

\* The destructor of the host closes the mailbox and stops every server it has,
\* the ones a worker is still ending included.
DestroyHost ==
    /\ Turn
    /\ stage' = "destroyed" /\ open' = FALSE
    /\ listener' = [s \in Servers |-> IF s \in servers \cup retired THEN "ended" ELSE listener[s]]
    /\ servers' = {} /\ retired' = {} /\ events' = <<>>
    /\ UNCHANGED <<lua, starting, ready, tasks, queue, answered, pending, posted, ghost>>

\* WorkerPool::shutdown returns once everything posted has run.
ShutWorkers ==
    /\ stage = "destroyed" /\ tasks = {}
    /\ stage' = "joined"
    /\ UNCHANGED <<lua, events, starting, servers, retired, ready, tasks, queue, listener, answered, box, ghost>>

\* The last drain: every task finds the host gone, and the server a registration
\* held ends as the task is destroyed.
LastDrain ==
    /\ stage = "joined"
    /\ stage' = "gone" /\ queue' = <<>>
    /\ listener' = [s \in Servers |->
            IF listener[s] = "open" /\ Contains(queue, Registration(s)) THEN "ended" ELSE listener[s]]
    /\ UNCHANGED <<lua, events, starting, servers, retired, ready, tasks, answered, box, ghost>>

-----------------------------------------------------------------------------
Work(s) == Bind(s, "open") \/ Bind(s, "failed") \/ PostRegistration(s) \/ Join(s)
MainTurn == Hear \/ Drain \/ RunRegistration \/ RunDelivery \/ RunErase
Closing == ShutWorkers \/ LastDrain

Next ==
    \/ \E s \in Servers : Serve(s) \/ Stop(s) \/ Work(s) \/ Answer(s)
    \/ \E p \in Plugins : Withdraw(p) \/ Register(p)
    \/ MainTurn \/ DestroyHost \/ Closing

\* The workers take every task, and the frame loop is woken by what is posted or
\* emitted.  Nobody need ask, stop or close anything.
Fairness ==
    /\ \A s \in Servers : WF_vars(Work(s))
    /\ WF_vars(MainTurn) /\ WF_vars(Closing)

Spec == Init /\ [][Next]_vars
FairSpec == Spec /\ Fairness

-----------------------------------------------------------------------------
(* Properties.                                                             *)

Kinds == {"bind", "post", "stop"}

TypeOK ==
    /\ registered \subseteq Plugins
    /\ handlers \cup starting \cup servers \cup retired \cup withdrawn \subseteq Servers
    /\ settled \in [Servers -> {"none", "pending", "served", "failed"}]
    /\ listener \in [Servers -> {"none", "failed", "open", "closing", "ended"}]
    /\ \A s \in Servers : answered[s] \in 0..Asked[s] /\ early[s] \in 0..answered[s]
    /\ tasks \subseteq [kind : Kinds, server : Servers]
    /\ stage \in {"serving", "destroyed", "joined", "gone"}
    /\ posted \in BOOLEAN /\ open = (stage = "serving")

Queued(task) == Contains(ready \o queue, task)

\* Nothing listens that nobody will end: an open server is in the hand of a worker,
\* in a registration that waits, or registered for a plugin the registry knows; one
\* that closes is kept until a worker joined it; and none is left once the product is
\* gone.  Both sides of the bridge agree on which servers there are.
Held ==
    /\ TypeOK
    /\ \A s \in Servers :
        /\ listener[s] = "open" =>
              \/ Task("post", s) \in tasks \/ Queued(Registration(s))
              \/ s \in servers /\ OwnerOf[s] \in registered
        /\ listener[s] = "closing" => Task("stop", s) \in tasks /\ (stage = "serving" => s \in retired)
        /\ s \in servers => listener[s] = "open" /\ s \in handlers
        /\ stage = "gone" => listener[s] \notin {"open", "closing"}
    /\ stage = "serving" => \A s \in handlers : settled[s] = "served" => s \in servers

\* What Lua was or will be given of a server comes in pieces: what its handler heard,
\* the batches on their way to Lua, and what waits in the mailbox.
Places == 0..(Len(events) + 1)
IsBatch(s, k) == events[k].kind = "requests" /\ events[k].server = s
Piece(s, k) ==
    IF k = 0 THEN heard[s]
    ELSE IF k = Len(events) + 1 THEN pending[s]
    ELSE IF IsBatch(s, k) THEN events[k].records ELSE <<>>

\* The requests of a server are in the order of its answers, piece after piece.
InOrder(s) ==
    \A k, l \in Places : \A i \in 1..Len(Piece(s, k)), j \in 1..Len(Piece(s, l)) :
        k < l \/ (k = l /\ i < j) => Piece(s, k)[i] < Piece(s, l)[j]

Requests(s) == UNION {{Piece(s, k)[i] : i \in 1..Len(Piece(s, k))} : k \in Places}

\* The requests a server answers reach its plugin each once, in order and without a
\* gap from the first after its registration at the latest: what still waits in the
\* mailbox has a delivery to come.
NothingLost ==
    /\ \A s \in servers : InOrder(s) /\ \E first \in 1..(early[s] + 1) : Requests(s) = first..answered[s]
    /\ stage = "serving" /\ (\E s \in Servers : pending[s] # <<>>) => Queued(Deliver)

\* A serve is answered whatever became of the server meanwhile.
ServesAnswered ==
    \A s \in Servers : settled[s] = "pending" ~> settled[s] # "pending" \/ stage # "serving"

\* A server whose plugin was withdrawn ends for good, even when its bind was still
\* under way and the plugin is back before the bind is done.
WithdrawnEnd ==
    \A s \in Servers : s \in withdrawn ~> [](listener[s] \in {"none", "failed", "ended"})
=============================================================================
