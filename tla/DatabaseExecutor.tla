-------------------------- MODULE DatabaseExecutor --------------------------
(***************************************************************************)
(* The one database worker of the product and the two queues around it:   *)
(* persistence/DatabaseExecutor (a FIFO of work that one thread runs on    *)
(* the only connection) and execution/MainThreadQueue (a FIFO of answers   *)
(* that the interface thread drains).  Three threads of control act: the   *)
(* callers that submit, the worker, and the interface thread, which drains *)
(* while the product runs and then shuts the executor down.                *)
(*                                                                         *)
(* A work is a member of Work.  Plugin names the works that are statements *)
(* of a plugin, the only ones the interruption flag keeps cutting short;   *)
(* Slow names the plugin works whose statement would run on for longer     *)
(* than the two seconds of drainBound.                                     *)
(***************************************************************************)
EXTENDS Naturals, Sequences

CONSTANTS Work, Plugin, Slow, None

ASSUME WorkAssumption == /\ Plugin \subseteq Work
                         /\ Slow \subseteq Plugin
                         /\ None \notin Work

VARIABLES
    queue,        \* m_queue: accepted work the worker has not taken
    held,         \* the work the worker moved out of the queue, or None
    cut,          \* sqlite3_interrupt met a running statement of held
    interrupting, \* Database::m_interrupting
    closed,       \* m_closed: nothing more is accepted
    done,         \* m_done: the worker found the queue empty after m_closed
    posted,       \* m_tasks of the main-thread queue: answers to deliver
    ready,        \* the answers the drain in progress swapped out
    stopper,      \* where the interface thread is in the closing
    accepted,     \* history: every work accepted, in order
    answered      \* history: every answer delivered, in order

worker == <<queue, held, cut, done>>
vars == <<queue, held, cut, interrupting, closed, done, posted, ready, stopper,
          accepted, answered>>

Outcomes == {"success", "failure", "interrupted"}
Answers == [work : Work, outcome : Outcomes]

\* "serving": the frame loop runs; "draining": shutdown waits for m_finished;
\* "joining": it joins the worker; "closed": the connection is closed;
\* "gone": the last drain of the product ran.
Stages == {"serving", "draining", "joining", "closed", "gone"}

Init ==
    /\ queue = <<>> /\ posted = <<>> /\ ready = <<>>
    /\ held = None /\ cut = FALSE /\ interrupting = FALSE
    /\ closed = FALSE /\ done = FALSE
    /\ stopper = "serving"
    /\ accepted = <<>> /\ answered = <<>>

-----------------------------------------------------------------------------
(* Callers.  enqueue drops the work without a word once m_closed is set.   *)

Enqueue(w) ==
    IF closed
    THEN UNCHANGED <<queue, accepted>>
    ELSE /\ queue' = Append(queue, w)
         /\ accepted' = Append(accepted, w)

\* A work is one closure, so it is submitted once.
Submit(w) ==
    /\ stopper = "serving"
    /\ \A i \in 1..Len(accepted) : accepted[i] # w
    /\ Enqueue(w)
    /\ UNCHANGED <<held, cut, interrupting, closed, done, posted, ready, stopper, answered>>

-----------------------------------------------------------------------------
(* The worker.                                                             *)

\* Mutant of Take: The worker takes the newest work instead of the oldest.
TakeNewest ==
    /\ held = None /\ ~done
    /\ queue # <<>>
    /\ held' = queue[Len(queue)]
    /\ queue' = SubSeq(queue, 1, Len(queue) - 1)
    /\ cut' = FALSE
    /\ UNCHANGED <<interrupting, closed, done, posted, ready, stopper, accepted, answered>>

Take ==
    /\ held = None /\ ~done
    /\ queue # <<>>
    /\ held' = Head(queue)
    /\ queue' = Tail(queue)
    /\ cut' = FALSE
    /\ UNCHANGED <<interrupting, closed, done, posted, ready, stopper, accepted, answered>>

\* Mutant of Leave: The worker leaves as soon as m_closed is set.
LeaveAtOnce ==
    /\ held = None /\ ~done
    /\ closed
    /\ done' = TRUE
    /\ UNCHANGED <<queue, held, cut, interrupting, closed, posted, ready, stopper, accepted, answered>>

Leave ==
    /\ held = None /\ ~done
    /\ closed /\ queue = <<>>
    /\ done' = TRUE
    /\ UNCHANGED <<queue, held, cut, interrupting, closed, posted, ready, stopper, accepted, answered>>

\* Mutant of MayEnd: The progress handler stops every statement once the flag is set.
MayEndFlag(outcome) ==
    CASE outcome = "interrupted" -> cut \/ interrupting \/ held \in Plugin
      [] outcome = "failure"     -> ~cut
      [] outcome = "success"     -> ~cut /\ held \notin Slow

\* What the work held may answer.  A statement sqlite3_interrupt met fails.  A
\* plugin statement may also be stopped by its own bound, or, once the flag is
\* set, by the progress handler; a slow one never ends any other way.
MayEnd(outcome) ==
    CASE outcome = "interrupted" -> cut \/ held \in Plugin
      [] outcome = "failure"     -> ~cut
      [] outcome = "success"     -> ~cut /\ held \notin Slow

Finish(outcome) ==
    /\ held # None
    /\ MayEnd(outcome)
    /\ posted' = Append(posted, [work |-> held, outcome |-> outcome])
    /\ held' = None
    /\ cut' = FALSE
    /\ UNCHANGED <<queue, interrupting, closed, done, ready, stopper, accepted, answered>>

\* The ends a work reaches in good time: a slow statement only once it is told
\* to stop, any other work by itself.
FinishSoon ==
    /\ held \in Slow => (cut \/ interrupting)
    /\ \E outcome \in Outcomes : Finish(outcome)

-----------------------------------------------------------------------------
(* The interface thread.                                                   *)

\* MainThreadQueue::drain swaps the whole vector first, so what its tasks post
\* waits for the next drain.
Drain ==
    /\ stopper = "serving"
    /\ ready = <<>> /\ posted # <<>>
    /\ ready' = posted
    /\ posted' = <<>>
    /\ UNCHANGED <<queue, held, cut, interrupting, closed, done, stopper, accepted, answered>>

Deliver ==
    /\ ready # <<>>
    /\ answered' = Append(answered, Head(ready))
    /\ ready' = Tail(ready)
    /\ UNCHANGED <<queue, held, cut, interrupting, closed, done, posted, stopper, accepted>>

BeginShutdown ==
    /\ stopper = "serving" /\ ready = <<>>
    /\ closed' = TRUE
    /\ stopper' = "draining"
    /\ UNCHANGED <<queue, held, cut, interrupting, done, posted, ready, accepted, answered>>

\* wait_for answered true: the worker left within the bound.
Drained ==
    /\ stopper = "draining" /\ done
    /\ stopper' = "joining"
    /\ UNCHANGED <<queue, held, cut, interrupting, closed, done, posted, ready, accepted, answered>>

\* Mutant of Interrupt: The bound passes without an interruption.
InterruptNothing ==
    /\ stopper = "draining" /\ ~done
    /\ stopper' = "joining"
    /\ UNCHANGED <<queue, held, cut, interrupting, closed, done, posted, ready, accepted, answered>>

\* The bound passed.  Database::interrupt sets the flag and calls
\* sqlite3_interrupt, which meets the statement running now, if one is.
Interrupt ==
    /\ stopper = "draining" /\ ~done
    /\ interrupting' = TRUE
    /\ cut' \in {FALSE, held # None}
    /\ stopper' = "joining"
    /\ UNCHANGED <<queue, held, closed, done, posted, ready, accepted, answered>>

Close ==
    /\ stopper = "joining" /\ done
    /\ stopper' = "closed"
    /\ UNCHANGED <<queue, held, cut, interrupting, closed, done, posted, ready, accepted, answered>>

\* Product::stop drains the main-thread queue once more after the executor.
LastDrain ==
    /\ stopper = "closed"
    /\ stopper' = "gone"
    /\ ready' = posted
    /\ posted' = <<>>
    /\ UNCHANGED <<queue, held, cut, interrupting, closed, done, accepted, answered>>

-----------------------------------------------------------------------------
Next ==
    \/ \E w \in Work : Submit(w)
    \/ Take
    \/ Leave
    \/ \E outcome \in Outcomes : Finish(outcome)
    \/ Drain
    \/ Deliver
    \/ BeginShutdown
    \/ Drained
    \/ Interrupt
    \/ Close
    \/ LastDrain

\* The worker is a thread of its own and the interface thread never stops in
\* the middle of its closing.  Nothing obliges a caller to submit, the reader
\* to quit, or the wait of two seconds to end before the worker does.
Fairness ==
    /\ WF_vars(Take) /\ WF_vars(Leave) /\ WF_vars(FinishSoon)
    /\ WF_vars(Drain) /\ WF_vars(Deliver)
    /\ WF_vars(Drained) /\ WF_vars(Interrupt) /\ WF_vars(Close) /\ WF_vars(LastDrain)

Spec == Init /\ [][Next]_vars
FairSpec == Spec /\ Fairness

-----------------------------------------------------------------------------
(* Properties.                                                             *)

\* Every variable has its type.
TypeOK ==
    /\ queue \in Seq(Work) /\ accepted \in Seq(Work)
    /\ posted \in Seq(Answers) /\ ready \in Seq(Answers) /\ answered \in Seq(Answers)
    /\ held \in Work \cup {None}
    /\ cut \in BOOLEAN /\ interrupting \in BOOLEAN
    /\ closed \in BOOLEAN /\ done \in BOOLEAN
    /\ stopper \in Stages

WorksOf(answers) == [i \in 1..Len(answers) |-> answers[i].work]
Holding == IF held = None THEN <<>> ELSE <<held>>

\* What was accepted is, in the order it was accepted, first what was answered,
\* then what waits to be answered, then the work held, then the queue: no work
\* is lost, doubled or overtaken, whenever the product closes.
Conserved ==
    accepted = WorksOf(answered) \o WorksOf(ready) \o WorksOf(posted) \o Holding \o queue

\* "Runs what is already queued rather than discarding it": the connection is
\* closed only when every accepted work ran, and nobody uses it afterwards.
ClosedAfterAll ==
    stopper \in {"closed", "gone"} => queue = <<>> /\ held = None /\ done

Core(answers) == {i \in 1..Len(answers) :
                    answers[i].outcome = "interrupted" /\ answers[i].work \notin Plugin}

\* The interruption of the closing costs at most the one core statement it met:
\* the core work queued behind it still runs to its own end.
OneCoreCut ==
    LET all == answered \o ready \o posted
    IN  \A i, j \in Core(all) : i = j

\* How the stages of the closing, the flags and the worker hold together, which
\* the proofs need beside the properties above.
StagesAgree ==
    /\ closed <=> stopper # "serving"
    /\ stopper \notin {"serving", "gone"} => ready = <<>>
    /\ done => closed /\ queue = <<>> /\ held = None
    /\ stopper \in {"closed", "gone"} => done
    /\ interrupting => stopper \in {"joining", "closed", "gone"}
    /\ cut => interrupting /\ held # None

\* No core answer is "interrupted" before the one statement that may be is.
CutOnce ==
    LET cuts == Core(answered \o ready \o posted)
    IN  /\ ~interrupting => cuts = {}
        /\ cut /\ held \notin Plugin => cuts = {}
        /\ \A i, j \in cuts : i = j

Inv == TypeOK /\ StagesAgree /\ Conserved /\ CutOnce

\* Quitting never waits for ever on a statement: the closing reaches its end.
ShutdownEnds == stopper = "draining" ~> (stopper = "gone" /\ ready = <<>>)
=============================================================================
