---------------------------- MODULE ProcessHost ----------------------------
(***************************************************************************)
(* The programs plugins run:  scripting/ProcessHost.cpp, the mailbox it    *)
(* shares with the serving thread of each program, and the part of         *)
(* platform/posix/PosixProcess.cpp that reads a program and ends it.       *)
(*                                                                         *)
(* The main thread starts, reads, stops and forgets programs, and delivers *)
(* what arrived once per turn.  One thread per program reads what it       *)
(* writes and puts it into the mailbox, waiting on a condition variable    *)
(* while a bound is reached; it asks the program to end only when it is    *)
(* back from there.  A unit stands for a run of bytes: the units of a      *)
(* program are numbered as it writes them.                                 *)
(***************************************************************************)
EXTENDS Integers, Sequences, SequencesExt, FiniteSetsExt

CONSTANTS
    Programs,        \* the programs started, each by its own identity
    Pull,            \* those that select pullOutput
    Owner,           \* the plugin that starts each
    Streams,         \* output and error
    Writes,          \* bound of the model: the stream of each unit a program may write
    None,
    MaxBytes,        \* maximumPendingBytes
    MaxChunks,       \* maximumPendingChunks
    MaxPull,         \* maximumPullBytes
    MaxPullChunks,   \* maximumPullChunks
    MaxPiece,        \* readChunk: what one read of a pipe takes
    Maxima,          \* the byte counts a reader may ask for
    MaxCalls         \* bound of the model: the reads, stops and withdrawals in all

\* A piece always fits into an empty mailbox, so output() never has to split one.
ASSUME ProcessAssumption ==
    /\ IsFiniteSet(Programs) /\ Pull \subseteq Programs
    /\ Streams # {} /\ None \notin [stream : Streams, units : Seq(Nat)]
    /\ \A n \in {MaxBytes, MaxChunks, MaxPull, MaxPullChunks, MaxPiece} : n \in Nat \ {0}
    /\ MaxPiece <= MaxPull /\ MaxPull <= MaxBytes
    /\ Maxima \subseteq Nat \ {0} /\ MaxCalls \in Nat
    /\ Writes \in [Programs -> Seq(Streams)]

Plugins == {Owner[p] : p \in Programs}

VARIABLES
    \* The mailbox, behind its mutex.
    box,       \* pending: the chunks of each program that wait for delivery
    offset,    \* how much of the first chunk was already read
    held,      \* Pending.bytes of each program
    exit,      \* the programs whose end waits for delivery
    bytes, chunks, posted,
    closed,
    \* The serving threads.
    thread,    \* "none", "serving" or "ended"
    hand,      \* the piece output() holds, or None
    asleep,    \* those that wait on the condition variable
    asked,     \* PosixProcess.m_stopping
    written,   \* how many units each program wrote
    \* The main thread.
    running,   \* m_running
    reader,    \* the byte count of the accepted reader, 0 when there is none
    retiring, stopping,
    tasks,     \* the deliveries the queue of the main thread holds
    host,      \* "open", "closing" in the destructor, "closed"
    calls,
    \* What the plugin was told: units with their streams, and the end.
    told, reported

mailbox == <<box, offset, held, exit, bytes, chunks, posted, closed>>
serving == <<thread, hand, asleep, asked, written>>
owned == <<running, reader, retiring, stopping, host, calls>>
vars == <<mailbox, serving, owned, tasks, told, reported>>

Init ==
    /\ box = [p \in Programs |-> <<>>] /\ offset = [p \in Programs |-> 0]
    /\ held = [p \in Programs |-> 0] /\ exit = {}
    /\ bytes = 0 /\ chunks = 0 /\ posted = FALSE /\ closed = FALSE
    /\ thread = [p \in Programs |-> "none"] /\ hand = [p \in Programs |-> None]
    /\ asleep = {} /\ asked = {} /\ written = [p \in Programs |-> 0]
    /\ running = {} /\ reader = [p \in Programs |-> 0]
    /\ retiring = {} /\ stopping = {} /\ tasks = 0 /\ host = "open" /\ calls = 0
    /\ told = [p \in Programs |-> <<>>] /\ reported = {}

-----------------------------------------------------------------------------
(* The serving thread of a program.                                        *)

\* posted(): one delivery is queued until the next one empties the mailbox.
Post ==
    /\ posted' = TRUE
    /\ tasks' = IF posted THEN tasks ELSE tasks + 1

\* readStream: the program wrote up to a piece to one of its streams.
ReadStream(p, n) ==
    LET next == written[p] + 1 .. written[p] + n
    IN  /\ thread[p] = "serving" /\ hand[p] = None
        /\ next \subseteq 1..Len(Writes[p])
        /\ \A i \in next : Writes[p][i] = Writes[p][written[p] + 1]
        /\ hand' = [hand EXCEPT ![p] = [stream |-> Writes[p][written[p] + 1], units |-> [i \in 1..n |-> written[p] + i]]]
        /\ written' = [written EXCEPT ![p] = @ + n]
        /\ UNCHANGED <<mailbox, thread, asleep, asked, owned, tasks, told, reported>>

\* Whether a piece joins the last chunk that waits.
Merged(p) == box[p] # <<>> /\ Last(box[p]).stream = hand[p].stream

\* The predicate output() waits for, apart from the closing.
Fits(p) ==
    LET length == Len(hand[p].units)
    IN  /\ length <= MaxBytes - bytes
        /\ Merged(p) \/ chunks < MaxChunks
        /\ p \in Pull => /\ length <= MaxPull - held[p]
                         /\ Merged(p) \/ Len(box[p]) < MaxPullChunks

Sleep(p) ==
    /\ hand[p] # None /\ p \notin asleep
    /\ ~closed /\ ~Fits(p)
    /\ asleep' = asleep \cup {p}
    /\ UNCHANGED <<mailbox, thread, hand, asked, written, owned, tasks, told, reported>>

\* The last chunk takes the bytes of a piece.
Joined(c, x) == Append(Front(c), [Last(c) EXCEPT !.units = @ \o x.units])

Put(p) ==
    /\ hand[p] # None /\ p \notin asleep
    /\ ~closed /\ Fits(p)
    /\ IF Merged(p)
       THEN /\ box' = [box EXCEPT ![p] = Joined(@, hand[p])]
            /\ UNCHANGED chunks
       ELSE /\ box' = [box EXCEPT ![p] = Append(@, hand[p])]
            /\ chunks' = chunks + 1
    /\ bytes' = bytes + Len(hand[p].units)
    /\ held' = [held EXCEPT ![p] = @ + Len(hand[p].units)]
    /\ hand' = [hand EXCEPT ![p] = None]
    /\ Post
    /\ UNCHANGED <<offset, exit, closed, thread, asleep, asked, written, owned, told, reported>>

\* The mailbox is closed: the rest of the output goes nowhere.
Drop(p) ==
    /\ hand[p] # None /\ p \notin asleep /\ closed
    /\ hand' = [hand EXCEPT ![p] = None]
    /\ UNCHANGED <<mailbox, thread, asleep, asked, written, owned, tasks, told, reported>>

\* The streams of the program ended, or the grace of its stop passed: the
\* thread reaps it and tells its end.
Exited(p) ==
    /\ thread[p] = "serving" /\ hand[p] = None
    /\ thread' = [thread EXCEPT ![p] = "ended"]
    /\ IF closed
       THEN UNCHANGED <<exit, posted, tasks>>
       ELSE exit' = exit \cup {p} /\ Post
    /\ UNCHANGED <<box, offset, held, bytes, chunks, closed, hand, asleep, asked, written, owned, told, reported>>

-----------------------------------------------------------------------------
(* deliver(), over the reader and the marks the calling function set.      *)

\* The bytes of the first i chunks of a program.
UpTo(p) ==
    LET size[i \in 0..Len(box[p])] == IF i = 0 THEN 0 ELSE size[i - 1] + Len(box[p][i].units)
    IN  size

Arrived(p) == box[p] # <<>> \/ p \in exit

\* Whose pending entry this delivery takes from: a pull program nobody reads
\* keeps what it has.
Taken(asks, gone, stopped) ==
    {p \in Programs : Arrived(p) /\ (p \in Pull \ (gone \cup stopped) => asks[p] # 0)}

\* Mutant of Count: a stopped program is read no further than its reader asked.
CountAsked(p, asks, gone, stopped) ==
    LET unread == held[p] - offset[p]
    IN  IF p \in Pull \ gone /\ asks[p] < unread THEN asks[p] ELSE unread

\* How many units are taken from a program.
Count(p, asks, gone, stopped) ==
    LET unread == held[p] - offset[p]
    IN  IF p \in Pull \ (gone \cup stopped) /\ asks[p] < unread THEN asks[p] ELSE unread

\* How many chunks a read of n units leaves empty.
Emptied(p, n) == Cardinality({i \in 1..Len(box[p]) : UpTo(p)[i] <= offset[p] + n})

\* Mutant of Freed: a chunk read in part gives its room back at once.
FreedEarly(p, n) == n

\* The bytes of the chunks left empty: a chunk read in part keeps its room.
Freed(p, n) == UpTo(p)[Emptied(p, n)]

\* ready.notify_all().
Ready == asleep' = {}

\* The end is taken with the last chunk, and the entry is erased.
Ends(p, n) == p \in exit /\ Emptied(p, n) = Len(box[p])

\* The programs whose output is discarded.
Silent(gone, stopped) == gone \cup stopped

\* What is told of n units, each with the stream of its chunk.
Portion(p, n) ==
    LET units == FlattenSeq([i \in 1..Len(box[p]) |->
                    [j \in 1..Len(box[p][i].units) |-> <<box[p][i].stream, box[p][i].units[j]>>]])
    IN  SubSeq(units, offset[p] + 1, offset[p] + n)

Sum(f) == MapThenSumSet(LAMBDA p : f[p], DOMAIN f)

Deliver(asks, gone, stopped) ==
    LET taken == Taken(asks, gone, stopped)
        n == [p \in taken |-> Count(p, asks, gone, stopped)]
        freed == [p \in taken |-> Freed(p, n[p])]
        emptied == [p \in taken |-> Emptied(p, n[p])]
        over == {p \in taken : Ends(p, n[p])}
    IN  /\ posted' = FALSE
        /\ Ready
        /\ box' = [p \in Programs |-> IF p \in taken THEN SubSeq(box[p], emptied[p] + 1, Len(box[p])) ELSE box[p]]
        /\ offset' = [p \in Programs |-> IF p \in taken THEN offset[p] + n[p] - freed[p] ELSE offset[p]]
        /\ held' = [p \in Programs |-> IF p \in taken THEN held[p] - freed[p] ELSE held[p]]
        /\ bytes' = bytes - Sum(freed)
        /\ chunks' = chunks - Sum(emptied)
        /\ exit' = exit \ over
        /\ told' = [p \in Programs |-> IF p \in taken \ Silent(gone, stopped)
                        THEN told[p] \o Portion(p, n[p]) ELSE told[p]]
        /\ reader' = [p \in Programs |-> IF p \in taken /\ (p \in stopped => p \in over) THEN 0 ELSE asks[p]]
        /\ reported' = reported \cup (over \ gone)
        /\ running' = running \ over /\ retiring' = gone \ over /\ stopping' = stopped \ over

-----------------------------------------------------------------------------
(* The main thread.                                                        *)

Start(p) ==
    /\ host = "open" /\ thread[p] = "none"
    /\ thread' = [thread EXCEPT ![p] = "serving"]
    /\ running' = running \cup {p}
    /\ UNCHANGED <<mailbox, hand, asleep, asked, written, reader, retiring, stopping, host, calls, tasks, told, reported>>

\* The queue of the main thread runs a delivery.
RunDelivery ==
    /\ host = "open" /\ tasks > 0
    /\ tasks' = tasks - 1
    /\ Deliver(reader, retiring, stopping)
    /\ UNCHANGED <<closed, thread, hand, asked, written, host, calls>>

\* A call of a plugin, which delivers at once what it made possible.
Call ==
    /\ host = "open" /\ calls < MaxCalls
    /\ calls' = calls + 1
    /\ UNCHANGED <<closed, thread, hand, written, host, tasks>>

\* Mutant of Read: what already waits is left for the next delivery.
ReadLater(p, maximum) ==
    /\ Call
    /\ p \in (running \cap Pull) \ retiring /\ reader[p] = 0
    /\ reader' = [reader EXCEPT ![p] = maximum]
    /\ UNCHANGED <<box, offset, held, exit, bytes, chunks, posted, asleep, asked, running, retiring, stopping, told, reported>>

\* A reader is accepted, one at a time.
Read(p, maximum) ==
    /\ Call
    /\ p \in (running \cap Pull) \ retiring /\ reader[p] = 0
    /\ Deliver([reader EXCEPT ![p] = maximum], retiring, stopping)
    /\ UNCHANGED asked

\* Only a pull program has its unread output cancelled.
Stop(p) ==
    /\ Call
    /\ p \in running
    /\ asked' = asked \cup {p}
    /\ Deliver(reader, retiring, stopping \cup ({p} \cap Pull))

\* The plugin is withdrawn: its readers are answered with a failure.
Forget(plugin) ==
    LET gone == {p \in running : Owner[p] = plugin}
    IN  /\ Call
        /\ asked' = asked \cup gone
        /\ Deliver([p \in Programs |-> IF p \in gone THEN 0 ELSE reader[p]], retiring \cup gone, stopping)

\* Mutant of Close: the producers that wait are not woken.
CloseQuietly ==
    /\ host = "open"
    /\ host' = "closing" /\ closed' = TRUE
    /\ box' = [p \in Programs |-> <<>>] /\ offset' = [p \in Programs |-> 0]
    /\ held' = [p \in Programs |-> 0] /\ exit' = {}
    /\ asleep' = asleep
    /\ asked' = asked \cup running
    /\ UNCHANGED <<bytes, chunks, posted, thread, hand, written, running, reader, retiring, stopping, calls, tasks, told, reported>>

\* The destructor closes the mailbox and asks every program to end.
Close ==
    /\ host = "open"
    /\ host' = "closing" /\ closed' = TRUE
    /\ box' = [p \in Programs |-> <<>>] /\ offset' = [p \in Programs |-> 0]
    /\ held' = [p \in Programs |-> 0] /\ exit' = {}
    /\ Ready
    /\ asked' = asked \cup running
    /\ UNCHANGED <<bytes, chunks, posted, thread, hand, written, running, reader, retiring, stopping, calls, tasks, told, reported>>

\* It joined the thread of each.
Closed ==
    /\ host = "closing"
    /\ \A p \in running : thread[p] = "ended"
    /\ host' = "closed" /\ running' = {}
    /\ UNCHANGED <<mailbox, serving, reader, retiring, stopping, calls, tasks, told, reported>>

-----------------------------------------------------------------------------
Next ==
    \/ \E p \in Programs :
        \/ \E n \in 1..MaxPiece : ReadStream(p, n)
        \/ Sleep(p) \/ Put(p) \/ Drop(p) \/ Exited(p)
        \/ Start(p) \/ Stop(p)
        \/ \E maximum \in Maxima : Read(p, maximum)
    \/ \E plugin \in Plugins : Forget(plugin)
    \/ RunDelivery \/ Close \/ Closed

\* The thread of a program runs while it has something to put or to reap: a
\* program that was asked to end is killed once its grace passed, one that was
\* not may run for ever, and a reader may never ask again.
Serve(p) == Sleep(p) \/ Put(p) \/ Drop(p) \/ (p \in asked /\ Exited(p))

Fairness == (\A p \in Programs : WF_vars(Serve(p))) /\ WF_vars(RunDelivery \/ Closed)

Spec == Init /\ [][Next]_vars
FairSpec == Spec /\ Fairness

-----------------------------------------------------------------------------
(* Properties.                                                             *)

TypeOK ==
    /\ \A p \in Programs : \A i \in 1..Len(box[p]) : box[p][i].stream \in Streams /\ box[p][i].units # <<>>
    /\ thread \in [Programs -> {"none", "serving", "ended"}]
    /\ reader \in [Programs -> {0} \cup Maxima]
    /\ asleep \subseteq {p \in Programs : hand[p] # None}
    /\ stopping \subseteq Pull /\ exit \cup retiring \cup running \subseteq Programs
    /\ tasks \in Nat /\ posted \in BOOLEAN

\* The counters of the mailbox are the bytes and chunks it holds, a chunk read in
\* part counting whole, and stay inside their bounds; a pull program keeps to its own.
Accounted ==
    host = "open" =>
        /\ \A p \in Programs :
            /\ held[p] = UpTo(p)[Len(box[p])] /\ offset[p] \in 0..held[p]
            /\ p \in Pull => held[p] <= MaxPull /\ Len(box[p]) <= MaxPullChunks
        /\ bytes = Sum(held) /\ bytes <= MaxBytes
        /\ chunks = Sum([p \in Programs |-> Len(box[p])]) /\ chunks <= MaxChunks

\* A plugin is told what its program wrote, each byte once, on its stream and in
\* the order it was written.
InOrder ==
    \A p \in Programs : \A i \in 1..Len(told[p]) : told[p][i] = <<Writes[p][i], i>>

\* "the end of a program comes after its last output": unless its output was
\* cancelled, all of it was told before its end.
EndLast ==
    \A p \in reported \ (Pull \cap asked) : Len(told[p]) = written[p]

\* Nothing is forgotten in the mailbox: what may be delivered has a delivery queued,
\* and no producer sleeps while its piece fits.
NoLostWake ==
    host = "open" =>
        /\ Taken(reader, retiring, stopping) # {} => tasks > 0
        /\ \A p \in asleep : ~Fits(p)

\* What programs write is accounted for and on its way, each byte once, in order, the end last.
Delivered == TypeOK /\ Accounted /\ InOrder /\ EndLast /\ NoLostWake

\* A reader is answered once its program wrote something or was asked to end.
ReadsAnswered ==
    \A p \in Pull :
        reader[p] # 0 /\ (Arrived(p) \/ hand[p] # None \/ p \in asked) ~> reader[p] = 0 \/ host # "open"

\* "A stopped program still reports its end, which is when it is released."
StopReports ==
    \A p \in Programs : p \in asked ~> p \notin running \/ host # "open"

\* "host shutdown closes the mailbox and releases every producer before waiting for
\* the processes to end".
CloseEnds == host = "closing" ~> host = "closed"
=============================================================================
