--------------------------- MODULE HttpHost_proofs ---------------------------
(***************************************************************************)
(* Proofs about HttpHost: every server is always in the hand of somebody   *)
(* who will end it, and no request a registered server answers is lost,    *)
(* doubled or overtaken.                                                   *)
(***************************************************************************)
EXTENDS HttpHost, FiniteSetTheorems, SequenceTheorems, TLAPS

QueueTasks == {Deliver} \cup [kind : {"register", "erase"}, server : Servers]
Events == [kind : {"reply"}, server : Servers, ok : BOOLEAN]
            \cup [kind : {"requests"}, server : Servers, records : Seq(Nat)]

\* The types of the queues, which the invariant of the host needs as well.
Types ==
    /\ TypeOK
    /\ ready \in Seq(QueueTasks) /\ queue \in Seq(QueueTasks)
    /\ events \in Seq(Events)
    /\ pending \in [Servers -> Seq(Nat)] /\ heard \in [Servers -> Seq(Nat)]
    /\ answered \in [Servers -> Nat] /\ early \in [Servers -> Nat]

\* The main-thread queue, what the running drain took of it first.
Whole == ready \o queue

Waits(kind, s) == Task(kind, s) \in tasks
Erasure(s) == Task("erase", s)

NoReply(s) == \A i \in 1..Len(events) : ~(events[i].kind = "reply" /\ events[i].server = s)
NoBatch(s) == \A i \in 1..Len(events) : ~IsBatch(s, i)

\* What the stages of the product leave.
Stages ==
    /\ stage # "serving" => servers = {} /\ retired = {} /\ ready = <<>> /\ events = <<>>
    /\ stage \in {"joined", "gone"} => tasks = {}
    /\ stage = "gone" => queue = <<>>

\* A server no plugin asked for yet.
Fresh(s) ==
    settled[s] = "none" =>
        /\ s \notin handlers \cup starting \cup servers \cup retired
        /\ \A kind \in Kinds : ~Waits(kind, s)
        /\ ~Queued(Registration(s)) /\ ~Queued(Erasure(s))
        /\ listener[s] = "none" /\ NoReply(s)

\* A server is at one place of its way at a time: a worker binds it, posts its
\* registration, the registration waits, it is registered, a worker joins it, or what
\* is left of it waits to be erased.
Placed(s) ==
    /\ Waits("bind", s) => listener[s] = "none" /\ ~Waits("post", s)
    /\ Waits("post", s) => listener[s] \in {"open", "failed"} /\ ~Queued(Registration(s))
    /\ Waits("bind", s) \/ Waits("post", s) \/ Queued(Registration(s)) =>
          ~Waits("stop", s) /\ ~Queued(Erasure(s)) /\ s \notin servers \cup retired /\ NoReply(s)
    /\ Queued(Registration(s)) => listener[s] \in {"open", "failed"} /\ ~Waits("bind", s)
    /\ s \in servers =>
          /\ listener[s] = "open" /\ s \in handlers /\ OwnerOf[s] \in registered
          /\ ~Waits("stop", s) /\ s \notin starting
    /\ Waits("stop", s) => listener[s] = (IF stage = "serving" THEN "closing" ELSE "ended") /\ s \notin starting
    /\ Queued(Erasure(s)) => listener[s] = "ended"
    /\ listener[s] = "open" => Waits("post", s) \/ Queued(Registration(s)) \/ s \in servers
    /\ listener[s] = "closing" => Waits("stop", s) /\ stage = "serving" /\ s \in retired

\* A registration waits once.
Once == \A i, j \in 1..Len(Whole) : Whole[i] = Whole[j] /\ Whole[i].kind = "register" => i = j

\* What Lua knows of a server, and what it will be told.
Known(s) ==
    stage = "serving" =>
        /\ s \in starting =>
              /\ s \in handlers /\ settled[s] = "pending"
              /\ Waits("bind", s) \/ Waits("post", s) \/ Queued(Registration(s))
        /\ s \in handlers /\ settled[s] = "served" => s \in servers
        /\ \A i \in 1..Len(events) :
              events[i].kind = "reply" /\ events[i].server = s =>
                  (s \in handlers /\ events[i].ok => s \in servers) /\ (s \in servers => events[i].ok)

\* What a server that is not registered yet left with Lua: nothing.
Unheard(s) ==
    /\ listener[s] \in {"none", "open"} /\ s \notin servers => heard[s] = <<>> /\ NoBatch(s)
    /\ listener[s] = "none" => answered[s] = 0 /\ pending[s] = <<>>

\* What an open server answered is on its way, in order and up to the last.
Flows(s) ==
    listener[s] = "open" /\ stage = "serving" =>
        /\ InOrder(s)
        /\ \E first \in 1..(answered[s] + 1) :
              Requests(s) = first..answered[s] /\ (s \in servers => first <= early[s] + 1)

\* A mailbox that is not empty has a delivery to come.
Posted ==
    stage = "serving" => /\ posted => Queued(Deliver)
                         /\ \A s \in Servers : pending[s] # <<>> => posted

HInv ==
    /\ Types /\ Stages /\ Once /\ Posted
    /\ \A s \in Servers : Fresh(s) /\ Placed(s) /\ Known(s) /\ Unheard(s) /\ Flows(s)

-----------------------------------------------------------------------------
(***************************************************************************)
(* The main-thread queue: Whole is posted to at its end and run from its   *)
(* head, and a drain does not change it.                                   *)
(***************************************************************************)

\* What is appended to a sequence is in it, and nothing else is new.
LEMMA ContainsAppend ==
    ASSUME NEW S, NEW w \in Seq(S), NEW t \in S, NEW x
    PROVE  Contains(Append(w, t), x) <=> Contains(w, x) \/ x = t
<1>1. /\ Len(Append(w, t)) = Len(w) + 1
      /\ \A i \in 1..Len(w) : Append(w, t)[i] = w[i]
      /\ Append(w, t)[Len(w) + 1] = t
  BY AppendProperties
<1>2. Len(w) \in Nat
  BY LenProperties
<1> QED  BY <1>1, <1>2 DEF Contains

\* What is in a sequence is its head or in its tail.
LEMMA ContainsTail ==
    ASSUME NEW S, NEW w \in Seq(S), w # <<>>, NEW x
    PROVE  Contains(w, x) <=> x = Head(w) \/ Contains(Tail(w), x)
<1>1. /\ Len(Tail(w)) = Len(w) - 1
      /\ \A i \in 1..Len(Tail(w)) : Tail(w)[i] = w[i + 1]
  BY HeadTailProperties
<1>2. Len(w) \in Nat \ {0} /\ Head(w) = w[1]
  BY EmptySeq
<1>3. ASSUME Contains(w, x) PROVE x = Head(w) \/ Contains(Tail(w), x)
  <2>1. PICK i \in 1..Len(w) : w[i] = x
    BY <1>3 DEF Contains
  <2>2. CASE i = 1
    BY <2>1, <2>2, <1>2
  <2>3. CASE i # 1
    <3>1. i - 1 \in 1..Len(Tail(w)) /\ Tail(w)[i - 1] = x
      BY <2>1, <2>3, <1>1, <1>2
    <3> QED  BY <3>1 DEF Contains
  <2> QED  BY <2>2, <2>3
<1>4. ASSUME Contains(Tail(w), x) PROVE Contains(w, x)
  <2>1. PICK i \in 1..Len(Tail(w)) : Tail(w)[i] = x
    BY <1>4 DEF Contains
  <2>2. i + 1 \in 1..Len(w) /\ w[i + 1] = x
    BY <2>1, <1>1, <1>2
  <2> QED  BY <2>2 DEF Contains
<1>5. Contains(w, Head(w))
  <2>1. 1 \in 1..Len(w) /\ w[1] = Head(w)
    BY <1>2
  <2> QED  BY <2>1 DEF Contains
<1> QED  BY <1>3, <1>4, <1>5

\* What of the queue a step that posts a task leaves: the task is in it, and a
\* registration that was not is in it once.
Posts(t) ==
    /\ ready' \in Seq(QueueTasks) /\ queue' \in Seq(QueueTasks)
    /\ \A x : Queued(x)' <=> Queued(x) \/ x = t
    /\ Once /\ (t.kind = "register" => ~Queued(t)) => Once'

\* A task is posted at the end of the queue.
LEMMA PostsTask ==
    ASSUME ready \in Seq(QueueTasks), queue \in Seq(QueueTasks), NEW t \in QueueTasks,
           queue' = Append(queue, t), ready' = ready
    PROVE  Posts(t)
<1>1. queue' \in Seq(QueueTasks)
  BY AppendProperties
<1>2. Whole \in Seq(QueueTasks) /\ Whole' = Append(Whole, t)
  <2>1. queue' = queue \o <<t>> /\ <<t>> \in Seq(QueueTasks)
    BY AppendIsConcat
  <2>2. ready \o queue \in Seq(QueueTasks)
    BY ConcatProperties
  <2>3. ready \o (queue \o <<t>>) = (ready \o queue) \o <<t>>
    BY <2>1, ConcatAssociative
  <2>4. Append(ready \o queue, t) = (ready \o queue) \o <<t>>
    BY <2>2, AppendIsConcat
  <2> QED  BY <2>1, <2>2, <2>3, <2>4 DEF Whole
<1>3. \A x : Queued(x)' <=> Queued(x) \/ x = t
  <2>1. \A x : Contains(Append(Whole, t), x) <=> Contains(Whole, x) \/ x = t
    BY <1>2, ContainsAppend
  <2>2. \A x : /\ Queued(x) <=> Contains(Whole, x)
               /\ Queued(x)' <=> Contains(Append(Whole, t), x)
    BY <1>2 DEF Queued, Contains, Whole
  <2> QED  BY <2>1, <2>2
<1>4. ASSUME Once, t.kind = "register" => ~Queued(t) PROVE Once'
  <2>1. /\ Len(Whole') = Len(Whole) + 1 /\ Len(Whole) \in Nat
        /\ \A i \in 1..Len(Whole) : Whole'[i] = Whole[i]
        /\ Whole'[Len(Whole) + 1] = t
    BY <1>2, AppendProperties, LenProperties
  <2>2. t.kind = "register" => \A i \in 1..Len(Whole) : Whole[i] # t
    BY <1>4 DEF Queued, Contains, Whole
  <2> QED  BY <1>4, <2>1, <2>2 DEF Once
<1> QED  BY <1>1, <1>3, <1>4 DEF Posts

\* What of the queue a step that runs the first task of the drain leaves: all but
\* that task, and no second copy of a registration.
Runs(t) ==
    /\ t \in QueueTasks /\ Queued(t)
    /\ ready' \in Seq(QueueTasks) /\ queue' \in Seq(QueueTasks)
    /\ \A x : Queued(x)' => Queued(x)
    /\ \A x : Queued(x) => x = t \/ Queued(x)'
    /\ Once => Once' /\ \A x : x = t /\ x.kind = "register" => ~Queued(x)'

\* The drain runs its tasks from the first.
LEMMA RunsTask ==
    ASSUME ready \in Seq(QueueTasks), queue \in Seq(QueueTasks), ready # <<>>,
           ready' = Tail(ready), queue' = queue
    PROVE  Runs(Head(ready))
<1> DEFINE t == Head(ready)
<1>1. t \in QueueTasks /\ Tail(ready) \in Seq(QueueTasks)
  BY HeadTailProperties
<1>2. /\ Whole \in Seq(QueueTasks) /\ Whole' \in Seq(QueueTasks) /\ Whole # <<>>
      /\ Head(Whole) = t /\ Whole' = Tail(Whole)
  <2>1. ready \o queue \in Seq(QueueTasks) /\ Len(ready) \in Nat \ {0}
        /\ Len(queue) \in Nat
        /\ Len(ready \o queue) = Len(ready) + Len(queue)
        /\ \A i \in 1..Len(ready) + Len(queue) :
              (ready \o queue)[i] = IF i <= Len(ready) THEN ready[i] ELSE queue[i - Len(ready)]
    BY ConcatProperties, EmptySeq, LenProperties
  <2>2. ready \o queue # <<>>
    BY <2>1
  <2>3. Head(ready \o queue) = Head(ready)
    BY <2>1
  <2>4. /\ Len(Tail(ready)) = Len(ready) - 1
        /\ \A i \in 1..Len(Tail(ready)) : Tail(ready)[i] = ready[i + 1]
    BY HeadTailProperties
  <2>5. /\ Tail(ready) \o queue \in Seq(QueueTasks)
        /\ Len(Tail(ready) \o queue) = Len(ready) - 1 + Len(queue)
        /\ \A i \in 1..Len(ready) - 1 + Len(queue) :
              (Tail(ready) \o queue)[i] = IF i <= Len(ready) - 1 THEN Tail(ready)[i] ELSE queue[i - (Len(ready) - 1)]
    BY <1>1, <2>4, ConcatProperties
  <2>6. /\ Tail(ready \o queue) \in Seq(QueueTasks)
        /\ Len(Tail(ready \o queue)) = Len(ready) + Len(queue) - 1
        /\ \A i \in 1..Len(ready) + Len(queue) - 1 : Tail(ready \o queue)[i] = (ready \o queue)[i + 1]
    BY <2>1, <2>2, HeadTailProperties
  <2>7. \A i \in 1..Len(ready) + Len(queue) - 1 : Tail(ready \o queue)[i] = (Tail(ready) \o queue)[i]
    <3> TAKE i \in 1..Len(ready) + Len(queue) - 1
    <3>1. Tail(ready \o queue)[i] = IF i + 1 <= Len(ready) THEN ready[i + 1] ELSE queue[i + 1 - Len(ready)]
      BY <2>1, <2>6
    <3>2. i \in 1..Len(ready) - 1 + Len(queue) /\ i - (Len(ready) - 1) = i + 1 - Len(ready)
      BY <2>1
    <3>3. CASE i <= Len(ready) - 1
      BY <3>1, <3>2, <3>3, <2>1, <2>4, <2>5
    <3>4. CASE ~(i <= Len(ready) - 1)
      BY <3>1, <3>2, <3>4, <2>1, <2>5
    <3> QED  BY <3>3, <3>4
  <2>8. Tail(ready \o queue) = Tail(ready) \o queue
    BY <2>1, <2>5, <2>6, <2>7, SeqEqual
  <2> QED  BY <2>1, <2>2, <2>3, <2>5, <2>8 DEF Whole
<1>3. \A x : Queued(x) <=> x = t \/ Queued(x)'
  <2>1. \A x : Contains(Whole, x) <=> x = t \/ Contains(Tail(Whole), x)
    BY <1>2, ContainsTail
  <2>2. \A x : /\ Queued(x) <=> Contains(Whole, x)
               /\ Queued(x)' <=> Contains(Tail(Whole), x)
    BY <1>2 DEF Queued, Contains, Whole
  <2> QED  BY <2>1, <2>2
<1>4. ASSUME Once PROVE Once' /\ \A x : x = t /\ x.kind = "register" => ~Queued(x)'
  <2>1. /\ Len(Whole') = Len(Whole) - 1
        /\ \A i \in 1..Len(Whole') : Whole'[i] = Whole[i + 1]
    BY <1>2, HeadTailProperties
  <2>2. Len(Whole) \in Nat \ {0} /\ Len(Whole') \in Nat /\ Whole[1] = t
    BY <1>2, EmptySeq, LenProperties
  <2>3. Once'
    <3>1. ASSUME NEW i \in 1..Len(Whole'), NEW j \in 1..Len(Whole'),
                 Whole'[i] = Whole'[j], Whole'[i].kind = "register"
          PROVE  i = j
      <4>1. i + 1 \in 1..Len(Whole) /\ j + 1 \in 1..Len(Whole) /\ Whole[i + 1] = Whole[j + 1]
            /\ Whole[i + 1].kind = "register"
        BY <3>1, <2>1, <2>2
      <4>2. i + 1 = j + 1
        BY <4>1, <1>4 DEF Once
      <4> QED  BY <4>2
    <3> QED  BY <3>1 DEF Once
  <2>4. ASSUME NEW x, x = t, x.kind = "register", Queued(x)' PROVE FALSE
    <3>1. PICK i \in 1..Len(Whole') : Whole'[i] = x
      BY <2>4 DEF Queued, Contains, Whole
    <3>2. i + 1 \in 1..Len(Whole) /\ Whole[i + 1] = Whole[1] /\ 1 \in 1..Len(Whole)
      BY <3>1, <2>1, <2>2, <2>4
    <3>3. i + 1 = 1
      BY <3>2, <2>2, <2>4, <1>4 DEF Once
    <3> QED  BY <3>3, <2>2
  <2> QED  BY <2>3, <2>4
<1> QED  BY <1>1, <1>3, <1>4 DEF Runs

\* A drain takes the whole queue, which stays what it was.
LEMMA DrainsWhole ==
    ASSUME queue \in Seq(QueueTasks), ready = <<>>, ready' = queue, queue' = <<>>
    PROVE  Whole' = Whole
BY ConcatEmptySeq DEF Whole

-----------------------------------------------------------------------------
(***************************************************************************)
(* The pieces of a server, as a function of their place: what the steps    *)
(* that move, merge and extend them keep of the order and of the requests. *)
(***************************************************************************)

\* The numbers in the pieces F[0], ..., F[n] grow, and which they are.
Growing(F, n) ==
    \A k, l \in 0..n : \A i \in 1..Len(F[k]), j \in 1..Len(F[l]) :
        k < l \/ (k = l /\ i < j) => F[k][i] < F[l][j]
Numbers(F, n) == UNION {{F[k][i] : i \in 1..Len(F[k])} : k \in 0..n}

\* A number is in the pieces at a place and an index.
LEMMA NumberPlace ==
    ASSUME NEW F, NEW n, NEW x
    PROVE  x \in Numbers(F, n) <=> \E k \in 0..n : \E i \in 1..Len(F[k]) : x = F[k][i]
BY DEF Numbers

\* The pieces of F are those of G, put at other places in the same order and with
\* nothing between them.
Moved(F, m, G, n, h) ==
    /\ h \in [0..m -> 0..n] /\ \A k, l \in 0..m : k < l => h[k] < h[l]
    /\ \A k \in 0..m : G[h[k]] = F[k]
    /\ \A l \in 0..n : (\E k \in 0..m : h[k] = l) \/ G[l] = <<>>

\* Pieces that are moved hold the same numbers in the same order.
LEMMA PiecesMoved ==
    ASSUME NEW m \in Nat, NEW n \in Nat, NEW F, NEW G, NEW h, Moved(F, m, G, n, h)
    PROVE  (Growing(F, m) => Growing(G, n)) /\ Numbers(G, n) = Numbers(F, m)
<1> USE DEF Moved
<1>1. \A l \in 0..n : \A j \in 1..Len(G[l]) : \E k \in 0..m : h[k] = l
  <2>1. Len(<<>>) = 0
    BY EmptySeq
  <2> QED  BY <2>1
<1>2. ASSUME Growing(F, m) PROVE Growing(G, n)
  <2>1. ASSUME NEW k \in 0..n, NEW l \in 0..n, NEW i \in 1..Len(G[k]), NEW j \in 1..Len(G[l]),
               k < l \/ (k = l /\ i < j)
        PROVE  G[k][i] < G[l][j]
    <3>1. PICK a \in 0..m : h[a] = k
      BY <1>1
    <3>2. PICK b \in 0..m : h[b] = l
      BY <1>1
    <3>3. G[k] = F[a] /\ G[l] = F[b]
      BY <3>1, <3>2
    <3>4. a < b \/ (a = b /\ i < j)
      <4>1. CASE k < l
        <5>1. ~(b < a) /\ a # b
          BY <3>1, <3>2, <4>1
        <5> QED  BY <5>1
      <4>2. CASE k = l /\ i < j
        <5>1. ~(a < b) /\ ~(b < a)
          BY <3>1, <3>2, <4>2
        <5> QED  BY <5>1, <4>2
      <4> QED  BY <4>1, <4>2, <2>1
    <3> QED  BY <3>3, <3>4, <1>2 DEF Growing
  <2> QED  BY <2>1 DEF Growing
<1>3. Numbers(G, n) \subseteq Numbers(F, m)
  <2> SUFFICES ASSUME NEW x \in Numbers(G, n) PROVE x \in Numbers(F, m)
    OBVIOUS
  <2>1. PICK l \in 0..n : \E j \in 1..Len(G[l]) : x = G[l][j]
    BY DEF Numbers
  <2>2. PICK k \in 0..m : h[k] = l
    BY <1>1, <2>1
  <2>3. G[l] = F[k]
    BY <2>2
  <2> QED  BY <2>1, <2>3, NumberPlace
<1>4. Numbers(F, m) \subseteq Numbers(G, n)
  <2> SUFFICES ASSUME NEW x \in Numbers(F, m) PROVE x \in Numbers(G, n)
    OBVIOUS
  <2>1. PICK k \in 0..m : \E i \in 1..Len(F[k]) : x = F[k][i]
    BY DEF Numbers
  <2>2. h[k] \in 0..n /\ G[h[k]] = F[k]
    OBVIOUS
  <2> QED  BY <2>1, <2>2, NumberPlace
<1> QED  BY <1>2, <1>3, <1>4

\* Where the number at place k and index i of merged pieces was: the first of them
\* had L numbers.
PlaceOf(k, i, L) == IF k > 0 THEN k + 1 ELSE IF i <= L THEN 0 ELSE 1
IndexOf(k, i, L) == IF k > 0 \/ i <= L THEN i ELSE i - L

\* Merging keeps the order of places and indices.
LEMMA OrderKept ==
    ASSUME NEW k \in Nat, NEW l \in Nat, NEW i \in Nat, NEW j \in Nat, NEW L \in Nat,
           k < l \/ (k = l /\ i < j)
    PROVE  \/ PlaceOf(k, i, L) < PlaceOf(l, j, L)
           \/ PlaceOf(k, i, L) = PlaceOf(l, j, L) /\ IndexOf(k, i, L) < IndexOf(l, j, L)
BY DEF PlaceOf, IndexOf

\* The first two pieces become one.
LEMMA PiecesMerged ==
    ASSUME NEW n \in Nat, NEW F \in [0..n + 1 -> Seq(Nat)], NEW G \in [0..n -> Seq(Nat)],
           G[0] = F[0] \o F[1],
           \A k \in 1..n : G[k] = F[k + 1]
    PROVE  (Growing(F, n + 1) => Growing(G, n)) /\ Numbers(G, n) = Numbers(F, n + 1)
<1> DEFINE L == Len(F[0])
           From(k, i) == PlaceOf(k, i, L)
           At(k, i) == IndexOf(k, i, L)
<1>0. 0 \in 0..n + 1 /\ 1 \in 0..n + 1 /\ 0 \in 0..n
  OBVIOUS
<1>1. /\ L \in Nat /\ Len(F[1]) \in Nat /\ Len(G[0]) = L + Len(F[1])
      /\ \A i \in 1..L + Len(F[1]) : G[0][i] = IF i <= L THEN F[0][i] ELSE F[1][i - L]
  <2>1. F[0] \in Seq(Nat) /\ F[1] \in Seq(Nat)
    BY <1>0
  <2>2. /\ Len(F[0] \o F[1]) = L + Len(F[1])
        /\ \A i \in 1..L + Len(F[1]) : (F[0] \o F[1])[i] = IF i <= L THEN F[0][i] ELSE F[1][i - L]
    BY ZenonT(30), <2>1, ConcatProperties
  <2>3. L \in Nat /\ Len(F[1]) \in Nat
    BY <2>1, LenProperties
  <2> QED  BY <2>2, <2>3
<1>2. \A k \in 0..n : \A i \in 1..Len(G[k]) :
          /\ From(k, i) \in 0..n + 1 /\ At(k, i) \in 1..Len(F[From(k, i)])
          /\ G[k][i] = F[From(k, i)][At(k, i)]
  <2> TAKE k \in 0..n
  <2> TAKE i \in 1..Len(G[k])
  <2>1. CASE k > 0
    <3>1. k \in 1..n /\ k + 1 \in 0..n + 1 /\ G[k] = F[k + 1]
      BY <2>1
    <3> QED  BY <2>1, <3>1 DEF PlaceOf, IndexOf
  <2>2. CASE k = 0
    <3>1. i \in 1..L + Len(F[1])
      BY <1>1, <2>2
    <3>2. CASE i <= L
      BY <3>1, <3>2, <2>2, <1>0, <1>1 DEF PlaceOf, IndexOf
    <3>3. CASE ~(i <= L)
      BY <3>1, <3>3, <2>2, <1>0, <1>1 DEF PlaceOf, IndexOf
    <3> QED  BY <3>2, <3>3
  <2> QED  BY <2>1, <2>2
<1>3. ASSUME Growing(F, n + 1) PROVE Growing(G, n)
  <2>1. ASSUME NEW k \in 0..n, NEW l \in 0..n, NEW i \in 1..Len(G[k]), NEW j \in 1..Len(G[l]),
               k < l \/ (k = l /\ i < j)
        PROVE  G[k][i] < G[l][j]
    <3>1. From(k, i) < From(l, j) \/ (From(k, i) = From(l, j) /\ At(k, i) < At(l, j))
      <4>1. i \in Nat /\ j \in Nat /\ k \in Nat /\ l \in Nat /\ L \in Nat
        BY <1>1
      <4> HIDE DEF L
      <4> QED  BY <2>1, <4>1, OrderKept
    <3>2. G[k][i] = F[From(k, i)][At(k, i)] /\ G[l][j] = F[From(l, j)][At(l, j)]
      BY <1>2
    <3>3. /\ From(k, i) \in 0..n + 1 /\ At(k, i) \in 1..Len(F[From(k, i)])
          /\ From(l, j) \in 0..n + 1 /\ At(l, j) \in 1..Len(F[From(l, j)])
      BY <1>2
    <3> HIDE DEF From, At
    <3> QED  BY <3>1, <3>2, <3>3, <1>3 DEF Growing
  <2> QED  BY <2>1 DEF Growing
<1>4. Numbers(G, n) \subseteq Numbers(F, n + 1)
  <2> SUFFICES ASSUME NEW x \in Numbers(G, n) PROVE x \in Numbers(F, n + 1)
    OBVIOUS
  <2>1. PICK k \in 0..n : \E i \in 1..Len(G[k]) : x = G[k][i]
    BY DEF Numbers
  <2>2. PICK i \in 1..Len(G[k]) : x = G[k][i]
    BY <2>1
  <2>3. /\ From(k, i) \in 0..n + 1 /\ At(k, i) \in 1..Len(F[From(k, i)])
        /\ x = F[From(k, i)][At(k, i)]
    BY <1>2, <2>2
  <2> HIDE DEF From, At
  <2> QED  BY <2>3, NumberPlace
<1>5. Numbers(F, n + 1) \subseteq Numbers(G, n)
  <2> SUFFICES ASSUME NEW x \in Numbers(F, n + 1) PROVE x \in Numbers(G, n)
    OBVIOUS
  <2>1. PICK k \in 0..n + 1 : \E i \in 1..Len(F[k]) : x = F[k][i]
    BY DEF Numbers
  <2>2. PICK i \in 1..Len(F[k]) : x = F[k][i]
    BY <2>1
  <2>3. CASE k = 0
    <3>1. i \in 1..Len(G[0]) /\ x = G[0][i]
      BY <2>2, <2>3, <1>1
    <3> QED  BY <3>1, <1>0, NumberPlace
  <2>4. CASE k = 1
    <3>1. i \in 1..Len(F[1]) /\ x = F[1][i]
      BY <2>2, <2>4
    <3>2. i + L \in 1..L + Len(F[1]) /\ ~(i + L <= L) /\ (i + L) - L = i
      <4>1. i \in Nat /\ 1 <= i /\ i <= Len(F[1]) /\ L \in Nat /\ Len(F[1]) \in Nat
        BY <3>1, <1>1
      <4> HIDE DEF L
      <4> QED  BY <4>1
    <3>3. i + L \in 1..Len(G[0]) /\ x = G[0][i + L]
      BY <3>1, <3>2, <1>1
    <3> QED  BY <3>3, <1>0, NumberPlace
  <2>5. CASE k > 1
    <3>1. k - 1 \in 0..n /\ G[k - 1] = F[k]
      BY <2>5
    <3> QED  BY <3>1, <2>1, NumberPlace
  <2> QED  BY <2>3, <2>4, <2>5
<1> QED  BY <1>3, <1>4, <1>5

\* The last piece of F is given a number above all others.
Extended(F, G, n, x) ==
    /\ F \in [0..n -> Seq(Nat)] /\ G \in [0..n -> Seq(Nat)]
    /\ G[n] = Append(F[n], x)
    /\ \A k \in 0..n : k # n => G[k] = F[k]
    /\ \A y \in Numbers(F, n) : y < x

\* Pieces that are extended stay in order.
LEMMA PiecesExtended ==
    ASSUME NEW n \in Nat, NEW F, NEW G, NEW x \in Nat, Extended(F, G, n, x)
    PROVE  (Growing(F, n) => Growing(G, n)) /\ Numbers(G, n) = Numbers(F, n) \cup {x}
<1> USE DEF Extended
<1> DEFINE last == Len(F[n])
<1>1. /\ Len(F[n]) \in Nat /\ Len(G[n]) = Len(F[n]) + 1
      /\ \A i \in 1..Len(F[n]) : G[n][i] = F[n][i]
      /\ G[n][Len(F[n]) + 1] = x
  <2>1. n \in 0..n
    OBVIOUS
  <2>2. F[n] \in Seq(Nat)
    BY <2>1
  <2> QED  BY <2>2, AppendProperties, LenProperties
<1>2. \A k \in 0..n : \A i \in 1..Len(G[k]) :
          \/ i \in 1..Len(F[k]) /\ G[k][i] = F[k][i]
          \/ k = n /\ i = Len(F[n]) + 1 /\ G[k][i] = x
  <2> SUFFICES ASSUME NEW k \in 0..n, NEW i \in 1..Len(G[k])
               PROVE  \/ i \in 1..Len(F[k]) /\ G[k][i] = F[k][i]
                      \/ k = n /\ i = Len(F[n]) + 1 /\ G[k][i] = x
    OBVIOUS
  <2>1. CASE k = n
    <3>1. i \in 1..last + 1 /\ last \in Nat
      BY <2>1, <1>1
    <3>2. i \in 1..last \/ i = last + 1
      <4> HIDE DEF last
      <4> QED  BY <3>1
    <3> QED  BY <2>1, <3>2, <1>1
  <2>2. CASE k # n
    BY <2>2
  <2> QED  BY <2>1, <2>2
<1>3. \A k \in 0..n : \A i \in 1..Len(F[k]) : F[k][i] < x
  BY NumberPlace
<1>4. ASSUME Growing(F, n) PROVE Growing(G, n)
  <2>1. ASSUME NEW k \in 0..n, NEW l \in 0..n, NEW i \in 1..Len(G[k]), NEW j \in 1..Len(G[l]),
               k < l \/ (k = l /\ i < j)
        PROVE  G[k][i] < G[l][j]
    <3>1. i \in 1..Len(F[k]) /\ G[k][i] = F[k][i]
      <4>1. CASE k = n
        <5>1. k = l /\ i < j
          BY <2>1, <4>1
        <5>2. i \in 1..last + 1 /\ j \in 1..last + 1 /\ last \in Nat
          BY <5>1, <4>1, <1>1
        <5>3. i \in 1..last
          <6> HIDE DEF last
          <6> QED  BY <5>1, <5>2
        <5> QED  BY <5>3, <4>1, <1>1
      <4>2. CASE k # n
        BY <4>2
      <4> QED  BY <4>1, <4>2
    <3>2. CASE j \in 1..Len(F[l]) /\ G[l][j] = F[l][j]
      BY <2>1, <3>1, <3>2, <1>4 DEF Growing
    <3>3. CASE G[l][j] = x
      BY <3>1, <3>3, <1>3
    <3> QED  BY <3>2, <3>3, <1>2
  <2> QED  BY <2>1 DEF Growing
<1>5. Numbers(G, n) \subseteq Numbers(F, n) \cup {x}
  <2> SUFFICES ASSUME NEW y \in Numbers(G, n) PROVE y \in Numbers(F, n) \cup {x}
    OBVIOUS
  <2>1. PICK k \in 0..n : \E i \in 1..Len(G[k]) : y = G[k][i]
    BY DEF Numbers
  <2>2. PICK i \in 1..Len(G[k]) : y = G[k][i]
    BY <2>1
  <2>3. CASE i \in 1..Len(F[k]) /\ G[k][i] = F[k][i]
    BY <2>2, <2>3, NumberPlace
  <2>4. CASE G[k][i] = x
    BY <2>2, <2>4
  <2> QED  BY <2>3, <2>4, <1>2
<1>6. Numbers(F, n) \subseteq Numbers(G, n)
  <2> SUFFICES ASSUME NEW y \in Numbers(F, n) PROVE y \in Numbers(G, n)
    OBVIOUS
  <2>1. PICK k \in 0..n : \E i \in 1..Len(F[k]) : y = F[k][i]
    BY DEF Numbers
  <2>2. \A i \in 1..Len(F[k]) : i \in 1..Len(G[k]) /\ G[k][i] = F[k][i]
    <3>1. CASE k = n
      <4>1. \A i \in 1..last : i \in 1..last + 1
        <5>1. last \in Nat
          BY <1>1
        <5> HIDE DEF last
        <5> QED  BY <5>1
      <4> QED  BY <3>1, <4>1, <1>1
    <3>2. CASE k # n
      BY <3>2
    <3> QED  BY <3>1, <3>2
  <2> QED  BY <2>1, <2>2, NumberPlace
<1>7. x \in Numbers(G, n)
  <2>1. n \in 0..n /\ Len(F[n]) + 1 \in 1..Len(G[n])
    BY <1>1
  <2> QED  BY <2>1, <1>1, NumberPlace
<1> QED  BY <1>4, <1>5, <1>6, <1>7

-----------------------------------------------------------------------------
(***************************************************************************)
(* A delivery appends the batches of the registered servers, each once and *)
(* in some order.                                                          *)
(***************************************************************************)

\* The sequence of a finite set has every element of it once.
LEMMA SequenceOfSet ==
    ASSUME NEW S, IsFiniteSet(S)
    PROVE  /\ SetToSeq(S) \in Seq(S)
           /\ \A i, j \in 1..Len(SetToSeq(S)) : SetToSeq(S)[i] = SetToSeq(S)[j] => i = j
           /\ \A x \in S : \E i \in 1..Len(SetToSeq(S)) : SetToSeq(S)[i] = x
<1> DEFINE n == Cardinality(S)
           q == SetToSeq(S)
<1>1. n \in Nat /\ ExistsBijection(1..n, S)
  BY FS_CardinalityType
<1>2. \E f \in [1..n -> S] : IsInjective(f)
  BY <1>1 DEF ExistsBijection, Bijection, Injection
<1>3. q \in [1..n -> S] /\ IsInjective(q)
  BY <1>2 DEF SetToSeq
<1>4. Cardinality(1..n) = n
  BY <1>1, FS_Interval
<1>5. q \in Injection(1..n, S)
  BY <1>3 DEF Injection
<1>6. q \in Surjection(1..n, S)
  BY <1>4, <1>5, FS_Injection
<1>7. q \in Seq(S) /\ Len(q) = n
  BY <1>1, <1>3
<1>8. \A i, j \in 1..n : q[i] = q[j] => i = j
  BY <1>3 DEF IsInjective
<1>9. \A x \in S : \E i \in 1..n : q[i] = x
  BY <1>6 DEF Surjection
<1> QED  BY <1>7, <1>8, <1>9

Sent == {Batch(t) : t \in {u \in servers : pending[u] # <<>>}}

\* What a delivery emits is a finite set of batches.
LEMMA SentFinite ==
    ASSUME Types
    PROVE  IsFiniteSet(Sent) /\ Sent \subseteq Events
<1> DEFINE U == {u \in servers : pending[u] # <<>>}
           f == [t \in U |-> Batch(t)]
<1>1. U \in SUBSET Servers
  BY DEF Types, TypeOK
<1>2. IsFiniteSet(U)
  BY <1>1, FS_Subset, HttpAssumption
<1>3. f \in Surjection(U, Sent)
  BY DEF Surjection, Sent
<1>4. IsFiniteSet(Sent)
  BY <1>2, <1>3, FS_Surjection
<1>5. \A t \in U : Batch(t) \in Events
  BY <1>1 DEF Types, Batch, Events
<1> QED  BY <1>4, <1>5 DEF Sent

-----------------------------------------------------------------------------
(***************************************************************************)
(* What the steps do to the pieces of a server.                            *)
(***************************************************************************)

Pieces(s) == [k \in Places |-> Piece(s, k)]

Piecewise ==
    \A s \in Servers :
        /\ Len(events) \in Nat
        /\ Pieces(s) \in [0..Len(events) + 1 -> Seq(Nat)]
        /\ InOrder(s) <=> Growing(Pieces(s), Len(events) + 1)
        /\ Requests(s) = Numbers(Pieces(s), Len(events) + 1)

\* The order and the requests of a server are those of its pieces.
LEMMA PiecesOf == Types => Piecewise
<1> SUFFICES ASSUME Types, NEW s \in Servers
             PROVE  /\ Len(events) \in Nat
                    /\ Pieces(s) \in [0..Len(events) + 1 -> Seq(Nat)]
                    /\ InOrder(s) <=> Growing(Pieces(s), Len(events) + 1)
                    /\ Requests(s) = Numbers(Pieces(s), Len(events) + 1)
  BY DEF Piecewise
<1>1. Len(events) \in Nat
  BY LenProperties DEF Types
<1>2. \A k \in Places : Piece(s, k) \in Seq(Nat)
  <2> TAKE k \in Places
  <2>1. ASSUME k \in 1..Len(events), IsBatch(s, k) PROVE events[k].records \in Seq(Nat)
    <3>1. events[k] \in Events
      BY <2>1, ElementOfSeq DEF Types
    <3> QED  BY <2>1, <3>1 DEF Events, IsBatch
  <2>2. <<>> \in Seq(Nat) /\ heard[s] \in Seq(Nat) /\ pending[s] \in Seq(Nat)
    BY EmptySeq DEF Types
  <2>3. k = 0 \/ k = Len(events) + 1 \/ k \in 1..Len(events)
    BY <1>1 DEF Places
  <2> QED  BY <2>1, <2>2, <2>3 DEF Piece
<1>3. \A k \in Places : Pieces(s)[k] = Piece(s, k)
  BY DEF Pieces
<1>4. InOrder(s) <=> Growing(Pieces(s), Len(events) + 1)
  BY <1>3 DEF InOrder, Growing, Places
<1>5. Requests(s) = Numbers(Pieces(s), Len(events) + 1)
  BY <1>3 DEF Requests, Numbers, Places
<1> QED  BY <1>1, <1>2, <1>4, <1>5 DEF Pieces, Places

\* A step keeps the order and the requests of a server.
Kept(s) == (InOrder(s) => InOrder(s)') /\ Requests(s)' = Requests(s)

\* The pieces after a step are those before it at other places.
LEMMA MovedKeeps ==
    ASSUME Types, Types', NEW s \in Servers, NEW h,
           Moved(Pieces(s), Len(events) + 1, Pieces(s)', Len(events)' + 1, h)
    PROVE  Kept(s)
<1>1. Piecewise /\ Piecewise'
  BY PiecesOf, PTL
<1>2. Len(events) + 1 \in Nat /\ Len(events)' + 1 \in Nat
  BY <1>1 DEF Piecewise
<1>3. /\ Growing(Pieces(s), Len(events) + 1) => Growing(Pieces(s)', Len(events)' + 1)
      /\ Numbers(Pieces(s)', Len(events)' + 1) = Numbers(Pieces(s), Len(events) + 1)
  BY <1>2, PiecesMoved
<1> QED  BY <1>1, <1>3 DEF Kept, Piecewise

\* Nothing of the server moves.
LEMMA SameKeeps ==
    ASSUME Types, Types', NEW s \in Servers,
           events' = events, heard'[s] = heard[s], pending'[s] = pending[s]
    PROVE  Kept(s)
<1>1. Places' = Places /\ \A k \in Places : Piece(s, k)' = Piece(s, k)
  BY DEF Places, Piece, IsBatch
<1> QED  BY <1>1 DEF Kept, InOrder, Requests

\* Events are appended: what waited in the mailbox is one of them, or stays there.
LEMMA AppendKeeps ==
    ASSUME Types, Types', NEW s \in Servers, NEW E \in Seq(Events),
           events' = events \o E, heard'[s] = heard[s], NEW j \in 1..Len(E) + 1,
           \A i \in 1..Len(E) : i # j => ~(E[i].kind = "requests" /\ E[i].server = s),
           j # Len(E) + 1 => E[j] = Batch(s) /\ pending'[s] = <<>>,
           j = Len(E) + 1 => pending'[s] = pending[s]
    PROVE  Kept(s)
<1>0. PICK L : L = Len(events)
  OBVIOUS
<1> DEFINE e == Len(E)
           h == [k \in 0..L + 1 |-> IF k = L + 1 THEN L + j ELSE k]
<1>1. /\ L \in Nat /\ e \in Nat /\ Len(events)' = L + e
      /\ \A i \in 1..L + e : events'[i] = IF i <= L THEN events[i] ELSE E[i - L]
  BY SMTT(30), <1>0, ConcatProperties, LenProperties DEF Types
<1>2. /\ h \in [0..L + 1 -> 0..L + e + 1]
      /\ \A k, l \in 0..L + 1 : k < l => h[k] < h[l]
  <2>1. L \in Nat /\ e \in Nat /\ j \in 1..e + 1
    BY <1>1
  <2>2. \A k \in 0..L + 1 : h[k] = IF k = L + 1 THEN L + j ELSE k
    OBVIOUS
  <2> HIDE DEF e
  <2>3. \A k \in 0..L + 1 : (IF k = L + 1 THEN L + j ELSE k) \in 0..L + e + 1
    BY <2>1
  <2>4. h \in [0..L + 1 -> 0..L + e + 1]
    BY <2>3
  <2> HIDE DEF h
  <2>5. ASSUME NEW k \in 0..L + 1, NEW l \in 0..L + 1, k < l PROVE h[k] < h[l]
    <3>1. k # L + 1 /\ h[k] = k /\ k <= L
      BY <2>1, <2>2, <2>5
    <3>2. CASE l = L + 1
      <4>1. h[l] = L + j
        BY <2>2, <3>2
      <4> QED  BY <2>1, <3>1, <4>1
    <3>3. CASE l # L + 1
      BY <2>2, <2>5, <3>1, <3>3
    <3> QED  BY <3>2, <3>3
  <2> QED  BY <2>4, <2>5
<1>3. Piecewise /\ Piecewise'
  BY PiecesOf, PTL
<1>4. \A k \in 0..L + 1 : Pieces(s)[k] = Piece(s, k)
  BY <1>0 DEF Pieces, Places
<1>5. \A k \in 0..L + e + 1 : Pieces(s)'[k] = Piece(s, k)'
  BY <1>1 DEF Pieces, Places
<1>6. \A k \in 0..L : Piece(s, k)' = Piece(s, k)
  <2> TAKE k \in 0..L
  <2>1. CASE k = 0
    BY <2>1 DEF Piece
  <2>2. CASE k # 0
    <3>1. k \in 1..L /\ k \in 1..L + e /\ k # L + 1 /\ k # L + e + 1 /\ k <= L
      <4>1. L \in Nat /\ e \in Nat
        BY <1>1
      <4> HIDE DEF e
      <4> QED  BY <2>2, <4>1
    <3>2. events'[k] = events[k]
      BY <3>1, <1>1
    <3> QED  BY <2>2, <3>1, <3>2, <1>0, <1>1 DEF Piece, IsBatch
  <2> QED  BY <2>1, <2>2
<1>7. \A i \in 1..e : Piece(s, L + i)' = IF i = j THEN pending[s] ELSE <<>>
  <2> TAKE i \in 1..e
  <2>1. L + i \in 1..L + e /\ L + i # 0 /\ L + i # L + e + 1 /\ ~(L + i <= L) /\ (L + i) - L = i
    <3>1. L \in Nat /\ e \in Nat /\ i \in 1..e
      BY <1>1
    <3> HIDE DEF e
    <3> QED  BY <3>1
  <2>2. events'[L + i] = E[i]
    BY <2>1, <1>1
  <2>3. Piece(s, L + i)' = IF E[i].kind = "requests" /\ E[i].server = s THEN E[i].records ELSE <<>>
    BY <2>1, <2>2, <1>1 DEF Piece, IsBatch
  <2>4. CASE i = j
    <3>1. j # Len(E) + 1
      <4>1. e \in Nat /\ i \in 1..e
        BY <1>1
      <4>2. i # e + 1
        <5> HIDE DEF e
        <5> QED  BY <4>1
      <4> QED  BY <4>2, <2>4
    <3> QED  BY <3>1, <2>3, <2>4 DEF Batch
  <2>5. CASE i # j
    BY <2>3, <2>5
  <2> QED  BY <2>4, <2>5
<1>8. /\ Piece(s, L + e + 1)' = pending'[s]
      /\ Piece(s, L + 1) = pending[s]
  BY <1>0, <1>1 DEF Piece
<1>9. \A k \in 0..L + 1 : Pieces(s)'[h[k]] = Pieces(s)[k]
  <2> TAKE k \in 0..L + 1
  <2>1. CASE k \in 0..L
    <3>1. h[k] = k /\ k \in 0..L + e + 1
      <4>1. L \in Nat /\ e \in Nat
        BY <1>1
      <4> HIDE DEF e
      <4> QED  BY <2>1, <4>1
    <3> QED  BY <2>1, <3>1, <1>4, <1>5, <1>6
  <2>2. CASE k = L + 1
    <3>1. h[k] = L + j /\ h[k] \in 0..L + e + 1
      BY <2>2, <1>2
    <3>2. Pieces(s)[k] = pending[s]
      BY <2>2, <1>4, <1>8
    <3>3. CASE j = e + 1
      <4>1. L + j = L + e + 1
        BY <3>3, <1>1
      <4> QED  BY <3>1, <3>2, <3>3, <4>1, <1>5, <1>8
    <3>4. CASE j # e + 1
      <4>1. j \in 1..e
        <5>1. e \in Nat
          BY <1>1
        <5> HIDE DEF e
        <5>2. j \in 1..e + 1
          BY DEF e
        <5> QED  BY <3>4, <5>1, <5>2
      <4> QED  BY <3>1, <3>2, <4>1, <1>5, <1>7
    <3> QED  BY <3>3, <3>4
  <2>3. k \in 0..L \/ k = L + 1
    <3>1. L \in Nat
      BY <1>1
    <3> QED  BY <3>1
  <2> QED  BY <2>1, <2>2, <2>3
<1>10. \A l \in 0..L + e + 1 : (\E k \in 0..L + 1 : h[k] = l) \/ Pieces(s)'[l] = <<>>
  <2> TAKE l \in 0..L + e + 1
  <2>1. L \in Nat /\ e \in Nat /\ j \in 1..e + 1
    BY <1>1
  <2>2. CASE l \in 0..L
    <3>1. l \in 0..L + 1 /\ h[l] = l
      <4> HIDE DEF e
      <4> QED  BY <2>1, <2>2
    <3> QED  BY <3>1
  <2>3. CASE l = L + j
    <3>1. L + 1 \in 0..L + 1 /\ h[L + 1] = l
      <4> HIDE DEF e
      <4> QED  BY <2>1, <2>3
    <3> QED  BY <3>1
  <2>4. CASE l \notin 0..L /\ l # L + j /\ l # L + e + 1
    <3>1. l - L \in 1..e /\ L + (l - L) = l /\ l - L # j
      <4>1. l \in 0..L + e + 1
        OBVIOUS
      <4> HIDE DEF e
      <4> QED  BY <2>1, <2>4, <4>1
    <3>2. Piece(s, L + (l - L))' = <<>>
      BY <3>1, <1>7
    <3>3. Piece(s, l)' = <<>>
      BY <3>1, <3>2
    <3> QED  BY <3>3, <1>5
  <2>5. CASE l = L + e + 1 /\ l # L + j
    <3>1. j # e + 1
      <4> HIDE DEF e
      <4> QED  BY <2>1, <2>5
    <3>2. Piece(s, l)' = <<>>
      BY <2>5, <3>1, <1>8
    <3> QED  BY <3>2, <1>5
  <2> QED  BY <2>2, <2>3, <2>4, <2>5
<1>11. Moved(Pieces(s), L + 1, Pieces(s)', Len(events)' + 1, h)
  <2> HIDE DEF h
  <2> QED  BY <1>0, <1>1, <1>2, <1>9, <1>10 DEF Moved
<1> QED  BY <1>0, <1>11, MovedKeeps

\* The first event is heard: a batch of the server joins what its handler had.
LEMMA HeardKeeps ==
    ASSUME Types, Types', NEW s \in Servers, events # <<>>, events' = Tail(events),
           pending'[s] = pending[s],
           heard'[s] = IF IsBatch(s, 1) THEN heard[s] \o events[1].records ELSE heard[s]
    PROVE  Kept(s)
<1>0. PICK n : n = Len(events)'
  OBVIOUS
<1>1. /\ n \in Nat /\ Len(events) = n + 1
      /\ \A i \in 1..n : events'[i] = events[i + 1]
  BY <1>0, HeadTailProperties, LenProperties DEF Types
<1>2. Piecewise /\ Piecewise'
  BY PiecesOf, PTL
<1> DEFINE F == Pieces(s)
           G == Pieces(s)'
<1>3. F \in [0..(n + 1) + 1 -> Seq(Nat)] /\ G \in [0..n + 1 -> Seq(Nat)]
  BY <1>0, <1>1, <1>2 DEF Piecewise
<1>4. \A k \in 0..(n + 1) + 1 : F[k] = Piece(s, k)
  BY <1>1 DEF Pieces, Places
<1>5. \A k \in 0..n + 1 : G[k] = Piece(s, k)'
  BY <1>0 DEF Pieces, Places
<1>6. G[0] = F[0] \o F[1]
  <2>1. F[0] = heard[s] /\ G[0] = heard'[s]
    BY <1>1, <1>4, <1>5 DEF Piece
  <2>2. F[1] = IF IsBatch(s, 1) THEN events[1].records ELSE <<>>
    BY <1>1, <1>4 DEF Piece
  <2>3. heard[s] \in Seq(Nat)
    BY DEF Types
  <2> QED  BY <2>1, <2>2, <2>3, ConcatEmptySeq
<1>7. \A k \in 1..n + 1 : G[k] = F[k + 1]
  <2> TAKE k \in 1..n + 1
  <2>1. k \in 0..n + 1 /\ k + 1 \in 0..(n + 1) + 1 /\ k # 0 /\ k + 1 # 0
    BY <1>1
  <2>2. CASE k = n + 1
    BY <2>1, <2>2, <1>0, <1>1, <1>4, <1>5 DEF Piece
  <2>3. CASE k \in 1..n
    <3>1. k # n + 1 /\ k + 1 # (n + 1) + 1
      BY <1>1, <2>3
    <3>2. events'[k] = events[k + 1]
      BY <2>3, <1>1
    <3> QED  BY <2>1, <3>1, <3>2, <1>0, <1>1, <1>4, <1>5 DEF Piece, IsBatch
  <2> QED  BY <2>2, <2>3, <1>1
<1>8. (Growing(F, (n + 1) + 1) => Growing(G, n + 1)) /\ Numbers(G, n + 1) = Numbers(F, (n + 1) + 1)
  <2>1. n + 1 \in Nat
    BY <1>1
  <2> HIDE DEF F, G
  <2> QED  BY <2>1, <1>3, <1>6, <1>7, PiecesMerged
<1> QED  BY <1>0, <1>1, <1>2, <1>8 DEF Kept, Piecewise

\* A request above all others joins what waits in the mailbox.
LEMMA AnswerExtends ==
    ASSUME Types, Types', NEW s \in Servers, NEW x \in Nat,
           events' = events, heard'[s] = heard[s], pending'[s] = Append(pending[s], x),
           \A y \in Requests(s) : y < x
    PROVE  (InOrder(s) => InOrder(s)') /\ Requests(s)' = Requests(s) \cup {x}
<1>0. PICK n : n = Len(events) + 1
  OBVIOUS
<1>1. n \in Nat \ {0} /\ Len(events)' + 1 = n
  BY SMTT(30), <1>0, LenProperties DEF Types
<1>2. Piecewise /\ Piecewise'
  BY PiecesOf, PTL
<1> DEFINE F == Pieces(s)
           G == Pieces(s)'
<1>3. F \in [0..n -> Seq(Nat)] /\ G \in [0..n -> Seq(Nat)]
  BY <1>0, <1>1, <1>2 DEF Piecewise
<1>4. \A k \in 0..n : F[k] = Piece(s, k)
  BY <1>0 DEF Pieces, Places
<1>5. \A k \in 0..n : G[k] = Piece(s, k)'
  BY <1>0 DEF Pieces, Places
<1>6. G[n] = Append(F[n], x)
  <2>1. n \in 0..n /\ n # 0
    BY <1>1
  <2>2. F[n] = pending[s]
    BY <2>1, <1>0, <1>4 DEF Piece
  <2>3. G[n] = pending'[s]
    BY <2>1, <1>0, <1>1, <1>5 DEF Piece
  <2> QED  BY <2>2, <2>3
<1>7. \A k \in 0..n : k # n => G[k] = F[k]
  BY <1>0, <1>1, <1>4, <1>5 DEF Piece, IsBatch
<1>8. \A y \in Numbers(F, n) : y < x
  BY <1>0, <1>2 DEF Piecewise
<1>9. (Growing(F, n) => Growing(G, n)) /\ Numbers(G, n) = Numbers(F, n) \cup {x}
  <2>1. n \in Nat /\ Extended(F, G, n, x)
    BY <1>1, <1>3, <1>6, <1>7, <1>8 DEF Extended
  <2> QED  BY <2>1, PiecesExtended
<1> QED  BY <1>0, <1>1, <1>2, <1>9 DEF Piecewise

EmptyFlow ==
    \A s \in Servers :
        heard[s] = <<>> /\ pending[s] = <<>> /\ NoBatch(s) => InOrder(s) /\ Requests(s) = {}

\* Nothing came of a server whose pieces are empty.
LEMMA NothingYet == Types => EmptyFlow
<1> SUFFICES ASSUME Types, NEW s \in Servers, heard[s] = <<>>, pending[s] = <<>>, NoBatch(s)
             PROVE  InOrder(s) /\ Requests(s) = {}
  BY DEF EmptyFlow
<1>1. \A k \in Places : Piece(s, k) = <<>>
  BY LenProperties DEF Types, Places, Piece, NoBatch
<1>2. \A k \in Places : 1..Len(Piece(s, k)) = {}
  BY <1>1
<1> QED  BY <1>2 DEF InOrder, Requests

-----------------------------------------------------------------------------
(***************************************************************************)
(* Every step keeps the invariant.                                         *)
(***************************************************************************)

\* What of the queue a step leaves that posts and runs nothing.
QueueKept ==
    /\ ready' \in Seq(QueueTasks) /\ queue' \in Seq(QueueTasks)
    /\ \A x : Queued(x)' <=> Queued(x)
    /\ Once => Once'

\* A step that leaves Whole as it was.
LEMMA KeepsQueue ==
    ASSUME ready' \in Seq(QueueTasks), queue' \in Seq(QueueTasks), Whole' = Whole
    PROVE  QueueKept
BY DEF QueueKept, Queued, Contains, Once, Whole

\* A step that touches neither half of the queue.
LEMMA LeavesQueue ==
    ASSUME Types, UNCHANGED <<ready, queue>>
    PROVE  QueueKept
<1>1. Whole' = Whole
  BY DEF Whole
<1> QED  BY <1>1, KeepsQueue DEF Types

\* The flow of a server goes on when its pieces, its last answer and the moment of
\* its registration are kept.
LEMMA FlowsOn ==
    ASSUME NEW x \in Servers, Flows(x), Kept(x), answered'[x] = answered[x],
           listener'[x] = "open" /\ stage' = "serving" =>
              /\ listener[x] = "open" /\ stage = "serving"
              /\ x \in servers' => x \in servers /\ early'[x] = early[x]
    PROVE  Flows(x)'
BY DEF Flows, Kept

Local(x) == Fresh(x) /\ Placed(x) /\ Known(x) /\ Unheard(x)

\* A plugin asks for a server.
LEMMA ServeKeeps ==
    ASSUME HInv, NEW s \in Servers, Serve(s)
    PROVE  HInv'
<1> USE DEF Serve, Turn, lua, box, ghost
<1>1. Types'
  BY HttpAssumption DEF HInv, Types, TypeOK, Kinds, Task
<1>2. QueueKept
  BY LeavesQueue DEF HInv
<1>3. Stages'
  BY DEF HInv, Stages
<1>4. ASSUME NEW x \in Servers PROVE Local(x)'
  <2>1. Fresh(x)'
    BY <1>2 DEF HInv, Types, TypeOK, Fresh, QueueKept, Waits, Kinds, Task, NoReply
  <2>2. Placed(x)'
    BY <1>2 DEF HInv, Types, TypeOK, Fresh, Placed, QueueKept, Waits, Task, NoReply, Kinds
  <2>3. Known(x)'
    BY <1>2 DEF HInv, Types, TypeOK, Fresh, Known, QueueKept, Waits, Task, NoReply
  <2>4. Unheard(x)'
    BY DEF HInv, Unheard, NoBatch, IsBatch
  <2> QED  BY <2>1, <2>2, <2>3, <2>4 DEF Local
<1>5. ASSUME NEW x \in Servers PROVE Flows(x)'
  <2>1. Kept(x)
    BY <1>1, SameKeeps DEF HInv
  <2> QED  BY <2>1, FlowsOn DEF HInv
<1>6. Once' /\ Posted'
  BY <1>2 DEF HInv, QueueKept, Posted
<1> QED  BY <1>1, <1>3, <1>4, <1>5, <1>6 DEF HInv, Local

\* A plugin stops a server.
LEMMA StopKeeps ==
    ASSUME HInv, NEW s \in Servers, Stop(s)
    PROVE  HInv'
<1> USE DEF Stop, Turn, Retire, box, ghost
<1>1. Types'
  BY SMTT(30) DEF HInv, Types, TypeOK, Kinds, Task
<1>2. QueueKept
  BY LeavesQueue DEF HInv
<1>3. Stages'
  BY DEF HInv, Stages
<1>4. ASSUME NEW x \in Servers PROVE Local(x)'
  <2>1. Fresh(x)'
    BY <1>2 DEF HInv, Types, TypeOK, Fresh, Placed, QueueKept, Waits, Kinds, Task, NoReply
  <2>2. Placed(x)'
    BY SMTT(30), <1>2 DEF HInv, Types, TypeOK, Fresh, Placed, QueueKept, Waits, Task, NoReply, Kinds
  <2>3. Known(x)'
    BY <1>2 DEF HInv, Types, TypeOK, Fresh, Placed, Known, QueueKept, Waits, Task, NoReply
  <2>4. Unheard(x)'
    BY DEF HInv, Types, TypeOK, Unheard, NoBatch, IsBatch, Placed
  <2> QED  BY <2>1, <2>2, <2>3, <2>4 DEF Local
<1>5. ASSUME NEW x \in Servers PROVE Flows(x)'
  <2>1. Kept(x)
    BY <1>1, SameKeeps DEF HInv
  <2> QED  BY <2>1, FlowsOn DEF HInv, Types, TypeOK
<1>6. Once' /\ Posted'
  BY <1>2 DEF HInv, QueueKept, Posted
<1> QED  BY <1>1, <1>3, <1>4, <1>5, <1>6 DEF HInv, Local

\* A plugin is withdrawn: its servers are retired, and what it waited for fails.
LEMMA WithdrawKeeps ==
    ASSUME HInv, NEW p \in Plugins, Withdraw(p)
    PROVE  HInv'
<1> USE DEF Withdraw, Turn, Retire, box
<1>1. Types'
  BY DEF HInv, Types, TypeOK, Kinds, Task
<1>2. QueueKept
  BY LeavesQueue DEF HInv
<1>3. Stages'
  BY DEF HInv, Stages
<1>4. ASSUME NEW x \in Servers PROVE Local(x)'
  <2>1. Fresh(x)'
    BY <1>2 DEF HInv, Types, TypeOK, Fresh, Placed, QueueKept, Waits, Kinds, Task, NoReply
  <2>2. Placed(x)'
    BY ZenonT(30), <1>2 DEF HInv, Types, TypeOK, Fresh, Placed, QueueKept, Waits, Task, NoReply, Kinds
  <2>3. Known(x)'
    BY <1>2 DEF HInv, Types, TypeOK, Fresh, Placed, Known, QueueKept, Waits, Task, NoReply
  <2>4. Unheard(x)'
    BY DEF HInv, Types, TypeOK, Unheard, NoBatch, IsBatch, Placed
  <2> QED  BY <2>1, <2>2, <2>3, <2>4 DEF Local
<1>5. ASSUME NEW x \in Servers PROVE Flows(x)'
  <2>1. Kept(x)
    BY <1>1, SameKeeps DEF HInv
  <2> QED  BY <2>1, FlowsOn DEF HInv, Types, TypeOK
<1>6. Once' /\ Posted'
  BY <1>2 DEF HInv, QueueKept, Posted
<1> QED  BY <1>1, <1>3, <1>4, <1>5, <1>6 DEF HInv, Local

\* A plugin comes back.
LEMMA RegisterKeeps ==
    ASSUME HInv, NEW p \in Plugins, Register(p)
    PROVE  HInv'
<1> USE DEF Register, Turn, box, ghost
<1>1. Types'
  BY DEF HInv, Types, TypeOK
<1>2. QueueKept
  BY LeavesQueue DEF HInv
<1>3. Stages'
  BY DEF HInv, Stages
<1>4. ASSUME NEW x \in Servers PROVE Local(x)'
  <2>1. Fresh(x)'
    BY <1>2 DEF HInv, Fresh, QueueKept, Waits, NoReply
  <2>2. Placed(x)'
    BY <1>2 DEF HInv, Placed, QueueKept, Waits, NoReply
  <2>3. Known(x)'
    BY <1>2 DEF HInv, Known, QueueKept, Waits
  <2>4. Unheard(x)'
    BY DEF HInv, Unheard, NoBatch, IsBatch
  <2> QED  BY <2>1, <2>2, <2>3, <2>4 DEF Local
<1>5. ASSUME NEW x \in Servers PROVE Flows(x)'
  <2>1. Kept(x)
    BY <1>1, SameKeeps DEF HInv
  <2> QED  BY <2>1, FlowsOn DEF HInv
<1>6. Once' /\ Posted'
  BY <1>2 DEF HInv, QueueKept, Posted
<1> QED  BY <1>1, <1>3, <1>4, <1>5, <1>6 DEF HInv, Local

\* A worker binds a server.
LEMMA BindKeeps ==
    ASSUME HInv, NEW s \in Servers, NEW outcome \in {"open", "failed"}, Bind(s, outcome)
    PROVE  HInv'
<1> USE DEF Bind, lua, box, ghost
<1>1. Types'
  BY DEF HInv, Types, TypeOK, Kinds, Task
<1>2. QueueKept
  BY LeavesQueue DEF HInv
<1>3. Stages'
  BY DEF HInv, Stages
<1>4. ASSUME NEW x \in Servers PROVE Local(x)'
  <2>1. Fresh(x)'
    BY <1>2 DEF HInv, Types, TypeOK, Fresh, Placed, QueueKept, Waits, Kinds, Task, NoReply
  <2>2. Placed(x)'
    BY <1>2 DEF HInv, Types, TypeOK, Fresh, Placed, QueueKept, Waits, Task, NoReply, Kinds
  <2>3. Known(x)'
    BY <1>2 DEF HInv, Types, TypeOK, Fresh, Placed, Known, QueueKept, Waits, Task, NoReply
  <2>4. Unheard(x)'
    BY SMTT(30) DEF HInv, Types, TypeOK, Unheard, NoBatch, IsBatch, Placed, Waits
  <2> QED  BY <2>1, <2>2, <2>3, <2>4 DEF Local
<1>5. ASSUME NEW x \in Servers PROVE Flows(x)'
  <2>1. Kept(x)
    BY <1>1, SameKeeps DEF HInv
  <2>2. CASE x # s
    BY <2>1, <2>2, FlowsOn DEF HInv, Types, TypeOK
  <2>3. CASE x = s
    <3>1. answered[s] = 0 /\ heard[s] = <<>> /\ pending[s] = <<>> /\ NoBatch(s) /\ s \notin servers
      BY <2>3 DEF HInv, Placed, Unheard, Waits
    <3>2. InOrder(s) /\ Requests(s) = {}
      BY <3>1, NothingYet DEF HInv, EmptyFlow
    <3>3. InOrder(s)' /\ Requests(s)' = {}
      BY <2>1, <2>3, <3>2 DEF Kept
    <3>4. 1 \in 1..(answered'[s] + 1) /\ {} = 1..answered'[s]
      BY <3>1
    <3> QED  BY <2>3, <3>1, <3>3, <3>4 DEF Flows
  <2> QED  BY <2>2, <2>3
<1>6. Once' /\ Posted'
  BY <1>2 DEF HInv, QueueKept, Posted
<1> QED  BY <1>1, <1>3, <1>4, <1>5, <1>6 DEF HInv, Local

\* A worker posts the registration of the server it bound.
LEMMA PostRegistrationKeeps ==
    ASSUME HInv, NEW s \in Servers, PostRegistration(s)
    PROVE  HInv'
<1> USE DEF PostRegistration, lua, box, ghost
<1>0. Registration(s) \in QueueTasks
  BY DEF Registration, Task, QueueTasks
<1>1. Types'
  BY <1>0, AppendProperties DEF HInv, Types, TypeOK, Kinds, Task
<1>2. Posts(Registration(s))
  BY <1>0, PostsTask DEF HInv, Types
<1>3. Stages'
  BY DEF HInv, Stages
<1>4. ASSUME NEW x \in Servers PROVE Local(x)'
  <2>1. Fresh(x)'
    BY <1>2 DEF HInv, Types, TypeOK, Fresh, Placed, Posts, Waits, Kinds, Task, NoReply, Registration, Erasure
  <2>2. Placed(x)'
    BY ZenonT(30), <1>2 DEF HInv, Types, TypeOK, Fresh, Placed, Posts, Waits, Task, NoReply, Kinds, Registration, Erasure
  <2>3. Known(x)'
    BY <1>2 DEF HInv, Types, TypeOK, Fresh, Placed, Known, Posts, Waits, Task, NoReply, Registration
  <2>4. Unheard(x)'
    BY DEF HInv, Unheard, NoBatch, IsBatch
  <2> QED  BY <2>1, <2>2, <2>3, <2>4 DEF Local
<1>5. ASSUME NEW x \in Servers PROVE Flows(x)'
  <2>1. Kept(x)
    BY <1>1, SameKeeps DEF HInv
  <2> QED  BY <2>1, FlowsOn DEF HInv
<1>6. Once' /\ Posted'
  BY <1>2 DEF HInv, Posts, Posted, Placed, Waits
<1> QED  BY <1>1, <1>3, <1>4, <1>5, <1>6 DEF HInv, Local

\* A worker joined a server that closed.
LEMMA JoinKeeps ==
    ASSUME HInv, NEW s \in Servers, Join(s)
    PROVE  HInv'
<1> USE DEF Join, lua, box, ghost
<1>0. Task("erase", s) \in QueueTasks
  BY DEF Task, QueueTasks
<1>1. Types'
  BY <1>0, AppendProperties DEF HInv, Types, TypeOK, Kinds, Task
<1>2. Posts(Task("erase", s))
  BY <1>0, PostsTask DEF HInv, Types
<1>3. Stages'
  BY DEF HInv, Stages
<1>4. ASSUME NEW x \in Servers PROVE Local(x)'
  <2>1. Fresh(x)'
    BY ZenonT(30), <1>2 DEF HInv, Types, TypeOK, Fresh, Placed, Posts, Waits, Kinds, Task, NoReply, Registration, Erasure
  <2>2. Placed(x)'
    BY ZenonT(30), <1>2 DEF HInv, Types, TypeOK, Fresh, Placed, Posts, Waits, Task, NoReply, Kinds, Registration, Erasure
  <2>3. Known(x)'
    BY <1>2 DEF HInv, Types, TypeOK, Fresh, Placed, Known, Posts, Waits, Task, NoReply, Registration
  <2>4. Unheard(x)'
    BY SMTT(30) DEF HInv, Types, TypeOK, Unheard, NoBatch, IsBatch, Placed, Waits
  <2> QED  BY <2>1, <2>2, <2>3, <2>4 DEF Local
<1>5. ASSUME NEW x \in Servers PROVE Flows(x)'
  <2>1. Kept(x)
    BY <1>1, SameKeeps DEF HInv
  <2> QED  BY <2>1, FlowsOn DEF HInv, Types, TypeOK
<1>6. Once' /\ Posted'
  BY <1>2 DEF HInv, Posts, Posted, Task
<1> QED  BY <1>1, <1>3, <1>4, <1>5, <1>6 DEF HInv, Local

\* The next event reaches Lua.
LEMMA HearKeeps ==
    ASSUME HInv, Hear
    PROVE  HInv'
<1>0. PICK e, s :
         /\ e = Head(events) /\ e = events[1] /\ e \in Events /\ s = e.server
         /\ 1 \in 1..Len(events) /\ events' \in Seq(Events) /\ Len(events) \in Nat
         /\ \A i \in 1..Len(events)' : i + 1 \in 1..Len(events) /\ events'[i] = events[i + 1]
  <2>1. events # <<>> /\ events \in Seq(Events) /\ events' = Tail(events)
    BY DEF HInv, Types, Hear
  <2>2. Len(events) \in Nat \ {0} /\ Head(events) = events[1]
    BY <2>1, EmptySeq
  <2>3. Tail(events) \in Seq(Events) /\ Len(Tail(events)) = Len(events) - 1
        /\ \A i \in 1..Len(Tail(events)) : Tail(events)[i] = events[i + 1]
    BY <2>1, HeadTailProperties
  <2>4. events[1] \in Events
    BY <2>1, <2>2, ElementOfSeq
  <2> QED  BY <2>1, <2>2, <2>3, <2>4
<1>s. s \in Servers /\ (e.kind = "requests" => e.records \in Seq(Nat))
  BY <1>0 DEF Events
<1>h. /\ e.kind = "requests" =>
            /\ heard' = IF s \in handlers THEN [heard EXCEPT ![s] = @ \o e.records] ELSE heard
            /\ UNCHANGED <<settled, handlers>>
      /\ e.kind = "reply" =>
            /\ heard' = heard
            /\ settled' = IF settled[s] = "pending"
                          THEN [settled EXCEPT ![s] = IF e.ok THEN "served" ELSE "failed"] ELSE settled
            /\ handlers' = IF settled[s] = "pending" /\ ~e.ok THEN handlers \ {s} ELSE handlers
      /\ e.kind \in {"requests", "reply"}
  BY <1>0 DEF Hear
<1>t. settled' \in [Servers -> {"none", "pending", "served", "failed"}] /\ handlers' \subseteq handlers
  BY <1>s, <1>h DEF HInv, Types, TypeOK
<1>u. /\ events # <<>> /\ events' = Tail(events) /\ stage = "serving" /\ ready = <<>>
      /\ UNCHANGED <<registered, starting, servers, retired, ready, stage, tasks, queue, listener, answered, box, ghost>>
  BY DEF Hear, Turn
<1> USE DEF box, ghost
<1>1. Types'
  <2>1. heard' \in [Servers -> Seq(Nat)]
    <3>1. heard[s] \in Seq(Nat)
      BY <1>s DEF HInv, Types
    <3>2. e.kind = "requests" => heard[s] \o e.records \in Seq(Nat)
      BY <3>1, <1>s, ConcatProperties
    <3> QED  BY <3>2, <1>s, <1>h DEF HInv, Types
  <2> QED  BY <2>1, <1>0, <1>t, <1>u DEF HInv, Types, TypeOK
<1>2. QueueKept
  BY <1>u, LeavesQueue DEF HInv
<1>3. Stages'
  BY <1>u DEF HInv, Stages
<1>4. ASSUME NEW x \in Servers PROVE Local(x)'
  <2>0. NoReply(x) => NoReply(x)' /\ ~(e.kind = "reply" /\ s = x)
    BY <1>0 DEF NoReply
  <2>1. Fresh(x)'
    <3>1. settled'[x] = "none" => settled[x] = "none"
      BY <1>s, <1>h DEF HInv, Types, TypeOK
    <3> QED  BY <1>2, <1>t, <1>u, <2>0, <3>1 DEF HInv, Fresh, QueueKept, Waits
  <2>2. Placed(x)'
    <3>1. x \in servers => ~(e.kind = "reply" /\ s = x /\ ~e.ok)
      BY <1>0, <1>u DEF HInv, Known
    <3>2. x \in servers => x \in handlers'
      BY <1>h, <3>1 DEF HInv, Placed
    <3> QED  BY <1>2, <1>u, <2>0, <3>2 DEF HInv, Placed, QueueKept, Waits
  <2>3. Known(x)'
    <3>1. x \in starting => ~(e.kind = "reply" /\ s = x)
      BY <1>u, <2>0 DEF HInv, Known, Placed
    <3>2. \A i \in 1..Len(events)' :
             events'[i].kind = "reply" /\ events'[i].server = x =>
                 (x \in handlers /\ events'[i].ok => x \in servers) /\ (x \in servers => events'[i].ok)
      BY <1>0, <1>u DEF HInv, Known
    <3>3. e.kind = "reply" /\ s = x /\ e.ok /\ x \in handlers => x \in servers
      BY <1>0, <1>u DEF HInv, Known
    <3>4. x \in handlers' /\ settled'[x] = "served" => x \in servers
      <4>1. CASE e.kind = "reply" /\ s = x
        BY <1>s, <1>h, <1>t, <1>u, <3>3, <4>1 DEF HInv, Types, TypeOK, Known
      <4>2. CASE ~(e.kind = "reply" /\ s = x)
        BY <1>s, <1>h, <1>t, <1>u, <4>2 DEF HInv, Types, TypeOK, Known
      <4> QED  BY <4>1, <4>2
    <3>5. x \in starting => x \in handlers' /\ settled'[x] = "pending"
      BY <1>s, <1>h, <1>u, <3>1 DEF HInv, Types, TypeOK, Known
    <3> QED  BY <1>2, <1>t, <1>u, <3>2, <3>4, <3>5 DEF HInv, Known, QueueKept, Waits
  <2>4. Unheard(x)'
    <3>1. NoBatch(x) => NoBatch(x)' /\ ~(e.kind = "requests" /\ s = x)
      BY <1>0 DEF NoBatch, IsBatch
    <3> QED  BY <3>1, <1>s, <1>h, <1>u DEF HInv, Types, Unheard
  <2> QED  BY <2>1, <2>2, <2>3, <2>4 DEF Local
<1>5. ASSUME NEW x \in Servers PROVE Flows(x)'
  <2>1. CASE listener[x] = "open" /\ stage = "serving"
    <3>1. heard'[x] = IF IsBatch(x, 1) THEN heard[x] \o events[1].records ELSE heard[x]
      <4>1. IsBatch(x, 1) => x \in handlers
        BY <1>0, <2>1 DEF HInv, Unheard, NoBatch, Placed
      <4>2. IsBatch(x, 1) <=> e.kind = "requests" /\ s = x
        BY <1>0 DEF IsBatch
      <4> QED  BY ZenonT(30), <4>1, <4>2, <1>0, <1>s, <1>h DEF HInv, Types
    <3>2. Kept(x)
      BY <1>1, <1>u, <3>1, HeardKeeps DEF HInv
    <3> QED  BY <1>u, <3>2, FlowsOn DEF HInv
  <2>2. CASE ~(listener[x] = "open" /\ stage = "serving")
    BY <1>u, <2>2 DEF Flows
  <2> QED  BY <2>1, <2>2
<1>6. Once' /\ Posted'
  BY <1>2, <1>u DEF HInv, QueueKept, Posted
<1> QED  BY <1>1, <1>3, <1>4, <1>5, <1>6 DEF HInv, Local

\* A server answers a request.
LEMMA AnswerKeeps ==
    ASSUME HInv, NEW s \in Servers, Answer(s)
    PROVE  HInv'
<1> USE DEF Answer, lua, ghost
<1>0. /\ answered[s] \in Nat /\ pending[s] \in Seq(Nat)
      /\ Append(pending[s], answered[s] + 1) \in Seq(Nat) /\ Deliver \in QueueTasks
  <2>1. answered[s] \in Nat /\ pending[s] \in Seq(Nat)
    BY DEF HInv, Types
  <2> QED  BY <2>1, AppendProperties DEF QueueTasks
<1>1. Types'
  <2>0. Asked[s] \in Nat /\ answered[s] < Asked[s] /\ early[s] \in 0..answered[s]
    BY HttpAssumption DEF HInv, Types, TypeOK
  <2>a. answered[s] + 1 \in 0..Asked[s] /\ early[s] \in 0..answered[s] + 1
    BY <1>0, <2>0
  <2>1. answered' \in [Servers -> Nat] /\ \A x \in Servers : answered'[x] \in 0..Asked[x] /\ early[x] \in 0..answered'[x]
    BY SMTT(30), <1>0, <2>a DEF HInv, Types, TypeOK
  <2>2. pending' \in [Servers -> Seq(Nat)]
    BY <1>0 DEF HInv, Types
  <2>3. queue' \in Seq(QueueTasks)
    BY <1>0, AppendProperties DEF HInv, Types
  <2> QED  BY <2>1, <2>2, <2>3 DEF HInv, Types, TypeOK
<1>2. /\ Once'
      /\ \A x : Queued(x)' <=> Queued(x) \/ (x = Deliver /\ open /\ ~posted)
  <2>1. CASE open /\ ~posted
    <3>1. Posts(Deliver)
      BY <1>0, <2>1, PostsTask DEF HInv, Types
    <3>2. Deliver.kind # "register"
      BY DEF Deliver
    <3> QED  BY <2>1, <3>1, <3>2 DEF Posts, HInv
  <2>2. CASE ~(open /\ ~posted)
    <3>1. QueueKept
      BY <2>2, LeavesQueue DEF HInv
    <3> QED  BY <2>2, <3>1 DEF QueueKept, HInv
  <2> QED  BY <2>1, <2>2
<1>3. Stages'
  BY DEF HInv, Stages, Types, TypeOK
<1>4. ASSUME NEW x \in Servers PROVE Local(x)'
  <2>0. /\ Queued(Registration(x))' <=> Queued(Registration(x))
        /\ Queued(Erasure(x))' <=> Queued(Erasure(x))
    <3>1. Registration(x) # Deliver /\ Erasure(x) # Deliver
      BY DEF Registration, Erasure, Task, Deliver
    <3> QED  BY <1>2, <3>1 DEF Registration, Erasure, Task
  <2>1. Fresh(x)'
    BY <2>0 DEF HInv, Fresh, Waits, NoReply
  <2>2. Placed(x)'
    BY <2>0 DEF HInv, Placed, Waits, NoReply
  <2>3. Known(x)'
    BY <2>0 DEF HInv, Known, Waits
  <2>4. Unheard(x)'
    BY DEF HInv, Types, Unheard, NoBatch, IsBatch
  <2> QED  BY <2>1, <2>2, <2>3, <2>4 DEF Local
<1>5. ASSUME NEW x \in Servers PROVE Flows(x)'
  <2>1. CASE x # s \/ ~(listener[x] = "open" /\ stage = "serving")
    <3>1. CASE x # s
      <4>1. Kept(x) /\ answered'[x] = answered[x]
        BY <1>1, <3>1, SameKeeps DEF HInv, Types
      <4> QED  BY <4>1, FlowsOn DEF HInv
    <3>2. CASE ~(listener[x] = "open" /\ stage = "serving")
      BY <3>2 DEF Flows
    <3> QED  BY <2>1, <3>1, <3>2
  <2>2. CASE x = s /\ listener[s] = "open" /\ stage = "serving"
    <3>1. InOrder(s) /\ \E first \in 1..(answered[s] + 1) :
              Requests(s) = first..answered[s] /\ (s \in servers => first <= early[s] + 1)
      BY <2>2 DEF HInv, Flows
    <3>2. PICK first \in 1..(answered[s] + 1) :
              Requests(s) = first..answered[s] /\ (s \in servers => first <= early[s] + 1)
      BY <3>1
    <3>3. \A y \in Requests(s) : y < answered[s] + 1
      BY <1>0, <3>2
    <3>4. pending'[s] = Append(pending[s], answered[s] + 1) /\ answered'[s] = answered[s] + 1
      BY <2>2 DEF HInv, Types, TypeOK
    <3>5. InOrder(s)' /\ Requests(s)' = Requests(s) \cup {answered[s] + 1}
      BY SMTT(30), <1>0, <1>1, <3>1, <3>3, <3>4, AnswerExtends DEF HInv
    <3>6. first \in 1..(answered'[s] + 1) /\ Requests(s)' = first..answered'[s]
      BY <1>0, <3>2, <3>4, <3>5
    <3> QED  BY <2>2, <3>2, <3>5, <3>6 DEF Flows
  <2> QED  BY <2>1, <2>2
<1>6. Posted'
  BY <1>2 DEF HInv, Types, TypeOK, Posted
<1> QED  BY <1>1, <1>2, <1>3, <1>4, <1>5, <1>6 DEF HInv, Local

\* The main thread takes what was posted.
LEMMA DrainKeeps ==
    ASSUME HInv, Drain
    PROVE  HInv'
<1> USE DEF Drain, Turn, lua, box, ghost
<1>1. Types'
  BY EmptySeq DEF HInv, Types, TypeOK
<1>2. QueueKept
  <2>1. Whole' = Whole
    BY DrainsWhole DEF HInv, Types
  <2> QED  BY <1>1, <2>1, KeepsQueue DEF Types
<1>3. Stages'
  BY DEF HInv, Stages
<1>4. ASSUME NEW x \in Servers PROVE Local(x)'
  <2>1. Fresh(x)'
    BY <1>2 DEF HInv, Fresh, QueueKept, Waits, NoReply
  <2>2. Placed(x)'
    BY <1>2 DEF HInv, Placed, QueueKept, Waits, NoReply
  <2>3. Known(x)'
    BY <1>2 DEF HInv, Known, QueueKept, Waits
  <2>4. Unheard(x)'
    BY DEF HInv, Unheard, NoBatch, IsBatch
  <2> QED  BY <2>1, <2>2, <2>3, <2>4 DEF Local
<1>5. ASSUME NEW x \in Servers PROVE Flows(x)'
  <2>1. Kept(x)
    BY <1>1, SameKeeps DEF HInv
  <2> QED  BY <2>1, FlowsOn DEF HInv
<1>6. Once' /\ Posted'
  BY <1>2 DEF HInv, QueueKept, Posted
<1> QED  BY <1>1, <1>3, <1>4, <1>5, <1>6 DEF HInv, Local

\* The drain runs the registration of a server.
LEMMA RunRegistrationKeeps ==
    ASSUME HInv, RunRegistration
    PROVE  HInv'
<1>0. PICK t, s :
         /\ t = Head(ready) /\ t.kind = "register" /\ s = t.server /\ Runs(t)
         /\ UNCHANGED <<registered, handlers, settled, heard, stage, queue, answered, box, withdrawn>>
  BY RunsTask DEF HInv, Types, RunRegistration, Running, lua
<1> DEFINE kept == Wanted(s) /\ listener[s] = "open"
<1>t. s \in Servers /\ t = Registration(s) /\ ~Queued(Registration(s))' /\ Queued(Registration(s))
  <2>1. t \in [kind : {"register", "erase"}, server : Servers] /\ t.kind = "register"
    BY <1>0 DEF Runs, QueueTasks, Deliver
  <2>2. s \in Servers /\ t = Registration(s)
    BY <1>0, <2>1 DEF Registration, Task
  <2>3. \A x : x = t => ~Queued(x)'
    BY <1>0, <2>1 DEF Runs, HInv
  <2> QED  BY <1>0, <2>2, <2>3 DEF Runs, Registration, Task
<1>q. \A x : x # Registration(s) => (Queued(x)' <=> Queued(x))
  BY <1>0, <1>t DEF Runs
<1>u. stage = "serving" /\ ready # <<>>
  BY DEF HInv, Stages, RunRegistration, Running
<1>p. /\ listener[s] \in {"open", "failed"} /\ s \notin servers \cup retired /\ NoReply(s)
      /\ \A kind \in Kinds : ~Waits(kind, s)
      /\ ~Queued(Erasure(s))
  BY <1>t DEF HInv, Placed, Waits, Kinds
<1>h. /\ starting' = starting \ {s}
      /\ events' = Append(events, Reply(s, kept))
      /\ kept => /\ servers' = servers \cup {s} /\ early' = [early EXCEPT ![s] = answered[s]]
                 /\ UNCHANGED <<retired, tasks, listener>>
      /\ ~kept /\ listener[s] = "open" => Retire({s}) /\ UNCHANGED <<servers, early>>
      /\ listener[s] = "failed" => UNCHANGED <<servers, early, retired, tasks, listener>>
  <2>1. events' = events \o Answers(s, kept) /\ Reply(s, kept) \in Events
    BY <1>0, <1>t DEF RunRegistration, Reply, Events, Wanted
  <2>2. events' = Append(events, Reply(s, kept))
    BY <2>1, AppendIsConcat DEF Answers, HInv, Types
  <2> QED  BY <1>0, <1>p, <2>2 DEF RunRegistration
<1>e. /\ Reply(s, kept) \in Events /\ Len(events) \in Nat /\ Len(events)' = Len(events) + 1
      /\ \A i \in 1..Len(events) : events'[i] = events[i]
      /\ events'[Len(events) + 1] = Reply(s, kept) /\ events' \in Seq(Events)
  <2>1. Reply(s, kept) \in Events
    BY <1>t DEF Reply, Events, Wanted
  <2> QED  BY <2>1, <1>h, AppendProperties, LenProperties DEF HInv, Types
<1>a. \A i \in 1..Len(events)' : i \in 1..Len(events) \/ i = Len(events) + 1
  BY <1>e
<1> USE DEF box
<1> HIDE DEF kept
<1>1. Types'
  <2>1. early' \in [Servers -> Nat] /\ \A x \in Servers : early'[x] \in 0..answered'[x]
    <3>1. early' = [early EXCEPT ![s] = answered[s]] \/ early' = early
      BY <1>p, <1>h DEF kept
    <3>2. answered' = answered /\ \A x \in Servers : answered[x] \in Nat /\ answered[x] \in 0..answered[x] /\ early[x] \in 0..answered[x]
      BY <1>0 DEF HInv, Types, TypeOK
    <3> QED  BY <1>t, <3>1, <3>2 DEF HInv, Types
  <2>2. /\ listener' \in [Servers -> {"none", "failed", "open", "closing", "ended"}]
        /\ tasks' \subseteq [kind : Kinds, server : Servers]
        /\ starting' \cup servers' \cup retired' \subseteq Servers
    BY <1>t, <1>p, <1>h DEF HInv, Types, TypeOK, Retire, Kinds, Task, kept
  <2> QED  BY <2>1, <2>2, <1>0, <1>e DEF HInv, Types, TypeOK, Runs
<1>3. Stages'
  BY <1>0, <1>u DEF HInv, Stages
<1>4. ASSUME NEW x \in Servers PROVE Local(x)'
  <2>0. /\ x # s => (Queued(Registration(x))' <=> Queued(Registration(x)))
        /\ Queued(Erasure(x))' <=> Queued(Erasure(x))
    <3>1. (x # s => Registration(x) # Registration(s)) /\ Erasure(x) # Registration(s)
      BY DEF Registration, Erasure, Task
    <3> QED  BY <1>q, <3>1 DEF Registration, Erasure, Task
  <2>n. x # s => (NoReply(x)' <=> NoReply(x))
    BY <1>e, <1>a DEF NoReply, Reply
  <2>1. Fresh(x)'
    <3>1. settled[s] # "none"
      BY <1>t DEF HInv, Fresh
    <3>2. CASE x = s
      BY <1>0, <3>1, <3>2 DEF Fresh
    <3>3. CASE x # s
      BY SMTT(30), <1>0, <1>t, <1>p, <1>h, <2>0, <2>n, <3>3 DEF HInv, Types, TypeOK, Fresh, Waits, Retire, Task, Kinds
    <3> QED  BY <3>2, <3>3
  <2>2. Placed(x)'
    <3>1. CASE x = s
      <4>1. kept => s \in handlers /\ OwnerOf[s] \in registered
        BY <1>t, <1>u DEF HInv, Known, kept, Wanted
      <4>2. listener[s] = "open" /\ ~kept => Waits("stop", s)' /\ listener'[s] = "closing" /\ s \in retired'
        BY <1>t, <1>h DEF HInv, Types, TypeOK, Retire, Waits, Task
      <4>3. ~Waits("bind", s)' /\ ~Waits("post", s)'
        BY <1>p, <1>h DEF Waits, Retire, Task, Kinds, kept
      <4>4. Waits("stop", s)' => listener[s] = "open" /\ ~kept
        BY <1>p, <1>h DEF Waits, Retire, Task, Kinds, kept
      <4>5. s \in servers' <=> kept
        BY <1>p, <1>h DEF kept
      <4>6. kept \/ listener[s] = "failed" => listener' = listener
        BY <1>h
      <4> QED  BY <1>0, <1>t, <1>p, <1>u, <1>h, <2>0, <3>1, <4>1, <4>2, <4>3, <4>4, <4>5, <4>6 DEF Placed, kept
    <3>2. CASE x # s
      <4>1. \A kind \in Kinds : Waits(kind, x)' <=> Waits(kind, x)
        BY <1>t, <1>p, <1>h, <3>2 DEF Waits, Retire, Task, kept
      <4>2. listener'[x] = listener[x] /\ (x \in servers' <=> x \in servers) /\ (x \in retired' <=> x \in retired)
            /\ (x \in starting' <=> x \in starting)
        BY <1>t, <1>p, <1>h, <3>2 DEF HInv, Types, TypeOK, Retire, kept
      <4> QED  BY <1>0, <2>0, <2>n, <3>2, <4>1, <4>2 DEF HInv, Placed, Kinds
    <3> QED  BY <3>1, <3>2
  <2>3. Known(x)'
    <3>1. CASE x = s
      <4>1. s \notin starting' /\ (s \in servers' <=> kept)
        BY <1>p, <1>h DEF kept
      <4>2. \A i \in 1..Len(events) : ~(events[i].kind = "reply" /\ events[i].server = s)
        BY <1>p DEF NoReply
      <4>3. \A i \in 1..Len(events)' : events'[i].kind = "reply" /\ events'[i].server = s => events'[i].ok = kept
        BY <1>e, <1>a, <4>2 DEF Reply
      <4>4. s \in handlers /\ settled[s] = "served" => FALSE
        BY <1>t, <1>p, <1>u DEF HInv, Known
      <4> QED  BY <1>0, <3>1, <4>1, <4>3, <4>4 DEF Known
    <3>2. CASE x # s
      <4>1. \A kind \in Kinds : Waits(kind, x)' <=> Waits(kind, x)
        BY <1>t, <1>p, <1>h, <3>2 DEF Waits, Retire, Task, kept
      <4>2. (x \in servers' <=> x \in servers) /\ (x \in starting' <=> x \in starting)
        BY <1>p, <1>h, <3>2 DEF kept
      <4>3. \A i \in 1..Len(events)' : events'[i].kind = "reply" /\ events'[i].server = x =>
                i \in 1..Len(events) /\ events'[i] = events[i]
        BY <1>e, <1>a, <3>2 DEF Reply
      <4> QED  BY <1>0, <1>u, <2>0, <3>2, <4>1, <4>2, <4>3 DEF HInv, Known, Kinds
    <3> QED  BY <3>1, <3>2
  <2>4. Unheard(x)'
    <3>1. NoBatch(x) => NoBatch(x)'
      BY <1>e, <1>a DEF NoBatch, IsBatch, Reply
    <3>2. listener'[x] \in {"none", "open"} /\ x \notin servers' => listener[x] = listener'[x] /\ x \notin servers
      BY <1>t, <1>p, <1>h DEF HInv, Types, TypeOK, Retire, kept
    <3>3. listener'[x] = "none" => listener[x] = "none"
      BY <1>t, <1>p, <1>h DEF HInv, Types, TypeOK, Retire, kept
    <3> QED  BY <1>0, <3>1, <3>2, <3>3 DEF HInv, Unheard
  <2> QED  BY <2>1, <2>2, <2>3, <2>4 DEF Local
<1>5. ASSUME NEW x \in Servers PROVE Flows(x)'
  <2>1. Kept(x)
    <3> DEFINE E == <<Reply(s, kept)>>
    <3>1. E \in Seq(Events) /\ Len(E) = 1 /\ E[1] = Reply(s, kept) /\ events' = events \o E
      BY <1>e, <1>h, AppendIsConcat DEF HInv, Types
    <3>2. \A i \in 1..Len(E) : ~(E[i].kind = "requests" /\ E[i].server = x)
      BY <3>1 DEF Reply
    <3>3. 2 \in 1..Len(E) + 1 /\ 2 = Len(E) + 1 /\ heard'[x] = heard[x] /\ pending'[x] = pending[x]
      BY <1>0, <3>1
    <3> HIDE DEF E
    <3> QED  BY <1>1, <3>1, <3>2, <3>3, AppendKeeps DEF HInv
  <2>2. CASE x = s /\ kept
    <3>1. InOrder(s) /\ \E first \in 1..(answered[s] + 1) : Requests(s) = first..answered[s]
      BY <1>u, <2>2 DEF HInv, Flows, kept
    <3>2. PICK first \in 1..(answered[s] + 1) : Requests(s) = first..answered[s]
      BY <3>1
    <3>3. early'[s] = answered[s] /\ answered'[s] = answered[s]
      BY <1>0, <1>t, <1>h, <2>2 DEF HInv, Types
    <3>4. first <= early'[s] + 1
      BY <3>2, <3>3 DEF HInv, Types
    <3> QED  BY <2>1, <2>2, <3>1, <3>2, <3>3, <3>4 DEF Kept, Flows
  <2>3. CASE x = s /\ ~kept
    <3>1. listener'[s] # "open"
      BY <1>t, <1>p, <1>h, <2>3 DEF HInv, Types, TypeOK, Retire
    <3> QED  BY <2>3, <3>1 DEF Flows
  <2>4. CASE x # s
    <3>1. answered'[x] = answered[x] /\ listener'[x] = listener[x] /\ early'[x] = early[x]
          /\ (x \in servers' <=> x \in servers)
      BY <1>0, <1>t, <1>p, <1>h, <2>4 DEF HInv, Types, TypeOK, Retire, kept
    <3> QED  BY <1>0, <1>u, <2>1, <3>1, FlowsOn DEF HInv
  <2> QED  BY <2>2, <2>3, <2>4
<1>6. Once' /\ Posted'
  <2>1. Once'
    BY <1>0 DEF Runs, HInv
  <2>2. Deliver # Registration(s)
    BY DEF Deliver, Registration, Task
  <2>3. Queued(Deliver)' <=> Queued(Deliver)
    BY <1>q, <2>2 DEF Deliver
  <2> QED  BY <1>0, <2>1, <2>3 DEF HInv, Posted
<1> QED  BY <1>1, <1>3, <1>4, <1>5, <1>6 DEF HInv, Local

\* The drain runs a delivery of the mailbox.
LEMMA RunDeliveryKeeps ==
    ASSUME HInv, RunDelivery
    PROVE  HInv'
<1> DEFINE E == SetToSeq(Sent)
<1>0. /\ Runs(Head(ready)) /\ Head(ready).kind = "deliver" /\ ready # <<>>
      /\ pending' = [s \in Servers |-> <<>>] /\ posted' = FALSE
      /\ events' = events \o E
      /\ UNCHANGED <<lua, stage, queue, answered, starting, servers, retired, tasks, listener, open, ghost>>
  BY RunsTask DEF HInv, Types, RunDelivery, Running, Sent
<1>q. \A x : x # Deliver => (Queued(x)' <=> Queued(x))
  <2>1. Head(ready) = Deliver
    BY <1>0 DEF Runs, QueueTasks, Deliver
  <2> QED  BY <1>0, <2>1 DEF Runs
<1>b. /\ E \in Seq(Events) /\ \A i \in 1..Len(E) : E[i] \in Sent
      /\ \A i, j \in 1..Len(E) : E[i] = E[j] => i = j
      /\ \A b \in Sent : \E i \in 1..Len(E) : E[i] = b
  <2>1. IsFiniteSet(Sent) /\ Sent \subseteq Events
    BY SentFinite DEF HInv
  <2>2. E \in Seq(Sent) /\ \A i, j \in 1..Len(E) : E[i] = E[j] => i = j
    BY <2>1, SequenceOfSet
  <2>3. \A b \in Sent : \E i \in 1..Len(E) : E[i] = b
    BY <2>1, SequenceOfSet
  <2>4. E \in Seq(Events) /\ \A i \in 1..Len(E) : E[i] \in Sent
    BY <2>1, <2>2, SeqMonotonic, ElementOfSeq
  <2> QED  BY <2>2, <2>3, <2>4
<1>k. \A i \in 1..Len(E) : E[i].kind = "requests" /\ E[i].server \in servers /\ E[i] = Batch(E[i].server)
  <2> TAKE i \in 1..Len(E)
  <2>1. PICK b \in Sent : b = E[i]
    BY <1>b
  <2>2. b.kind = "requests" /\ b.server \in servers /\ b = Batch(b.server)
    <3>1. PICK u \in servers : b = Batch(u)
      BY DEF Sent
    <3> QED  BY <3>1 DEF Batch
  <2> QED  BY <2>1, <2>2
<1>e. /\ events' \in Seq(Events) /\ Len(events) \in Nat /\ Len(E) \in Nat
      /\ Len(events)' = Len(events) + Len(E)
      /\ \A i \in 1..Len(events) + Len(E) :
            events'[i] = IF i <= Len(events) THEN events[i] ELSE E[i - Len(events)]
  <2>1. events \in Seq(Events)
    BY DEF HInv, Types
  <2> HIDE DEF E
  <2> QED  BY <1>0, <1>b, <2>1, ConcatProperties, LenProperties
<1>a. \A i \in 1..Len(events)' :
          \/ i \in 1..Len(events) /\ events'[i] = events[i]
          \/ events'[i].kind = "requests" /\ events'[i].server \in servers
  <2> SUFFICES ASSUME NEW i \in 1..Len(events)', i \notin 1..Len(events)
               PROVE  events'[i].kind = "requests" /\ events'[i].server \in servers
    BY <1>e
  <2>1. i - Len(events) \in 1..Len(E) /\ i \in 1..Len(events) + Len(E) /\ ~(i <= Len(events))
    <3> HIDE DEF E
    <3> QED  BY <1>e
  <2>2. events'[i] = E[i - Len(events)]
    BY <2>1, <1>e
  <2> QED  BY <2>1, <2>2, <1>k
<1> HIDE DEF E
<1> USE DEF lua, ghost
<1>1. Types'
  <2>1. pending' \in [Servers -> Seq(Nat)]
    BY <1>0, EmptySeq
  <2> QED  BY <2>1, <1>0, <1>e DEF HInv, Types, TypeOK, Runs
<1>3. Stages'
  BY <1>0 DEF HInv, Stages
<1>4. ASSUME NEW x \in Servers PROVE Local(x)'
  <2>0. /\ Queued(Registration(x))' <=> Queued(Registration(x))
        /\ Queued(Erasure(x))' <=> Queued(Erasure(x))
    <3>1. Registration(x) # Deliver /\ Erasure(x) # Deliver
      BY DEF Registration, Erasure, Task, Deliver
    <3> QED  BY <1>q, <3>1 DEF Registration, Erasure, Task
  <2>n. NoReply(x) => NoReply(x)'
    BY <1>a DEF NoReply
  <2>1. Fresh(x)'
    BY <1>0, <2>0, <2>n DEF HInv, Fresh, Waits
  <2>2. Placed(x)'
    BY <1>0, <2>0, <2>n DEF HInv, Placed, Waits
  <2>3. Known(x)'
    <3>1. \A i \in 1..Len(events)' : events'[i].kind = "reply" => i \in 1..Len(events) /\ events'[i] = events[i]
      BY <1>a
    <3> QED  BY <1>0, <2>0, <3>1 DEF HInv, Known, Waits
  <2>4. Unheard(x)'
    <3>1. x \notin servers => (NoBatch(x) => NoBatch(x)')
      BY <1>a DEF NoBatch, IsBatch
    <3> QED  BY <1>0, <3>1 DEF HInv, Unheard
  <2> QED  BY <2>1, <2>2, <2>3, <2>4 DEF Local
<1>5. ASSUME NEW x \in Servers PROVE Flows(x)'
  <2>1. CASE x \in servers /\ pending[x] # <<>>
    <3>1. PICK j \in 1..Len(E) : E[j] = Batch(x)
      BY <2>1, <1>b DEF Sent
    <3>2. \A i \in 1..Len(E) : i # j => ~(E[i].kind = "requests" /\ E[i].server = x)
      BY <1>b, <1>k, <3>1
    <3>3. j \in 1..Len(E) + 1 /\ j # Len(E) + 1
      BY <1>e, <3>1
    <3>4. Kept(x)
      BY <1>0, <1>1, <1>b, <3>1, <3>2, <3>3, AppendKeeps DEF HInv
    <3> QED  BY <1>0, <3>4, FlowsOn DEF HInv
  <2>2. CASE x \in servers /\ pending[x] = <<>>
    <3>1. \A i \in 1..Len(E) : ~(E[i].kind = "requests" /\ E[i].server = x)
      <4>1. \A i \in 1..Len(E) : E[i].server = x => FALSE
        BY <2>2, <1>b DEF Sent, Batch
      <4> QED  BY <4>1
    <3>2. Len(E) + 1 \in 1..Len(E) + 1
      BY <1>e
    <3>3. Kept(x)
      BY ZenonT(30), <1>0, <1>1, <1>b, <2>2, <3>1, <3>2, AppendKeeps DEF HInv
    <3> QED  BY <1>0, <3>3, FlowsOn DEF HInv
  <2>3. CASE x \notin servers /\ listener[x] = "open"
    <3>1. heard'[x] = <<>> /\ pending'[x] = <<>> /\ NoBatch(x)'
      <4>1. heard[x] = <<>> /\ NoBatch(x)
        BY <2>3 DEF HInv, Unheard
      <4>2. NoBatch(x)'
        BY <1>a, <2>3, <4>1 DEF NoBatch, IsBatch
      <4> QED  BY <1>0, <4>1, <4>2
    <3>2. InOrder(x)' /\ Requests(x)' = {}
      <4>1. EmptyFlow'
        BY <1>1, NothingYet, PTL
      <4> QED  BY <3>1, <4>1 DEF EmptyFlow
    <3>3. answered'[x] \in Nat
      BY <1>1 DEF Types
    <3>4. answered'[x] + 1 \in 1..(answered'[x] + 1) /\ {} = (answered'[x] + 1)..answered'[x]
      BY <3>3
    <3> QED  BY <1>0, <2>3, <3>2, <3>4 DEF Flows
  <2>4. CASE x \notin servers /\ listener[x] # "open"
    BY <1>0, <2>4 DEF Flows
  <2> QED  BY <2>1, <2>2, <2>3, <2>4
<1>6. Once' /\ Posted'
  <2>1. Once'
    BY <1>0 DEF Runs, HInv
  <2>2. Posted'
    BY <1>0 DEF Posted
  <2> QED  BY <2>1, <2>2
<1> QED  BY <1>1, <1>3, <1>4, <1>5, <1>6 DEF HInv, Local

\* The drain erases what is left of a server that was joined.
LEMMA RunEraseKeeps ==
    ASSUME HInv, RunErase
    PROVE  HInv'
<1>0. PICK t, s :
         /\ t = Head(ready) /\ t.kind = "erase" /\ s = t.server /\ Runs(t)
         /\ retired' = retired \ {s}
         /\ UNCHANGED <<lua, stage, queue, answered, events, starting, servers, tasks, listener, box, ghost>>
  BY RunsTask DEF HInv, Types, RunErase, Running
<1>t. s \in Servers /\ t = Erasure(s) /\ Queued(Erasure(s))
  <2>1. t \in [kind : {"register", "erase"}, server : Servers] /\ t.kind = "erase"
    BY <1>0 DEF Runs, QueueTasks, Deliver
  <2>2. s \in Servers /\ t = Erasure(s)
    BY <1>0, <2>1 DEF Erasure, Task
  <2> QED  BY <1>0, <2>2 DEF Runs, Erasure, Task
<1>q. \A x : x # Erasure(s) => (Queued(x)' <=> Queued(x))
  BY <1>0, <1>t DEF Runs
<1>e. \A x : Queued(x)' => Queued(x)
  BY <1>0 DEF Runs
<1>l. listener[s] = "ended"
  BY <1>t DEF HInv, Placed
<1> USE DEF lua, box, ghost
<1>1. Types'
  BY <1>0 DEF HInv, Types, TypeOK, Runs
<1>3. Stages'
  <2>1. stage = "serving"
    BY DEF HInv, Stages, RunErase, Running
  <2> QED  BY <1>0, <2>1 DEF Stages
<1>4. ASSUME NEW x \in Servers PROVE Local(x)'
  <2>0. /\ Queued(Registration(x))' <=> Queued(Registration(x))
        /\ Queued(Erasure(x))' => Queued(Erasure(x))
    <3>1. Registration(x) # Erasure(s)
      BY DEF Registration, Erasure, Task
    <3> QED  BY <1>q, <1>e, <3>1 DEF Registration, Erasure, Task
  <2>1. Fresh(x)'
    BY <1>0, <2>0 DEF HInv, Types, TypeOK, Fresh, Waits, NoReply
  <2>2. Placed(x)'
    BY <1>0, <1>l, <2>0 DEF HInv, Types, TypeOK, Placed, Waits, NoReply
  <2>3. Known(x)'
    BY <1>0, <2>0 DEF HInv, Known, Waits
  <2>4. Unheard(x)'
    BY <1>0 DEF HInv, Unheard, NoBatch, IsBatch
  <2> QED  BY <2>1, <2>2, <2>3, <2>4 DEF Local
<1>5. ASSUME NEW x \in Servers PROVE Flows(x)'
  <2>1. Kept(x)
    BY <1>0, <1>1, SameKeeps DEF HInv
  <2> QED  BY <1>0, <2>1, FlowsOn DEF HInv
<1>6. Once' /\ Posted'
  <2>1. Once'
    BY <1>0 DEF Runs, HInv
  <2>2. Deliver # Erasure(s)
    BY DEF Deliver, Erasure, Task
  <2>3. Queued(Deliver)' <=> Queued(Deliver)
    BY <1>q, <2>2 DEF Deliver
  <2> QED  BY <1>0, <2>1, <2>3 DEF HInv, Posted
<1> QED  BY <1>1, <1>3, <1>4, <1>5, <1>6 DEF HInv, Local

\* The host is destroyed.
LEMMA DestroyHostKeeps ==
    ASSUME HInv, DestroyHost
    PROVE  HInv'
<1> USE DEF DestroyHost, Turn, lua, ghost
<1>1. Types'
  BY EmptySeq DEF HInv, Types, TypeOK
<1>2. QueueKept
  BY LeavesQueue DEF HInv
<1>3. Stages'
  BY DEF HInv, Stages
<1>4. ASSUME NEW x \in Servers PROVE Local(x)'
  <2>0. NoReply(x)' /\ NoBatch(x)'
    BY EmptySeq DEF NoReply, NoBatch
  <2>1. Fresh(x)'
    BY <1>2, <2>0 DEF HInv, Types, TypeOK, Fresh, QueueKept, Waits
  <2>2. Placed(x)'
    BY <1>2, <2>0 DEF HInv, Types, TypeOK, Placed, QueueKept, Waits
  <2>3. Known(x)'
    BY DEF Known
  <2>4. Unheard(x)'
    BY <2>0 DEF HInv, Types, TypeOK, Unheard
  <2> QED  BY <2>1, <2>2, <2>3, <2>4 DEF Local
<1>5. ASSUME NEW x \in Servers PROVE Flows(x)'
  BY DEF Flows
<1>6. Once' /\ Posted'
  BY <1>2 DEF HInv, QueueKept, Posted
<1> QED  BY <1>1, <1>3, <1>4, <1>5, <1>6 DEF HInv, Local

\* The workers ran all they had.
LEMMA ShutWorkersKeeps ==
    ASSUME HInv, ShutWorkers
    PROVE  HInv'
<1> USE DEF ShutWorkers, lua, box, ghost
<1>1. Types'
  BY DEF HInv, Types, TypeOK
<1>2. QueueKept
  BY LeavesQueue DEF HInv
<1>3. Stages'
  BY DEF HInv, Stages
<1>4. ASSUME NEW x \in Servers PROVE Local(x)'
  <2>1. Fresh(x)'
    BY <1>2 DEF HInv, Fresh, QueueKept, Waits, NoReply
  <2>2. Placed(x)'
    BY <1>2 DEF HInv, Placed, QueueKept, Waits, NoReply
  <2>3. Known(x)'
    BY DEF Known
  <2>4. Unheard(x)'
    BY DEF HInv, Unheard, NoBatch, IsBatch
  <2> QED  BY <2>1, <2>2, <2>3, <2>4 DEF Local
<1>5. ASSUME NEW x \in Servers PROVE Flows(x)'
  BY DEF Flows
<1>6. Once' /\ Posted'
  BY <1>2 DEF HInv, QueueKept, Posted
<1> QED  BY <1>1, <1>3, <1>4, <1>5, <1>6 DEF HInv, Local

\* The last drain destroys what the queue holds.
LEMMA LastDrainKeeps ==
    ASSUME HInv, LastDrain
    PROVE  HInv'
<1> USE DEF LastDrain, lua, box, ghost
<1>1. Types'
  BY EmptySeq DEF HInv, Types, TypeOK
<1>2. Whole = queue /\ Whole' = <<>>
  <2>1. ready = <<>>
    BY DEF HInv, Stages
  <2> QED  BY <2>1, ConcatEmptySeq, EmptySeq DEF HInv, Types, Whole
<1>3. Stages'
  BY DEF HInv, Stages
<1>e. (\A x : ~Queued(x)') /\ Once'
  BY <1>2, EmptySeq DEF Queued, Contains, Whole, Once
<1>q. \A x : Queued(x) <=> Contains(queue, x)
  BY <1>2 DEF Queued, Whole
<1>4. ASSUME NEW x \in Servers PROVE Local(x)'
  <2>1. Fresh(x)'
    BY <1>e, <1>q DEF HInv, Types, TypeOK, Fresh, Waits, NoReply, Stages
  <2>2. Placed(x)'
    <3>1. tasks = {} /\ servers = {}
      BY DEF HInv, Stages
    <3>2. listener'[x] \notin {"open", "closing"}
      BY <1>q, <3>1 DEF HInv, Types, TypeOK, Placed, Waits
    <3> QED  BY <1>e, <3>1, <3>2 DEF Placed, Waits
  <2>3. Known(x)'
    BY DEF Known
  <2>4. Unheard(x)'
    BY DEF HInv, Types, TypeOK, Unheard, NoBatch, IsBatch
  <2> QED  BY <2>1, <2>2, <2>3, <2>4 DEF Local
<1>5. ASSUME NEW x \in Servers PROVE Flows(x)'
  BY DEF Flows
<1> QED  BY <1>1, <1>3, <1>4, <1>5, <1>e DEF HInv, Local, Posted

-----------------------------------------------------------------------------
\* The invariant holds before any plugin asks for a server.
LEMMA InitHolds == Init => HInv
<1> SUFFICES ASSUME Init PROVE HInv
  OBVIOUS
<1> USE DEF Init
<1>1. Types
  <2>1. \A s \in Servers : Asked[s] \in Nat /\ answered[s] \in 0..Asked[s] /\ early[s] \in 0..answered[s]
    BY HttpAssumption
  <2>2. open = (stage = "serving")
    OBVIOUS
  <2> QED  BY <2>1, <2>2, EmptySeq DEF Types, TypeOK
<1>2. \A x : ~Queued(x)
  BY EmptySeq, ConcatEmptySeq DEF Queued, Contains
<1>3. Once
  BY EmptySeq, ConcatEmptySeq DEF Once, Whole
<1>4. ASSUME NEW x \in Servers PROVE Local(x)
  BY <1>2, EmptySeq DEF Local, Fresh, Placed, Known, Unheard, Waits, NoReply, NoBatch
<1>5. ASSUME NEW x \in Servers PROVE Flows(x)
  BY DEF Flows
<1> QED  BY <1>1, <1>2, <1>3, <1>4, <1>5 DEF HInv, Local, Posted, Stages

\* Every step keeps it.
LEMMA NextHolds == HInv /\ [Next]_vars => HInv'
<1> SUFFICES ASSUME HInv, [Next]_vars PROVE HInv'
  OBVIOUS
<1>1. ASSUME NEW s \in Servers, Serve(s) \/ Stop(s) \/ Work(s) \/ Answer(s) PROVE HInv'
  BY <1>1, ServeKeeps, StopKeeps, BindKeeps, PostRegistrationKeeps, JoinKeeps, AnswerKeeps DEF Work
<1>2. ASSUME NEW p \in Plugins, Withdraw(p) \/ Register(p) PROVE HInv'
  BY <1>2, WithdrawKeeps, RegisterKeeps
<1>3. CASE MainTurn
  BY <1>3, HearKeeps, DrainKeeps, RunRegistrationKeeps, RunDeliveryKeeps, RunEraseKeeps DEF MainTurn
<1>4. CASE DestroyHost
  BY <1>4, DestroyHostKeeps
<1>5. CASE Closing
  BY <1>5, ShutWorkersKeeps, LastDrainKeeps DEF Closing
<1>6. CASE UNCHANGED vars
  <2> USE <1>6 DEF vars, lua, box, ghost
  <2>1. Types' /\ Stages' /\ Once' /\ Posted'
    BY DEF HInv, Types, TypeOK, Stages, Once, Whole, Posted, Queued, Contains
  <2>2. ASSUME NEW x \in Servers PROVE Local(x)'
    BY DEF HInv, Local, Fresh, Placed, Known, Unheard, Waits, NoReply, NoBatch, IsBatch, Queued, Contains
  <2>3. ASSUME NEW x \in Servers PROVE Flows(x)'
    <3>1. Kept(x)
      BY <2>1, SameKeeps DEF HInv
    <3> QED  BY <3>1, FlowsOn DEF HInv
  <2> QED  BY <2>1, <2>2, <2>3 DEF HInv, Local
<1> QED  BY <1>1, <1>2, <1>3, <1>4, <1>5, <1>6 DEF Next

\* The invariant of the host holds for every set of servers and plugins.
THEOREM HostInvariance == Spec => []HInv
BY InitHolds, NextHolds, PTL DEF Spec

\* Nothing listens that nobody will end, and both sides of the bridge agree.
THEOREM ServersHeld == Spec => []Held
<1>1. HInv => Held
  <2> SUFFICES ASSUME HInv PROVE Held
    OBVIOUS
  <2>1. TypeOK
    BY DEF HInv, Types
  <2>2. ASSUME NEW s \in Servers
        PROVE  /\ listener[s] = "open" =>
                     \/ Task("post", s) \in tasks \/ Queued(Registration(s))
                     \/ s \in servers /\ OwnerOf[s] \in registered
               /\ listener[s] = "closing" => Task("stop", s) \in tasks /\ (stage = "serving" => s \in retired)
               /\ s \in servers => listener[s] = "open" /\ s \in handlers
    BY DEF HInv, Placed, Waits
  <2>3. ASSUME NEW s \in Servers, stage = "gone" PROVE listener[s] \notin {"open", "closing"}
    <3>1. ready = <<>> /\ queue = <<>> /\ tasks = {} /\ servers = {}
      BY <2>3 DEF HInv, Stages
    <3>2. ~Queued(Registration(s))
      BY <3>1, EmptySeq, ConcatEmptySeq DEF Queued, Contains
    <3> QED  BY <2>3, <3>1, <3>2 DEF HInv, Placed, Waits
  <2>4. stage = "serving" => \A s \in handlers : settled[s] = "served" => s \in servers
    BY <2>1 DEF HInv, Known, TypeOK
  <2> QED  BY <2>1, <2>2, <2>3, <2>4 DEF Held
<1> QED  BY <1>1, HostInvariance, PTL

\* What a registered server answers reaches its plugin once, in order, without a gap.
THEOREM RequestsReach == Spec => []NothingLost
<1>1. HInv => NothingLost
  <2> SUFFICES ASSUME HInv PROVE NothingLost
    OBVIOUS
  <2>1. ASSUME NEW s \in servers
        PROVE  InOrder(s) /\ \E first \in 1..(early[s] + 1) : Requests(s) = first..answered[s]
    <3>1. s \in Servers /\ listener[s] = "open" /\ stage = "serving" /\ early[s] \in Nat
      BY <2>1 DEF HInv, Types, TypeOK, Placed, Stages
    <3>2. InOrder(s) /\ \E first \in 1..(answered[s] + 1) :
              Requests(s) = first..answered[s] /\ first <= early[s] + 1
      BY <2>1, <3>1 DEF HInv, Flows
    <3>3. PICK first \in 1..(answered[s] + 1) : Requests(s) = first..answered[s] /\ first <= early[s] + 1
      BY <3>2
    <3>4. first \in 1..(early[s] + 1)
      BY <3>1, <3>3
    <3> QED  BY <3>2, <3>3, <3>4
  <2>2. stage = "serving" /\ (\E s \in Servers : pending[s] # <<>>) => Queued(Deliver)
    BY DEF HInv, Posted
  <2> QED  BY <2>1, <2>2 DEF NothingLost
<1> QED  BY <1>1, HostInvariance, PTL
=============================================================================
