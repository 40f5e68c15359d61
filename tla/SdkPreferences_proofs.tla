----------------------- MODULE SdkPreferences_proofs -----------------------
(***************************************************************************)
(* Proofs about the preferences, from the bottom up:  the executor for any *)
(* works, the preference store, which is a client of the executor, and the *)
(* SDK, which is one of the store.  What is proved of each holds whatever  *)
(* its clients do.                                                         *)
(***************************************************************************)
EXTENDS SdkPreferences, SequenceTheorems, TLAPS

-----------------------------------------------------------------------------
(***************************************************************************)
(* The executor:  type correctness, that no work is lost or reordered,     *)
(* that the connection is closed only after all of it ran, and that the    *)
(* closing cuts at most one core work.                                     *)
(***************************************************************************)

(***************************************************************************)
(* Facts about sequences of answers.                                       *)
(***************************************************************************)

\* The works of a sequence of answers are a sequence of works.
LEMMA WorksOfType ==
    ASSUME NEW s \in Seq(Answers)
    PROVE  WorksOf(s) \in Seq(Work) /\ Len(WorksOf(s)) = Len(s)
<1>1. \A i \in 1..Len(s) : s[i].work \in Work
  <2>1. \A i \in 1..Len(s) : s[i] \in Answers
    BY ElementOfSeq
  <2> QED  BY <2>1 DEF Answers
<1>2. Len(s) \in Nat
  BY LenProperties
<1> QED  BY <1>1, <1>2 DEF WorksOf

\* WorksOf turns concatenation of answers into concatenation of works.
LEMMA WorksOfConcat ==
    ASSUME NEW s \in Seq(Answers), NEW t \in Seq(Answers)
    PROVE  WorksOf(s \o t) = WorksOf(s) \o WorksOf(t)
<1>1. /\ s \o t \in Seq(Answers)
      /\ Len(s \o t) = Len(s) + Len(t)
      /\ \A i \in 1..Len(s) + Len(t) :
            (s \o t)[i] = IF i <= Len(s) THEN s[i] ELSE t[i - Len(s)]
  BY ConcatProperties
<1>2. /\ WorksOf(s) \in Seq(Work) /\ Len(WorksOf(s)) = Len(s)
      /\ WorksOf(t) \in Seq(Work) /\ Len(WorksOf(t)) = Len(t)
      /\ WorksOf(s \o t) \in Seq(Work) /\ Len(WorksOf(s \o t)) = Len(s \o t)
  BY <1>1, WorksOfType
<1>3. /\ WorksOf(s) \o WorksOf(t) \in Seq(Work)
      /\ Len(WorksOf(s) \o WorksOf(t)) = Len(s) + Len(t)
      /\ \A i \in 1..Len(s) + Len(t) :
            (WorksOf(s) \o WorksOf(t))[i] =
                IF i <= Len(s) THEN WorksOf(s)[i] ELSE WorksOf(t)[i - Len(s)]
  BY <1>2, ConcatProperties
<1>4. Len(s) \in Nat /\ Len(t) \in Nat
  BY LenProperties
<1>5. ASSUME NEW i \in 1..Len(s) + Len(t)
      PROVE  WorksOf(s \o t)[i] = (WorksOf(s) \o WorksOf(t))[i]
  <2>1. WorksOf(s \o t)[i] = (s \o t)[i].work
    BY <1>1, <1>5 DEF WorksOf
  <2>2. CASE i <= Len(s)
    BY <2>1, <2>2, <1>1, <1>3, <1>4, <1>5 DEF WorksOf
  <2>3. CASE ~(i <= Len(s))
    <3>1. i - Len(s) \in 1..Len(t)
      BY <2>3, <1>4, <1>5
    <3> QED  BY <3>1, <2>1, <2>3, <1>1, <1>3, <1>5 DEF WorksOf
  <2> QED  BY <2>2, <2>3
<1> QED  BY <1>1, <1>2, <1>3, <1>5, SeqEqual

\* A non-empty sequence is its head followed by its tail.
LEMMA HeadThenTail ==
    ASSUME NEW S, NEW s \in Seq(S), s # <<>>
    PROVE  /\ Head(s) \in S /\ Tail(s) \in Seq(S)
           /\ s = <<Head(s)>> \o Tail(s)
<1>1. /\ Head(s) \in S /\ Tail(s) \in Seq(S)
      /\ Len(Tail(s)) = Len(s) - 1
      /\ \A i \in 1..Len(Tail(s)) : Tail(s)[i] = s[i + 1]
  BY HeadTailProperties
<1>2. Len(s) \in Nat /\ Len(s) >= 1
  BY EmptySeq
<1>3. <<Head(s)>> \in Seq(S) /\ Len(<<Head(s)>>) = 1 /\ <<Head(s)>>[1] = s[1]
  BY <1>1
<1>4. /\ <<Head(s)>> \o Tail(s) \in Seq(S)
      /\ Len(<<Head(s)>> \o Tail(s)) = Len(s)
      /\ \A i \in 1..Len(s) :
            (<<Head(s)>> \o Tail(s))[i] = IF i <= 1 THEN <<Head(s)>>[i] ELSE Tail(s)[i - 1]
  BY <1>1, <1>2, <1>3, ConcatProperties
<1>5. \A i \in 1..Len(s) : (<<Head(s)>> \o Tail(s))[i] = s[i]
  BY <1>1, <1>2, <1>3, <1>4
<1> QED  BY <1>1, <1>4, <1>5, SeqEqual

-----------------------------------------------------------------------------
(***************************************************************************)
(* Type correctness.                                                       *)
(***************************************************************************)

\* The types hold at the start.
LEMMA InitType == Init => TypeOK
BY EmptySeq DEF Init, TypeOK, Stages

\* Every step keeps the types.
LEMMA NextType == TypeOK /\ [Next]_vars => TypeOK'
<1> SUFFICES ASSUME TypeOK, [Next]_vars PROVE TypeOK'
  OBVIOUS
<1> USE WorkAssumption DEF TypeOK, Stages
<1>1. ASSUME NEW w \in Work, Submit(w) PROVE TypeOK'
  <2>1. Append(queue, w) \in Seq(Work) /\ Append(accepted, w) \in Seq(Work)
    BY AppendProperties
  <2> QED  BY <1>1, <2>1 DEF Submit, Enqueue
<1>2. CASE Take
  <2>1. Head(queue) \in Work /\ Tail(queue) \in Seq(Work)
    BY <1>2, HeadThenTail DEF Take
  <2> QED  BY <1>2, <2>1 DEF Take
<1>3. CASE Leave
  BY <1>3 DEF Leave
<1>4. ASSUME NEW outcome \in Outcomes, Finish(outcome) PROVE TypeOK'
  <2>1. [work |-> held, outcome |-> outcome] \in Answers
    BY <1>4 DEF Finish, Answers
  <2>2. posted' \in Seq(Answers)
    BY <1>4, <2>1 DEF Finish
  <2> QED  BY <1>4, <2>2 DEF Finish
<1>5. CASE Drain
  BY <1>5 DEF Drain
<1>6. CASE Deliver
  <2>1. Head(ready) \in Answers /\ Tail(ready) \in Seq(Answers)
    BY <1>6, HeadThenTail DEF Deliver
  <2> QED  BY <1>6, <2>1 DEF Deliver
<1>7. CASE BeginShutdown
  BY <1>7 DEF BeginShutdown
<1>8. CASE Drained
  BY <1>8 DEF Drained
<1>9. CASE Interrupt
  BY <1>9 DEF Interrupt
<1>10. CASE Close
  BY <1>10 DEF Close
<1>11. CASE LastDrain
  BY <1>11 DEF LastDrain
<1>12. CASE UNCHANGED vars
  BY <1>12 DEF vars
<1> QED
  BY <1>1, <1>2, <1>3, <1>4, <1>5, <1>6, <1>7, <1>8, <1>9, <1>10, <1>11, <1>12 DEF Next

\* Type correctness of the executor and its queues.
THEOREM TypeCorrect == Spec => []TypeOK
BY InitType, NextType, PTL DEF Spec

-----------------------------------------------------------------------------
(***************************************************************************)
(* Conservation: accepted work is answered, waits or runs, in its order.   *)
(***************************************************************************)

\* Every step keeps accepted equal to what the pipeline holds, in order.
LEMMA NextConserved == TypeOK /\ StagesAgree /\ Conserved /\ [Next]_vars => Conserved'
<1> SUFFICES ASSUME TypeOK, StagesAgree, Conserved, [Next]_vars PROVE Conserved'
  OBVIOUS
<1> DEFINE A == WorksOf(answered)
           R == WorksOf(ready)
           P == WorksOf(posted)
<1>t. /\ A \in Seq(Work) /\ R \in Seq(Work) /\ P \in Seq(Work)
      /\ Holding \in Seq(Work) /\ queue \in Seq(Work) /\ accepted \in Seq(Work)
  BY WorksOfType DEF TypeOK, Holding
<1>c. accepted = A \o R \o P \o Holding \o queue
  BY DEF Conserved
<1>e. WorksOf(<<>>) = <<>>
  BY DEF WorksOf
<1>1. ASSUME NEW w \in Work, Submit(w) PROVE Conserved'
  <2>1. CASE closed
    BY <2>1, <1>1 DEF Submit, Enqueue, Conserved, Holding, WorksOf
  <2>2. CASE ~closed
    <3>1. /\ accepted' = Append(accepted, w) /\ queue' = Append(queue, w)
          /\ UNCHANGED <<answered, ready, posted, held>>
      BY <2>2, <1>1 DEF Submit, Enqueue
    <3>2. A \o R \o P \o Holding \in Seq(Work) /\ <<w>> \in Seq(Work)
      BY <1>t, ConcatProperties
    <3>3. accepted' = A \o R \o P \o Holding \o (queue \o <<w>>)
      <4> DEFINE X == A \o R \o P \o Holding
      <4>1. X \in Seq(Work) /\ accepted = X \o queue
        BY <3>2, <1>c
      <4> HIDE DEF X
      <4>2. accepted' = (X \o queue) \o <<w>>
        BY <3>1, <4>1, <1>t, AppendIsConcat
      <4>3. X \in Seq(Work) /\ queue \in Seq(Work) /\ <<w>> \in Seq(Work)
        BY <4>1, <3>2, <1>t
      <4>4. (X \o queue) \o <<w>> = X \o (queue \o <<w>>)
        BY <4>3, ConcatAssociative
      <4> QED  BY <4>2, <4>4 DEF X
    <3>4. queue' = queue \o <<w>>
      BY <3>1, <1>t, AppendIsConcat
    <3> QED  BY <3>1, <3>3, <3>4 DEF Conserved, Holding, WorksOf
  <2> QED  BY <2>1, <2>2
<1>2. CASE Take
  <2>1. /\ held = None /\ held' = Head(queue) /\ queue' = Tail(queue) /\ queue # <<>>
        /\ UNCHANGED <<answered, ready, posted, accepted>>
    BY <1>2 DEF Take
  <2>2. /\ Head(queue) \in Work /\ Tail(queue) \in Seq(Work)
        /\ queue = <<Head(queue)>> \o Tail(queue)
    BY <2>1, <1>t, HeadThenTail
  <2>3. Holding = <<>> /\ Holding' = <<Head(queue)>>
    BY <2>1, <2>2, WorkAssumption DEF Holding
  <2>4. A \o R \o P \in Seq(Work) /\ <<Head(queue)>> \in Seq(Work)
    BY <1>t, <2>2, ConcatProperties
  <2>5. accepted = A \o R \o P \o (<<Head(queue)>> \o Tail(queue))
    BY <1>c, <2>2, <2>3, <2>4, ConcatEmptySeq
  <2>6. accepted = A \o R \o P \o <<Head(queue)>> \o Tail(queue)
    <3> DEFINE X == A \o R \o P
               Y == <<Head(queue)>>
               Z == Tail(queue)
    <3>1. X \in Seq(Work) /\ Y \in Seq(Work) /\ Z \in Seq(Work) /\ accepted = X \o (Y \o Z)
      BY <2>2, <2>4, <2>5
    <3> HIDE DEF X, Y, Z
    <3>2. accepted = (X \o Y) \o Z
      BY SMTT(30), <3>1, ConcatAssociative
    <3> QED  BY <3>2 DEF X, Y, Z
  <2> QED  BY <2>1, <2>3, <2>6 DEF Conserved, WorksOf
<1>3. CASE Leave
  BY <1>3 DEF Leave, Conserved, Holding, WorksOf
<1>4. ASSUME NEW outcome \in Outcomes, Finish(outcome) PROVE Conserved'
  <2> DEFINE a == [work |-> held, outcome |-> outcome]
  <2>1. /\ held # None /\ held' = None /\ posted' = Append(posted, a)
        /\ UNCHANGED <<answered, ready, queue, accepted>>
    BY <1>4 DEF Finish
  <2>2. held \in Work /\ a \in Answers
    BY <2>1 DEF TypeOK, Answers
  <2>3. posted \in Seq(Answers) /\ <<a>> \in Seq(Answers)
    BY <2>2 DEF TypeOK
  <2>4. posted' = posted \o <<a>>
    BY <2>1, <2>2, <2>3, AppendIsConcat
  <2>5. WorksOf(<<a>>) = <<held>>
    BY DEF WorksOf
  <2>6. WorksOf(posted') = P \o <<held>>
    BY <2>3, <2>4, <2>5, WorksOfConcat
  <2>7. Holding = <<held>> /\ Holding' = <<>>
    BY <2>1 DEF Holding
  <2>8. A \o R \in Seq(Work) /\ <<held>> \in Seq(Work) /\ A \o R \o (P \o <<held>>) \in Seq(Work)
    BY <1>t, <2>2, ConcatProperties
  <2>9. accepted = A \o R \o (P \o <<held>>) \o queue
    BY <1>c, <1>t, <2>7, <2>8, ConcatAssociative
  <2>10. accepted = A \o R \o (P \o <<held>>) \o <<>> \o queue
    BY <2>8, <2>9, ConcatEmptySeq
  <2> QED  BY <2>1, <2>6, <2>7, <2>10 DEF Conserved
<1>5. ASSUME ready = <<>>, ready' = posted, posted' = <<>>,
             UNCHANGED <<answered, held, queue, accepted>>
      PROVE  Conserved'
  <2>1. R = <<>> /\ WorksOf(ready') = P /\ WorksOf(posted') = <<>>
    BY <1>5, <1>e
  <2>2. A \o R = A /\ A \o P \in Seq(Work)
    BY <2>1, <1>t, ConcatEmptySeq, ConcatProperties
  <2>3. accepted = A \o P \o <<>> \o Holding \o queue
    BY <2>2, <1>c, <1>t, ConcatEmptySeq
  <2> QED  BY <1>5, <2>1, <2>3 DEF Conserved, Holding
<1>6. CASE Deliver
  <2> DEFINE a == Head(ready)
  <2>1. /\ ready # <<>> /\ answered' = Append(answered, a) /\ ready' = Tail(ready)
        /\ UNCHANGED <<posted, held, queue, accepted>>
    BY <1>6 DEF Deliver
  <2>2. /\ a \in Answers /\ Tail(ready) \in Seq(Answers)
        /\ ready = <<a>> \o Tail(ready)
    BY <2>1, HeadThenTail DEF TypeOK
  <2>3. <<a>> \in Seq(Answers) /\ answered \in Seq(Answers)
    BY <2>2 DEF TypeOK
  <2>4. answered' = answered \o <<a>>
    BY <2>1, <2>2, <2>3, AppendIsConcat
  <2>5. /\ WorksOf(answered') = A \o WorksOf(<<a>>)
        /\ R = WorksOf(<<a>>) \o WorksOf(ready')
    BY <2>1, <2>2, <2>3, <2>4, WorksOfConcat
  <2>6. WorksOf(<<a>>) \in Seq(Work) /\ WorksOf(ready') \in Seq(Work)
    BY <2>1, <2>2, <2>3, WorksOfType
  <2>7. A \o R = WorksOf(answered') \o WorksOf(ready')
    <3> DEFINE X == A
               Y == WorksOf(<<a>>)
               Z == WorksOf(ready')
    <3>1. X \in Seq(Work) /\ Y \in Seq(Work) /\ Z \in Seq(Work)
      BY <2>6, <1>t
    <3>2. R = Y \o Z /\ WorksOf(answered') = X \o Y
      BY <2>5
    <3>3. X \o (Y \o Z) = (X \o Y) \o Z
      <4> HIDE DEF X, Y, Z
      <4> QED  BY <3>1, ConcatAssociative
    <3> QED  BY <3>2, <3>3
  <2> QED  BY <2>1, <2>7, <1>c DEF Conserved, Holding
<1>7. CASE BeginShutdown
  BY <1>7 DEF BeginShutdown, Conserved, Holding, WorksOf
<1>8. CASE Drained
  BY <1>8 DEF Drained, Conserved, Holding, WorksOf
<1>9. CASE Interrupt
  BY <1>9 DEF Interrupt, Conserved, Holding, WorksOf
<1>10. CASE Close
  BY <1>10 DEF Close, Conserved, Holding, WorksOf
<1>11. CASE UNCHANGED vars
  BY <1>11 DEF vars, Conserved, Holding, WorksOf
<1> QED
  BY <1>1, <1>2, <1>3, <1>4, <1>5, <1>6, <1>7, <1>8, <1>9, <1>10, <1>11 DEF Next, Drain, LastDrain, StagesAgree

-----------------------------------------------------------------------------
(***************************************************************************)
(* The stages of the closing.                                              *)
(***************************************************************************)

\* Every step keeps the stages, the flags and the worker in agreement.
LEMMA NextStages == TypeOK /\ StagesAgree /\ [Next]_vars => StagesAgree'
<1> SUFFICES ASSUME TypeOK, StagesAgree, [Next]_vars PROVE StagesAgree'
  OBVIOUS
<1> USE DEF StagesAgree
<1>1. ASSUME NEW w \in Work, Submit(w) PROVE StagesAgree'
  BY <1>1 DEF Submit, Enqueue
<1>2. CASE Take
  BY <1>2 DEF Take
<1>3. CASE Leave
  BY <1>3 DEF Leave
<1>4. ASSUME NEW outcome \in Outcomes, Finish(outcome) PROVE StagesAgree'
  BY <1>4 DEF Finish
<1>5. CASE Drain
  BY <1>5 DEF Drain
<1>6. CASE Deliver
  BY <1>6 DEF Deliver
<1>7. CASE BeginShutdown
  BY <1>7 DEF BeginShutdown
<1>8. CASE Drained
  BY <1>8 DEF Drained
<1>9. CASE Interrupt
  BY <1>9 DEF Interrupt, TypeOK
<1>10. CASE Close
  BY <1>10 DEF Close
<1>11. CASE LastDrain
  BY <1>11 DEF LastDrain
<1>12. CASE UNCHANGED vars
  BY <1>12 DEF vars
<1> QED
  BY <1>1, <1>2, <1>3, <1>4, <1>5, <1>6, <1>7, <1>8, <1>9, <1>10, <1>11, <1>12 DEF Next

-----------------------------------------------------------------------------
(***************************************************************************)
(* At most one core statement is cut.                                      *)
(***************************************************************************)

\* Appending an answer adds at most its own index to the core cuts.
LEMMA CoreAppend ==
    ASSUME NEW s \in Seq(Answers), NEW a \in Answers
    PROVE  /\ Core(s) \subseteq 1..Len(s)
           /\ Core(s \o <<a>>) =
                Core(s) \cup (IF a.outcome = "interrupted" /\ a.work \notin Plugin
                             THEN {Len(s) + 1} ELSE {})
<1>1. <<a>> \in Seq(Answers) /\ Len(<<a>>) = 1 /\ <<a>>[1] = a
  OBVIOUS
<1>2. /\ Len(s \o <<a>>) = Len(s) + 1
      /\ \A i \in 1..Len(s) + 1 :
            (s \o <<a>>)[i] = IF i <= Len(s) THEN s[i] ELSE <<a>>[i - Len(s)]
  BY <1>1, ConcatProperties
<1>3. Len(s) \in Nat
  BY LenProperties
<1>4. \A i \in 1..Len(s) : (s \o <<a>>)[i] = s[i]
  BY <1>2, <1>3
<1>5. (s \o <<a>>)[Len(s) + 1] = a
  BY <1>1, <1>2, <1>3
<1>6. 1..Len(s) + 1 = (1..Len(s)) \cup {Len(s) + 1}
  BY <1>3
<1> QED  BY <1>2, <1>4, <1>5, <1>6 DEF Core

\* Every step keeps the core cuts to one.
LEMMA NextCutOnce == TypeOK /\ StagesAgree /\ CutOnce /\ [Next]_vars => CutOnce'
<1> SUFFICES ASSUME TypeOK, StagesAgree, CutOnce, [Next]_vars PROVE CutOnce'
  OBVIOUS
<1> DEFINE All == answered \o ready \o posted
<1>t. /\ answered \in Seq(Answers) /\ ready \in Seq(Answers) /\ posted \in Seq(Answers)
      /\ answered \o ready \in Seq(Answers) /\ All \in Seq(Answers)
  BY ConcatProperties DEF TypeOK
<1>c. /\ ~interrupting => Core(All) = {}
      /\ cut /\ held \notin Plugin => Core(All) = {}
      /\ \A i, j \in Core(All) : i = j
  BY DEF CutOnce
<1>1. ASSUME All' = All, held' = held, cut' = cut, interrupting' = interrupting
      PROVE  CutOnce'
  BY <1>1, <1>c DEF CutOnce
<1>2. ASSUME NEW w \in Work, Submit(w) PROVE CutOnce'
  BY <1>1, <1>2 DEF Submit
<1>3. CASE Take
  <2>1. All' = All /\ cut' = FALSE /\ interrupting' = interrupting
    BY <1>3 DEF Take
  <2> QED  BY <2>1, <1>c DEF CutOnce
<1>4. ASSUME NEW outcome \in Outcomes, Finish(outcome) PROVE CutOnce'
  <2> DEFINE a == [work |-> held, outcome |-> outcome]
  <2>1. /\ held # None /\ MayEnd(outcome) /\ cut' = FALSE /\ interrupting' = interrupting
        /\ posted' = Append(posted, a) /\ UNCHANGED <<answered, ready>>
    BY <1>4 DEF Finish
  <2>2. a \in Answers /\ a.outcome = outcome /\ a.work = held
    BY <2>1 DEF TypeOK, Answers
  <2>3. All' = All \o <<a>>
    <3>1. <<a>> \in Seq(Answers) /\ posted' = posted \o <<a>>
      BY <2>1, <2>2, <1>t, AppendIsConcat
    <3>2. All' = (answered \o ready) \o (posted \o <<a>>)
      BY <2>1, <3>1
    <3> DEFINE X == answered \o ready
               Y == posted
               Z == <<a>>
    <3>3. X \in Seq(Answers) /\ Y \in Seq(Answers) /\ Z \in Seq(Answers)
      BY <1>t, <3>1
    <3> HIDE DEF X, Y, Z
    <3>4. X \o (Y \o Z) = (X \o Y) \o Z
      BY <3>3, ConcatAssociative
    <3> QED  BY <3>2, <3>4 DEF X, Y, Z
  <2>4. Core(All') = Core(All) \cup (IF outcome = "interrupted" /\ held \notin Plugin
                                     THEN {Len(All) + 1} ELSE {})
    <3> HIDE DEF All, a
    <3> QED  BY <2>2, <2>3, <1>t, CoreAppend
  <2>5. CASE outcome = "interrupted" /\ held \notin Plugin
    <3>1. cut /\ interrupting /\ Core(All) = {}
      BY <2>1, <2>5, <1>c DEF MayEnd, StagesAgree
    <3> QED  BY <2>1, <2>4, <2>5, <3>1 DEF CutOnce
  <2>6. CASE ~(outcome = "interrupted" /\ held \notin Plugin)
    BY <2>1, <2>4, <2>6, <1>c DEF CutOnce
  <2> QED  BY <2>5, <2>6
<1>5. ASSUME ready = <<>>, ready' = posted, posted' = <<>>,
             UNCHANGED <<answered, held, cut, interrupting>>
      PROVE  CutOnce'
  <2>1. answered \o ready = answered /\ answered \o posted \in Seq(Answers)
    BY <1>5, <1>t, ConcatEmptySeq, ConcatProperties
  <2>2. All' = All
    BY <1>5, <2>1, <1>t, ConcatEmptySeq
  <2> QED  BY <1>1, <1>5, <2>2
<1>6. CASE Deliver
  <2> DEFINE a == Head(ready)
  <2>1. /\ ready # <<>> /\ answered' = Append(answered, a) /\ ready' = Tail(ready)
        /\ UNCHANGED <<posted, held, cut, interrupting>>
    BY <1>6 DEF Deliver
  <2>2. /\ a \in Answers /\ Tail(ready) \in Seq(Answers)
        /\ ready = <<a>> \o Tail(ready)
    BY <2>1, <1>t, HeadThenTail
  <2>3. answered' = answered \o <<a>> /\ <<a>> \in Seq(Answers)
    BY <2>1, <2>2, <1>t, AppendIsConcat
  <2> DEFINE X == answered
             Y == <<a>>
             Z == Tail(ready)
  <2>4. X \in Seq(Answers) /\ Y \in Seq(Answers) /\ Z \in Seq(Answers)
    BY <1>t, <2>2, <2>3
  <2>5. X \o (Y \o Z) = (X \o Y) \o Z
    <3> HIDE DEF X, Y, Z
    <3> QED  BY <2>4, ConcatAssociative
  <2>6. answered' \o ready' = answered \o ready
    BY <2>1, <2>2, <2>3, <2>5
  <2>7. All' = All
    BY <2>1, <2>6
  <2> QED  BY <1>1, <2>1, <2>7
<1>7. CASE Interrupt
  <2>1. All' = All /\ Core(All) = {}
    BY <1>7, <1>c DEF Interrupt, StagesAgree
  <2> QED  BY <2>1 DEF CutOnce
<1>8. CASE UNCHANGED <<answered, ready, posted, held, cut, interrupting>>
  <2>1. All' = All
    BY <1>8
  <2> QED  BY <1>1, <1>8, <2>1
<1> QED
  BY <1>2, <1>3, <1>4, <1>5, <1>6, <1>7, <1>8
     DEF Next, Drain, LastDrain, StagesAgree, vars, Leave, BeginShutdown, Drained, Close

-----------------------------------------------------------------------------
(***************************************************************************)
(* The theorems of the executor.                                           *)
(***************************************************************************)

\* The inductive invariant holds at the start.
LEMMA InitInv == Init => Inv
<1> SUFFICES ASSUME Init PROVE Inv
  OBVIOUS
<1>1. TypeOK
  BY InitType
<1>2. StagesAgree
  BY DEF Init, StagesAgree
<1>3. WorksOf(<<>>) = <<>> /\ <<>> \o <<>> = <<>> /\ Core(<<>>) = {}
  <2>1. Len(<<>>) = 0
    OBVIOUS
  <2> QED  BY <2>1, ConcatEmptySeq, EmptySeq DEF WorksOf, Core
<1>4. Conserved
  BY <1>3 DEF Init, Conserved, Holding
<1>5. CutOnce
  BY <1>3 DEF Init, CutOnce
<1> QED  BY <1>1, <1>2, <1>4, <1>5 DEF Inv

\* The inductive invariant holds in every reachable state.
THEOREM Invariance == Spec => []Inv
<1>1. Inv /\ [Next]_vars => Inv'
  BY NextType, NextStages, NextConserved, NextCutOnce DEF Inv
<1> QED  BY <1>1, InitInv, PTL DEF Spec

\* No accepted work is lost, doubled or overtaken, whatever the works are.
THEOREM WorkConserved == Spec => []Conserved
<1>1. Inv => Conserved
  BY DEF Inv
<1> QED  BY <1>1, Invariance, PTL

\* The connection is closed only after every accepted work ran.
THEOREM ClosesAfterAll == Spec => []ClosedAfterAll
<1>1. Inv => ClosedAfterAll
  BY DEF Inv, StagesAgree, ClosedAfterAll
<1> QED  BY <1>1, Invariance, PTL

\* The closing cuts at most one core work.
THEOREM CutsOneCore == Spec => []OneCoreCut
<1>1. Inv => OneCoreCut
  BY DEF Inv, CutOnce, OneCoreCut
<1> QED  BY <1>1, Invariance, PTL

-----------------------------------------------------------------------------
(***************************************************************************)
(* The preference store is a client of the executor:  whatever it does,    *)
(* the executor beneath it behaves as DatabaseExecutor says, so what is    *)
(* proved of the executor holds of the composition.                        *)
(***************************************************************************)

\* A step of the store is a step of the executor or leaves it alone: write,
\* erase, the work on the worker and the completions add to a call of the
\* executor, and a plugin that comes or goes calls none.
LEMMA StoreStepRefines == [StoreNext]_storeVars => [Next]_vars
<1> SUFFICES ASSUME [StoreNext]_storeVars PROVE [Next]_vars
  OBVIOUS
<1>1. CASE \E w \in Work, o \in Owners, document \in Documents : Write(w, o, document)
  BY <1>1 DEF Write, Next
<1>2. CASE \E w \in Work, p \in Plugins : Erase(w, p)
  BY <1>2 DEF Erase, Next
<1>3. CASE \E p \in Plugins : Register(p) \/ Withdraw(p)
  BY <1>3 DEF Register, Withdraw
<1>4. CASE \E outcome \in Outcomes : FinishRequest(outcome)
  BY <1>4 DEF FinishRequest, Next
<1>5. CASE DeliverRequest
  BY <1>5 DEF DeliverRequest, Next
<1>6. CASE Carry
  BY <1>6 DEF Carry, Next
<1>7. CASE UNCHANGED storeVars
  BY <1>7 DEF storeVars
<1>. QED
  BY <1>1, <1>2, <1>3, <1>4, <1>5, <1>6, <1>7 DEF StoreNext

\* The composition implements the executor.
THEOREM StoreImplementsExecutor == StoreSpec => Spec
<1>1. StoreInit => Init
  BY DEF StoreInit
<1>. QED
  BY <1>1, StoreStepRefines, PTL DEF StoreSpec, Spec

\* No write and no erase is lost, doubled or overtaken on its way through the
\* worker and the main-thread queue, for any works, owners and documents.
THEOREM StoreConserves == StoreSpec => []Conserved
  BY StoreImplementsExecutor, WorkConserved, PTL

-----------------------------------------------------------------------------
(***************************************************************************)
(* What the documents rest on:  the requests that are accepted and not     *)
(* answered, in their order.                                               *)
(***************************************************************************)

Req(i) == request[accepted[i]]
Waiting == Len(answered) + 1 .. Len(accepted)
Writes(o) == {i \in Waiting : Req(i).kind = "write" /\ Req(i).owner = o}
Erases == {i \in Waiting : Req(i).kind = "erase"}

\* What was accepted is known.
Requested == \A i \in 1..Len(accepted) : Req(i) \in Requests

\* At most one erase waits, that of the change in progress, and no write of its
\* plugin comes after it.
EraseLast ==
    \A e \in Erases :
        /\ Req(e).plugin = changing /\ changing \notin registered
        /\ \A f \in Erases : e = f
        /\ \A o \in Owners : PluginOf[o] = changing => \A i \in Writes(o) : i < e

\* The writes of a document that wait have revisions in their order, none past the entry's.
Revised ==
    \A o \in Owners : \A i \in Writes(o) :
        /\ Req(i).revision <= EntryOf(o).revision
        /\ \A j \in Writes(o) : i < j => Req(i).revision < Req(j).revision

\* The last of them is what readers see; without one they see what was committed.
Latest ==
    \A o \in Owners :
        /\ \A i \in Writes(o) : (\A j \in Writes(o) : j <= i) =>
              Req(i).revision = EntryOf(o).revision /\ Req(i).document = EntryOf(o).current
        /\ Writes(o) = {} => EntryOf(o).current = EntryOf(o).committed

StoreInv == Inv /\ StoreTypeOK /\ Requested /\ EraseLast /\ Revised /\ Latest /\ RowsExplained

\* What stands where in a concatenation.
Joined(S, a, r, p, h, q, s) ==
    {a, r, p, h, q} \subseteq Seq(S) /\ s = (((a \o r) \o p) \o h) \o q

LEMMA FiveParts ==
    ASSUME NEW S, NEW a, NEW r, NEW p, NEW h, NEW q, NEW s, Joined(S, a, r, p, h, q, s)
    PROVE  /\ Len(a) \in Nat /\ Len(r \o p) \in Nat /\ Len(h) \in Nat /\ Len(s) \in Nat
           /\ Len(a) + Len(r \o p) + Len(h) <= Len(s)
           /\ \A i \in 1..Len(r \o p) : s[Len(a) + i] = (r \o p)[i]
           /\ Len(h) >= 1 => s[Len(a) + Len(r \o p) + 1] = h[1]
<1> USE DEF Joined
<1> DEFINE u == r \o p
<1>1. /\ Len(u) = Len(r) + Len(p)
      /\ \A i \in 1..Len(r) + Len(p) : u[i] = IF i <= Len(r) THEN r[i] ELSE p[i - Len(r)]
  BY ConcatProperties
<1>2. PICK x \in Seq(S) : x = a \o r
  BY ConcatProperties
<1>3. /\ Len(x) = Len(a) + Len(r)
      /\ \A i \in 1..Len(a) + Len(r) : x[i] = IF i <= Len(a) THEN a[i] ELSE r[i - Len(a)]
  BY <1>2, ConcatProperties
<1>4. PICK y \in Seq(S) : y = x \o p
  BY ConcatProperties
<1>5. /\ Len(y) = Len(x) + Len(p)
      /\ \A i \in 1..Len(x) + Len(p) : y[i] = IF i <= Len(x) THEN x[i] ELSE p[i - Len(x)]
  BY <1>4, ConcatProperties
<1>6. PICK z \in Seq(S) : z = y \o h
  BY ConcatProperties
<1>7. /\ Len(z) = Len(y) + Len(h)
      /\ \A i \in 1..Len(y) + Len(h) : z[i] = IF i <= Len(y) THEN y[i] ELSE h[i - Len(y)]
  BY <1>6, ConcatProperties
<1>8. s = z \o q
  BY <1>2, <1>4, <1>6
<1>9. /\ s \in Seq(S) /\ Len(s) = Len(z) + Len(q)
       /\ \A i \in 1..Len(z) + Len(q) : s[i] = IF i <= Len(z) THEN z[i] ELSE q[i - Len(z)]
  BY <1>8, ConcatProperties
<1>10. /\ Len(a) \in Nat /\ Len(r) \in Nat /\ Len(p) \in Nat /\ Len(h) \in Nat /\ Len(q) \in Nat
       /\ Len(u) \in Nat /\ Len(x) \in Nat /\ Len(y) \in Nat /\ Len(z) \in Nat /\ Len(s) \in Nat
  BY <1>9, LenProperties
<1>11. ASSUME NEW i \in 1..Len(y) PROVE s[i] = y[i]
  <2>1. i \in 1..Len(z) + Len(q) /\ i <= Len(z) /\ i \in 1..Len(y) + Len(h) /\ i <= Len(y)
    BY <1>7, <1>10
  <2>2. s[i] = z[i] /\ z[i] = y[i]
    BY <1>7, <1>9, <2>1
  <2> QED  BY <2>2
<1>12. ASSUME NEW i \in 1..Len(u) PROVE s[Len(a) + i] = u[i]
  <2>1. i \in Nat /\ Len(a) + i \in 1..Len(y) /\ Len(a) + i \in 1..Len(x) + Len(p)
    BY <1>1, <1>3, <1>5, <1>10
  <2>2. s[Len(a) + i] = y[Len(a) + i]
    BY <1>11, <2>1
  <2>3. CASE i <= Len(r)
    <3>1. y[Len(a) + i] = x[Len(a) + i] /\ x[Len(a) + i] = r[Len(a) + i - Len(a)]
      BY <1>3, <1>5, <1>10, <2>1, <2>3
    <3>2. u[i] = r[i] /\ Len(a) + i - Len(a) = i
      BY <1>1, <1>10, <2>1, <2>3
    <3> QED  BY <2>2, <3>1, <3>2
  <2>4. CASE ~(i <= Len(r))
    <3>1. y[Len(a) + i] = p[Len(a) + i - Len(x)] /\ Len(a) + i - Len(x) = i - Len(r)
      BY <1>3, <1>5, <1>10, <2>1, <2>4
    <3> QED  BY <1>1, <1>10, <2>1, <2>2, <2>4, <3>1
  <2> QED  BY <2>3, <2>4
<1>13. Len(h) >= 1 => s[Len(a) + Len(u) + 1] = h[1]
  <2> SUFFICES ASSUME Len(h) >= 1 PROVE s[Len(y) + 1] = h[1]
    BY <1>1, <1>3, <1>5, <1>10
  <2>1. s[Len(y) + 1] = z[Len(y) + 1]
    BY <1>7, <1>9, <1>10
  <2>2. /\ Len(y) + 1 \in 1..Len(y) + Len(h) /\ ~(Len(y) + 1 <= Len(y))
        /\ Len(y) + 1 - Len(y) = 1
    BY <1>10
  <2>3. z[Len(y) + 1] = h[Len(y) + 1 - Len(y)]
    BY <1>7, <2>2
  <2> QED  BY <2>1, <2>2, <2>3
<1> QED
  <2>1. Len(a) + Len(u) + Len(h) <= Len(s)
    BY <1>1, <1>3, <1>5, <1>7, <1>9, <1>10
  <2> QED  BY <1>9, <1>10, <1>12, <1>13, <2>1

\* Where each answer and the work on the worker stand among what was accepted.
LEMMA Positions ==
    ASSUME Inv
    PROVE  /\ Len(answered) \in Nat /\ Len(accepted) \in Nat /\ Len(Undelivered) \in Nat
           /\ Undelivered \in Seq(Answers)
           /\ Len(answered) + Len(Undelivered) <= Len(accepted)
           /\ \A i \in 1..Len(Undelivered) : Undelivered[i].work = accepted[Len(answered) + i]
           /\ held # None => /\ Len(answered) + Len(Undelivered) + 1 <= Len(accepted)
                             /\ held = accepted[Len(answered) + Len(Undelivered) + 1]
<1> DEFINE A == WorksOf(answered)
           U == WorksOf(Undelivered)
           H == Holding
<1>1. TypeOK /\ Conserved
  BY DEF Inv
<1>2. /\ answered \in Seq(Answers) /\ ready \in Seq(Answers) /\ posted \in Seq(Answers)
      /\ accepted \in Seq(Work) /\ queue \in Seq(Work) /\ H \in Seq(Work)
  BY <1>1 DEF TypeOK, Holding
<1>3. Undelivered \in Seq(Answers) /\ U = WorksOf(ready) \o WorksOf(posted)
  BY <1>2, WorksOfConcat, ConcatProperties DEF Undelivered
<1>4. /\ A \in Seq(Work) /\ Len(A) = Len(answered) /\ U \in Seq(Work) /\ Len(U) = Len(Undelivered)
      /\ WorksOf(ready) \in Seq(Work) /\ WorksOf(posted) \in Seq(Work)
  BY <1>2, <1>3, WorksOfType
<1>5. Len(H) \in Nat /\ held # None => Len(H) = 1 /\ H[1] = held
  BY <1>2 DEF Holding
<1>6. accepted = A \o WorksOf(ready) \o WorksOf(posted) \o H \o queue
  BY <1>1 DEF Conserved
<1>7. /\ Len(A) \in Nat /\ Len(U) \in Nat /\ Len(H) \in Nat /\ Len(accepted) \in Nat
      /\ Len(A) + Len(U) + Len(H) <= Len(accepted)
      /\ \A i \in 1..Len(U) : accepted[Len(A) + i] = U[i]
      /\ Len(H) >= 1 => accepted[Len(A) + Len(U) + 1] = H[1]
  <2> DEFINE R == WorksOf(ready)
             P == WorksOf(posted)
  <2>1. Joined(Work, A, R, P, H, queue, accepted) /\ U = R \o P
    BY <1>2, <1>3, <1>4, <1>6 DEF Joined
  <2> HIDE DEF A, R, P, H, U
  <2> QED  BY ONLY <2>1, FiveParts
<1>8. \A i \in 1..Len(Undelivered) : U[i] = Undelivered[i].work
  BY DEF WorksOf
<1>9. Len(A) = Len(answered) /\ Len(U) = Len(Undelivered) /\ (held # None => Len(H) = 1 /\ H[1] = held)
  BY <1>4, <1>5, <1>7
<1> HIDE DEF A, U, H
<1>10. /\ Len(answered) \in Nat /\ Len(accepted) \in Nat /\ Len(Undelivered) \in Nat
       /\ Len(answered) + Len(Undelivered) <= Len(accepted)
  BY <1>7, <1>9
<1>11. \A i \in 1..Len(Undelivered) : Undelivered[i].work = accepted[Len(answered) + i]
  BY <1>7, <1>8, <1>9
<1>12. held # None => /\ Len(answered) + Len(Undelivered) + 1 <= Len(accepted)
                      /\ held = accepted[Len(answered) + Len(Undelivered) + 1]
  <2> SUFFICES ASSUME held # None PROVE /\ Len(answered) + Len(Undelivered) + 1 <= Len(accepted)
                                       /\ held = accepted[Len(answered) + Len(Undelivered) + 1]
    OBVIOUS
  <2>1. Len(H) = 1 /\ H[1] = held
    BY <1>9
  <2>2. Len(A) = Len(answered) /\ Len(U) = Len(Undelivered)
    BY <1>9
  <2>3. accepted[Len(A) + Len(U) + 1] = H[1]
    BY <1>7, <2>1
  <2> QED  BY <1>7, <2>1, <2>2, <2>3
<1> QED  BY <1>3, <1>10, <1>11, <1>12

-----------------------------------------------------------------------------
(***************************************************************************)
(* What a step does to what was accepted, answered and waits to be.        *)
(***************************************************************************)

LEMMA Submitted ==
    ASSUME Inv, NEW w \in Work, Submit(w)
    PROVE  /\ Len(accepted') = Len(accepted) + 1 /\ accepted'[Len(accepted) + 1] = w
           /\ \A i \in 1..Len(accepted) : accepted'[i] = accepted[i] /\ accepted[i] # w
           /\ answered' = answered /\ Undelivered' = Undelivered
<1>1. accepted \in Seq(Work) /\ (closed <=> stopper # "serving")
  BY DEF Inv, TypeOK, StagesAgree
<1>2. accepted' = Append(accepted, w)
  BY <1>1 DEF Submit, Enqueue
<1>3. \A i \in 1..Len(accepted) : accepted[i] # w
  BY DEF Submit
<1>4. answered' = answered /\ Undelivered' = Undelivered
  BY DEF Submit, Undelivered
<1> QED  BY <1>1, <1>2, <1>3, <1>4, AppendProperties

LEMMA Ended ==
    ASSUME Inv, NEW outcome \in Outcomes, Finish(outcome)
    PROVE  /\ held \in Work /\ held # None /\ accepted' = accepted /\ answered' = answered
           /\ Len(Undelivered') = Len(Undelivered) + 1
           /\ \A i \in 1..Len(Undelivered) : Undelivered'[i] = Undelivered[i]
           /\ Undelivered'[Len(Undelivered) + 1] = [work |-> held, outcome |-> outcome]
<1> DEFINE answer == [work |-> held, outcome |-> outcome]
<1>1. /\ ready \in Seq(Answers) /\ posted \in Seq(Answers) /\ held \in Work /\ held # None
      /\ Undelivered \in Seq(Answers)
  BY Positions DEF Inv, TypeOK, Finish
<1>2. answer \in Answers
  BY <1>1 DEF Answers
<1>3. accepted' = accepted /\ answered' = answered /\ Undelivered' = ready \o Append(posted, answer)
  BY DEF Finish, Undelivered
<1> HIDE DEF answer
<1>4. Undelivered' = Append(Undelivered, answer)
  <2>1. Append(posted, answer) = posted \o <<answer>> /\ <<answer>> \in Seq(Answers)
    BY <1>1, <1>2, AppendIsConcat
  <2>2. ready \o (posted \o <<answer>>) = (ready \o posted) \o <<answer>>
    BY <1>1, <2>1, ConcatAssociative
  <2>3. Append(ready \o posted, answer) = (ready \o posted) \o <<answer>>
    BY <1>1, <1>2, AppendIsConcat DEF Undelivered
  <2> QED  BY <1>3, <2>1, <2>2, <2>3 DEF Undelivered
<1>5. /\ Len(Undelivered') = Len(Undelivered) + 1
      /\ \A i \in 1..Len(Undelivered) : Undelivered'[i] = Undelivered[i]
      /\ Undelivered'[Len(Undelivered) + 1] = answer
  BY <1>1, <1>2, <1>4, AppendProperties
<1> QED  BY <1>1, <1>3, <1>5 DEF answer

LEMMA Delivered ==
    ASSUME Inv, Deliver
    PROVE  /\ accepted' = accepted /\ Len(answered') = Len(answered) + 1
           /\ Head(ready) \in Answers /\ Head(ready) = Undelivered[1]
           /\ Head(ready).work = accepted[Len(answered) + 1]
           /\ 1 <= Len(Undelivered) /\ Len(Undelivered') = Len(Undelivered) - 1
           /\ \A i \in 1..Len(Undelivered) - 1 : Undelivered'[i] = Undelivered[i + 1]
<1>1. ready \in Seq(Answers) /\ posted \in Seq(Answers) /\ answered \in Seq(Answers) /\ ready # <<>>
  BY DEF Inv, TypeOK, Deliver
<1>2. /\ Head(ready) \in Answers /\ Tail(ready) \in Seq(Answers) /\ Len(Tail(ready)) = Len(ready) - 1
      /\ Head(ready) = ready[1] /\ \A i \in 1..Len(Tail(ready)) : Tail(ready)[i] = ready[i + 1]
  BY <1>1, HeadTailProperties
<1>3. Len(ready) \in Nat /\ Len(posted) \in Nat /\ 1 <= Len(ready)
  BY <1>1, EmptySeq, LenProperties
<1>4. /\ Len(Undelivered) = Len(ready) + Len(posted)
      /\ \A i \in 1..Len(ready) + Len(posted) :
            Undelivered[i] = IF i <= Len(ready) THEN ready[i] ELSE posted[i - Len(ready)]
  BY <1>1, ConcatProperties DEF Undelivered
<1>5. PICK t \in Seq(Answers) : t = Tail(ready)
  BY <1>2
<1>6. Undelivered' = t \o posted
  BY <1>5 DEF Deliver, Undelivered
<1>7. /\ Len(Undelivered') = Len(t) + Len(posted)
      /\ \A i \in 1..Len(t) + Len(posted) :
            Undelivered'[i] = IF i <= Len(t) THEN t[i] ELSE posted[i - Len(t)]
  BY <1>1, <1>6, ConcatProperties
<1>8. accepted' = accepted /\ Len(answered') = Len(answered) + 1
  BY <1>1, <1>2, AppendProperties DEF Deliver
<1>9. Head(ready) = Undelivered[1] /\ 1 <= Len(Undelivered)
  BY <1>2, <1>3, <1>4
<1>10. Head(ready).work = accepted[Len(answered) + 1]
  BY <1>3, <1>4, <1>9, Positions
<1>11. Len(Undelivered') = Len(Undelivered) - 1
  BY <1>2, <1>3, <1>4, <1>5, <1>7
<1>12. ASSUME NEW i \in 1..Len(Undelivered) - 1 PROVE Undelivered'[i] = Undelivered[i + 1]
  <2>1. PICK j \in Nat : j = i + 1
    BY <1>3, <1>4
  <2>2. PICK k \in Int : k = i - Len(t)
    BY <1>2, <1>3, <1>5
  <2>3. /\ i \in 1..Len(t) + Len(posted) /\ j \in 1..Len(ready) + Len(posted)
        /\ (i <= Len(t) <=> j <= Len(ready)) /\ k = j - Len(ready)
    BY <1>2, <1>3, <1>4, <1>5, <2>1, <2>2
  <2>4. CASE i <= Len(t)
    <3>1. Undelivered'[i] = t[i] /\ Undelivered[j] = ready[j]
      BY <1>4, <1>7, <2>3, <2>4
    <3>2. i \in 1..Len(t)
      BY <1>2, <1>3, <1>5, <2>4
    <3>3. t[i] = ready[j]
      BY <1>2, <1>5, <2>1, <3>2
    <3> QED  BY <2>1, <3>1, <3>3
  <2>5. CASE ~(i <= Len(t))
    <3>1. Undelivered'[i] = posted[k]
      BY <1>7, <2>2, <2>3, <2>5
    <3>2. j \in 1..Len(ready) + Len(posted) /\ ~(j <= Len(ready))
      BY <2>3, <2>5
    <3>3. Undelivered[j] = posted[j - Len(ready)]
      BY <1>4, <3>2
    <3> QED  BY <2>1, <2>3, <3>1, <3>3
  <2> QED  BY <2>4, <2>5
<1> QED  BY <1>2, <1>8, <1>9, <1>10, <1>11, <1>12

LEMMA Carried ==
    ASSUME Inv, Carry \/ UNCHANGED vars
    PROVE  accepted' = accepted /\ answered' = answered /\ Undelivered' = Undelivered
<1>1. /\ posted \in Seq(Answers) /\ ready \in Seq(Answers)
      /\ stopper \notin {"serving", "gone"} => ready = <<>>
  BY DEF Inv, TypeOK, StagesAgree
<1>2. CASE Take \/ Leave \/ BeginShutdown \/ Drained \/ Interrupt \/ Close \/ UNCHANGED vars
  BY <1>2 DEF Take, Leave, BeginShutdown, Drained, Interrupt, Close, vars, Undelivered
<1>3. CASE Drain \/ LastDrain
  <2>1. ready = <<>> /\ ready' = posted /\ posted' = <<>> /\ UNCHANGED <<accepted, answered>>
    BY <1>1, <1>3 DEF Drain, LastDrain
  <2>2. <<>> \o posted = posted /\ posted \o <<>> = posted
    BY <1>1, ConcatEmptySeq
  <2> QED  BY <2>1, <2>2 DEF Undelivered
<1> QED  BY <1>2, <1>3 DEF Carry

-----------------------------------------------------------------------------
(***************************************************************************)
(* Types of the store.                                                     *)
(***************************************************************************)

LEMMA RequestKinds ==
    ASSUME NEW r \in Requests
    PROVE  \/ r.kind = "write" /\ r.owner \in Owners /\ r.document \in Documents /\ r.revision \in Nat
           \/ r.kind = "erase" /\ r.plugin \in Plugins
BY DEF Requests

LEMMA EntryTyped ==
    ASSUME StoreTypeOK, NEW o \in Owners
    PROVE  EntryOf(o) \in Entry
BY DEF StoreTypeOK, EntryOf, NewEntry, Entry

LEMMA EntryChanged ==
    ASSUME NEW e \in Entry, NEW d \in Documents \cup {Empty}
    PROVE  /\ [e EXCEPT !.committed = d]
                = [current |-> e.current, committed |-> d, revision |-> e.revision]
           /\ [e EXCEPT !.current = d]
                = [current |-> d, committed |-> e.committed, revision |-> e.revision]
<1>1. [e EXCEPT !.committed = d] = [current |-> e.current, committed |-> d, revision |-> e.revision]
  BY DEF Entry
<1>2. [e EXCEPT !.current = d] = [current |-> d, committed |-> e.committed, revision |-> e.revision]
  BY DEF Entry
<1> QED  BY <1>1, <1>2

\* What waits is known, and so is what the worker holds.
LEMMA Known ==
    ASSUME Inv, Requested
    PROVE  /\ \A i \in Waiting : i \in 1..Len(accepted) /\ Req(i) \in Requests
           /\ held # None => request[held] \in Requests
           /\ \A i \in 1..Len(Undelivered) : request[Undelivered[i].work] \in Requests
<1>1. /\ Len(answered) \in Nat /\ Len(accepted) \in Nat /\ Len(Undelivered) \in Nat
      /\ Len(answered) + Len(Undelivered) <= Len(accepted)
      /\ \A i \in 1..Len(Undelivered) : Undelivered[i].work = accepted[Len(answered) + i]
      /\ held # None => /\ Len(answered) + Len(Undelivered) + 1 <= Len(accepted)
                        /\ held = accepted[Len(answered) + Len(Undelivered) + 1]
  BY Positions
<1>2. \A i \in 1..Len(accepted) : request[accepted[i]] \in Requests
  BY DEF Requested, Req
<1>3. \A i \in Waiting : i \in 1..Len(accepted)
  BY <1>1 DEF Waiting
<1>4. held # None => request[held] \in Requests
  BY <1>1, <1>2
<1>5. ASSUME NEW i \in 1..Len(Undelivered) PROVE request[Undelivered[i].work] \in Requests
  <2>1. Len(answered) + i \in 1..Len(accepted)
    BY <1>1
  <2> QED  BY <1>1, <1>2, <2>1
<1> QED  BY <1>2, <1>3, <1>4, <1>5 DEF Req

LEMMA StoreTypes ==
    ASSUME Inv, StoreTypeOK, Requested, [StoreNext]_storeVars
    PROVE  StoreTypeOK'
<1> USE StoreAssumption, EntryAssumption DEF StoreTypeOK
<1>1. ASSUME NEW w \in Work, NEW o \in Owners, NEW document \in Documents, Write(w, o, document)
      PROVE  StoreTypeOK'
  <2>1. EntryOf(o) \in Entry
    BY EntryTyped
  <2>2. [current |-> document, committed |-> EntryOf(o).committed,
         revision |-> EntryOf(o).revision + 1] \in Entry
    BY <2>1 DEF Entry
  <2>3. [kind |-> "write", owner |-> o, document |-> document,
         revision |-> EntryOf(o).revision + 1] \in Requests
    BY <2>1 DEF Entry, Requests
  <2> QED  BY <1>1, <2>2, <2>3 DEF Write
<1>2. ASSUME NEW w \in Work, NEW p \in Plugins, Erase(w, p)
      PROVE  StoreTypeOK'
  <2>1. [kind |-> "erase", plugin |-> p] \in Requests
    BY DEF Requests
  <2> QED  BY <1>2, <2>1 DEF Erase
<1>3. CASE \E p \in Plugins : Register(p) \/ Withdraw(p)
  BY <1>3 DEF Register, Withdraw
<1>4. ASSUME NEW outcome \in Outcomes, FinishRequest(outcome)
      PROVE  StoreTypeOK'
  <2>1. Finish(outcome)
    BY <1>4 DEF FinishRequest
  <2>2. request[held] \in Requests
    BY <2>1, Ended, Known
  <2>3. Rows(request[held]) \in [Owners -> Documents \cup {None}]
    BY <2>2, RequestKinds DEF Rows
  <2> QED  BY <1>4, <2>3 DEF FinishRequest
<1>5. CASE DeliverRequest
  <2> DEFINE asked == request[Head(ready).work]
             succeeded == Head(ready).outcome = "success"
  <2>1. asked \in Requests
    BY <1>5, Delivered, Known, Positions DEF DeliverRequest
  <2>2. CASE asked.kind = "write"
    <3>1. asked.owner \in Owners /\ asked.document \in Documents
      BY <2>1, <2>2, RequestKinds
    <3>2. EntryOf(asked.owner) \in Entry
      BY <3>1, EntryTyped
    <3> HIDE DEF asked
    <3>3. Written(asked, succeeded) \in [Owners -> Entry \cup {None}]
      BY <3>1, <3>2 DEF Written, Entry
    <3> QED  BY <1>5, <2>2, <3>3 DEF DeliverRequest, asked
  <2>3. CASE asked.kind # "write"
    BY <1>5, <2>3 DEF DeliverRequest, Erased, Discarded
  <2> QED  BY <2>2, <2>3
<1>6. CASE Carry \/ UNCHANGED storeVars
  BY <1>6 DEF Carry, storeVars, store
<1> QED  BY <1>1, <1>2, <1>3, <1>4, <1>5, <1>6 DEF StoreNext

-----------------------------------------------------------------------------
(***************************************************************************)
(* The documents.                                                          *)
(***************************************************************************)

Explained == Requested /\ EraseLast /\ Revised /\ Latest /\ RowsExplained

LEMMA NoErase ==
    ASSUME Inv, Requested, EraseLast, changing = None
    PROVE  Erases = {}
BY Known, RequestKinds, StoreAssumption DEF EraseLast, Erases

\* Nothing accepted, answered or shown.
LEMMA RestStays ==
    ASSUME StoreInv, UNCHANGED <<request, entries, changing>>,
           accepted' = accepted, answered' = answered,
           registered' = registered \/ changing = None
    PROVE  Requested' /\ EraseLast' /\ Revised' /\ Latest'
<1>1. \A i : Req(i)' = Req(i)
  BY DEF Req
<1>2. /\ Waiting' = Waiting
      /\ \A o : EntryOf(o)' = EntryOf(o)
  BY DEF Waiting, EntryOf
<1>3. Erases' = Erases /\ \A o : Writes(o)' = Writes(o)
  BY <1>1, <1>2 DEF Erases, Writes
<1>4. Requested'
  BY DEF StoreInv, Requested, Requests, Req
<1>5. EraseLast'
  <2>1. CASE registered' = registered
    BY <1>1, <1>3, <2>1 DEF StoreInv, EraseLast
  <2>2. CASE changing = None
    BY <1>3, <2>2, NoErase DEF StoreInv, EraseLast
  <2> QED  BY <2>1, <2>2
<1>6. Revised' /\ Latest'
  BY <1>1, <1>2, <1>3 DEF StoreInv, Revised, Latest
<1> QED  BY <1>4, <1>5, <1>6

\* Nor ended.
LEMMA QuietKeeps ==
    ASSUME StoreInv, UNCHANGED <<request, table, entries, changing>>,
           accepted' = accepted, answered' = answered, Undelivered' = Undelivered,
           registered' = registered \/ changing = None
    PROVE  Explained'
<1>1. RowsExplained'
  BY DEF StoreInv, RowsExplained, Effects, Concerns, Stored, EntryOf
<1> QED  BY <1>1, RestStays DEF Explained

\* What a submission adds.
LEMMA Added ==
    ASSUME StoreInv, NEW w \in Work, Submit(w), NEW r \in Requests,
           request' = [request EXCEPT ![w] = r], NEW n, n = Len(accepted)
    PROVE  /\ n \in Nat /\ Waiting \subseteq 1..n /\ Waiting' = Waiting \cup {n + 1}
           /\ \A i \in 1..n : Req(i)' = Req(i)
           /\ Req(n + 1)' = r
           /\ Requested'
           /\ \A o : Effects(o)' = Effects(o)
           /\ \A i \in 1..Len(Undelivered) :
                 request'[Undelivered[i].work] = request[Undelivered[i].work]
<1>1. /\ Len(accepted') = n + 1 /\ accepted'[n + 1] = w
      /\ \A i \in 1..n : accepted'[i] = accepted[i] /\ accepted[i] # w
      /\ answered' = answered /\ Undelivered' = Undelivered
  BY Submitted DEF StoreInv
<1>2. /\ Len(answered) \in Nat /\ n \in Nat /\ Len(Undelivered) \in Nat
      /\ Len(answered) + Len(Undelivered) <= n
      /\ \A i \in 1..Len(Undelivered) : Undelivered[i].work = accepted[Len(answered) + i]
  BY Positions DEF StoreInv
<1>3. Waiting \subseteq 1..n /\ Waiting' = Waiting \cup {n + 1}
  BY <1>1, <1>2 DEF Waiting
<1>4. request \in [Work -> Requests \cup {None}] /\ accepted \in Seq(Work)
  BY DEF StoreInv, StoreTypeOK, Inv, TypeOK
<1>5. /\ \A i \in 1..n : Req(i)' = Req(i)
      /\ Req(n + 1)' = r
  <2>1. \A i \in 1..n : accepted[i] \in Work
    BY <1>4, ElementOfSeq
  <2>2. request'[w] = r /\ \A v \in Work : v # w => request'[v] = request[v]
    BY <1>4
  <2>3. \A i \in 1..n : request'[accepted'[i]] = request[accepted[i]]
    BY <1>1, <2>1, <2>2
  <2> QED  BY <1>1, <2>2, <2>3 DEF Req
<1>6. Requested'
  <2>1. Requests' = Requests
    BY DEF Requests
  <2>2. ASSUME NEW i \in 1..n + 1 PROVE Req(i)' \in Requests
    <3>1. CASE i \in 1..n
      BY <1>5, <3>1 DEF StoreInv, Requested
    <3>2. CASE i = n + 1
      BY <1>5, <3>2
    <3> QED  BY <1>2, <3>1, <3>2
  <2> QED  BY <1>1, <2>1, <2>2 DEF Requested
<1>7. ASSUME NEW i \in 1..Len(Undelivered)
      PROVE  request'[Undelivered[i].work] = request[Undelivered[i].work]
  <2>1. Len(answered) + i \in 1..n
    BY <1>2
  <2>2. Undelivered[i].work # w
    BY <1>1, <1>2, <2>1
  <2> QED  BY <1>4, <2>2
<1>8. \A o : Effects(o)' = Effects(o)
  BY <1>1, <1>7 DEF Effects, Concerns
<1> QED  BY <1>2, <1>3, <1>5, <1>6, <1>7, <1>8

\* The rows stay explained while nothing ends, is answered or committed.
LEMMA RowsStay ==
    ASSUME StoreInv, Undelivered' = Undelivered, table' = table,
           \A o \in Owners : Effects(o)' = Effects(o) /\ EntryOf(o)'.committed = EntryOf(o).committed,
           \A i \in 1..Len(Undelivered) : request'[Undelivered[i].work] = request[Undelivered[i].work]
    PROVE  RowsExplained'
<1>1. \A o \in Owners : Stored(o)' = Stored(o) /\ Effects(o) \subseteq 1..Len(Undelivered)
  BY DEF Stored, Effects
<1>2. ASSUME NEW o \in Owners, NEW i \in Effects(o)', \A j \in Effects(o)' : j <= i
      PROVE  LET asked == request'[Undelivered'[i].work]
             IN  Stored(o)' = IF asked.kind = "write" THEN asked.document ELSE Empty
  BY <1>1, <1>2 DEF StoreInv, RowsExplained
<1>3. ASSUME NEW o \in Owners, Effects(o)' = {} PROVE Stored(o)' = EntryOf(o)'.committed
  BY <1>1, <1>3 DEF StoreInv, RowsExplained
<1> QED  BY <1>2, <1>3 DEF RowsExplained

LEMMA WriteKeeps ==
    ASSUME StoreInv, NEW w \in Work, NEW o \in Owners, NEW document \in Documents,
           Write(w, o, document)
    PROVE  Explained'
<1> DEFINE r == [kind |-> "write", owner |-> o, document |-> document,
                 revision |-> EntryOf(o).revision + 1]
           e == [current |-> document, committed |-> EntryOf(o).committed,
                 revision |-> EntryOf(o).revision + 1]
<1>1. PICK n : n = Len(accepted)
  OBVIOUS
<1>2. \A x \in Owners : EntryOf(x) \in Entry
  BY EntryTyped DEF StoreInv
<1>3. r \in Requests /\ e \in Entry
  BY <1>2 DEF Requests, Entry
<1>4. /\ n \in Nat /\ Waiting \subseteq 1..n /\ Waiting' = Waiting \cup {n + 1}
      /\ \A i \in 1..n : Req(i)' = Req(i)
      /\ Req(n + 1)' = r
      /\ Requested'
      /\ \A x : Effects(x)' = Effects(x)
      /\ \A i \in 1..Len(Undelivered) : request'[Undelivered[i].work] = request[Undelivered[i].work]
  BY <1>1, <1>3, Added DEF Write
<1>5. /\ EntryOf(o)' = e
      /\ \A x \in Owners : x # o => EntryOf(x)' = EntryOf(x)
  <2>1. entries \in [Owners -> Entry \cup {None}] /\ entries' = [entries EXCEPT ![o] = e]
    BY DEF Write, StoreInv, StoreTypeOK
  <2> QED  BY <1>3, <2>1, EntryAssumption DEF EntryOf
<1>6. /\ Writes(o)' = Writes(o) \cup {n + 1}
      /\ \A x \in Owners : x # o => Writes(x)' = Writes(x)
      /\ Erases' = Erases
      /\ Erases \subseteq 1..n /\ \A x : Writes(x) \subseteq 1..n
  <2>1. r.kind = "write" /\ r.owner = o
    OBVIOUS
  <2> HIDE DEF r
  <2>2. n + 1 \notin Waiting /\ \A i \in Waiting : Req(i)' = Req(i)
    <3>1. n + 1 \notin 1..n
      BY <1>4
    <3> QED  BY <1>4, <3>1
  <2>3. Erases' = Erases
    BY <1>4, <2>1, <2>2 DEF Erases
  <2>4. Writes(o)' = Writes(o) \cup {n + 1}
    BY <1>4, <2>1, <2>2 DEF Writes
  <2>5. ASSUME NEW x \in Owners, x # o PROVE Writes(x)' = Writes(x)
    BY <1>4, <2>1, <2>2, <2>5 DEF Writes
  <2>6. Erases \subseteq 1..n /\ \A x : Writes(x) \subseteq 1..n
    BY <1>4 DEF Writes, Erases
  <2> QED  BY <2>3, <2>4, <2>5, <2>6
<1>7. EraseLast'
  <2>1. UNCHANGED <<registered, changing>> /\ PluginOf[o] \in registered \cup {CoreOwner}
    BY DEF Write
  <2>2. \A i \in Erases : Req(i).plugin = changing /\ changing \notin registered /\ changing \in Plugins
    BY Known, RequestKinds DEF StoreInv, EraseLast, Erases
  <2>3. \A i \in Erases : PluginOf[o] # changing
    BY <2>1, <2>2, StoreAssumption
  <2> QED  BY <1>4, <1>6, <2>1, <2>2, <2>3 DEF StoreInv, EraseLast
<1>8. Revised'
  <2>1. ASSUME NEW x \in Owners, x # o, NEW i \in Writes(x)'
        PROVE  /\ Req(i)'.revision <= EntryOf(x)'.revision
               /\ \A j \in Writes(x)' : i < j => Req(i)'.revision < Req(j)'.revision
    BY <1>4, <1>5, <1>6, <2>1 DEF StoreInv, Revised
  <2>2. ASSUME NEW i \in Writes(o)
        PROVE  /\ Req(i)'.revision < EntryOf(o)'.revision /\ i < n + 1
               /\ \A j \in Writes(o) : i < j => Req(i)'.revision < Req(j)'.revision
    <3>1. Req(i)' = Req(i) /\ i \in 1..n /\ \A j \in Writes(o) : Req(j)' = Req(j)
      BY <1>4, <1>6
    <3>2. Req(i).revision \in Nat /\ EntryOf(o).revision \in Nat
      BY <1>2, Known, RequestKinds DEF StoreInv, Writes, Entry
    <3>3. Req(i).revision <= EntryOf(o).revision
      BY DEF StoreInv, Revised
    <3> QED  BY <1>4, <1>5, <3>1, <3>2, <3>3 DEF StoreInv, Revised
  <2>3. EntryOf(o)'.revision = EntryOf(o).revision + 1 /\ EntryOf(o).revision \in Nat
        /\ Req(n + 1)'.revision = EntryOf(o).revision + 1
    BY <1>2, <1>4, <1>5 DEF Entry
  <2>4. ASSUME NEW i \in Writes(o)'
        PROVE  /\ Req(i)'.revision <= EntryOf(o)'.revision
               /\ \A j \in Writes(o)' : i < j => Req(i)'.revision < Req(j)'.revision
    <3>1. CASE i \in Writes(o)
      <4>1. Req(i)'.revision \in Nat
        BY <1>4, <1>6, <3>1, Known, RequestKinds DEF StoreInv, Writes
      <4> QED  BY <1>6, <2>2, <2>3, <3>1, <4>1
    <3>2. CASE i = n + 1
      BY <1>4, <1>6, <2>2, <2>3, <3>2
    <3> QED  BY <1>6, <3>1, <3>2
  <2> QED  BY <2>1, <2>4 DEF Revised
<1>9. Latest'
  <2>1. ASSUME NEW x \in Owners, x # o
        PROVE  /\ \A i \in Writes(x)' : (\A j \in Writes(x)' : j <= i) =>
                     Req(i)'.revision = EntryOf(x)'.revision /\ Req(i)'.document = EntryOf(x)'.current
               /\ Writes(x)' = {} => EntryOf(x)'.current = EntryOf(x)'.committed
    BY <1>4, <1>5, <1>6, <2>1 DEF StoreInv, Latest
  <2>2. \A i \in Writes(o)' : (\A j \in Writes(o)' : j <= i) => i = n + 1
    <3>1. n + 1 \in Writes(o)' /\ \A i \in Writes(o)' : i \in Nat /\ i <= n + 1
      BY <1>4, <1>6
    <3> QED  BY <1>4, <3>1
  <2>3. Req(n + 1)'.revision = EntryOf(o)'.revision /\ Req(n + 1)'.document = EntryOf(o)'.current
    BY <1>4, <1>5
  <2> QED  BY <1>6, <2>1, <2>2, <2>3 DEF Latest
<1>10. RowsExplained'
  <2>1. \A x \in Owners : EntryOf(x)'.committed = EntryOf(x).committed
    BY <1>5
  <2>2. Undelivered' = Undelivered /\ table' = table
    BY Submitted DEF Write, StoreInv
  <2> QED  BY <1>4, <2>1, <2>2, RowsStay
<1> QED  BY <1>4, <1>7, <1>8, <1>9, <1>10 DEF Explained

LEMMA EraseKeeps ==
    ASSUME StoreInv, NEW w \in Work, NEW p \in Plugins, Erase(w, p)
    PROVE  Explained'
<1> DEFINE r == [kind |-> "erase", plugin |-> p]
<1>1. PICK n : n = Len(accepted)
  OBVIOUS
<1>2. r \in Requests
  BY DEF Requests
<1>3. /\ n \in Nat /\ Waiting \subseteq 1..n /\ Waiting' = Waiting \cup {n + 1}
      /\ \A i \in 1..n : Req(i)' = Req(i)
      /\ Req(n + 1)' = r
      /\ Requested'
      /\ \A x : Effects(x)' = Effects(x)
      /\ \A i \in 1..Len(Undelivered) : request'[Undelivered[i].work] = request[Undelivered[i].work]
  BY <1>1, <1>2, Added DEF Erase
<1>4. Erases = {}
  BY NoErase DEF Erase, StoreInv
<1>5. /\ \A x : Writes(x)' = Writes(x) /\ Writes(x) \subseteq 1..n
      /\ Erases' = {n + 1}
      /\ \A x : EntryOf(x)' = EntryOf(x)
  <2>1. r.kind = "erase"
    OBVIOUS
  <2> HIDE DEF r
  <2>2. n + 1 \notin Waiting /\ \A i \in Waiting : Req(i)' = Req(i)
    <3>1. n + 1 \notin 1..n
      BY <1>3
    <3> QED  BY <1>3, <3>1
  <2>3. Erases' = {n + 1}
    BY <1>3, <1>4, <2>1, <2>2 DEF Erases
  <2>4. ASSUME NEW x PROVE Writes(x)' = Writes(x) /\ Writes(x) \subseteq 1..n
    BY <1>3, <2>1, <2>2 DEF Writes
  <2>5. \A x : EntryOf(x)' = EntryOf(x)
    BY DEF Erase, EntryOf
  <2> QED  BY <2>3, <2>4, <2>5
<1>6. EraseLast'
  <2>1. changing' = p /\ p \notin registered /\ registered' = registered
    BY DEF Erase
  <2>2. \A x \in Owners : \A i \in Writes(x)' : i < n + 1
    BY <1>3, <1>5
  <2> QED  BY <1>3, <1>5, <2>1, <2>2 DEF EraseLast
<1>7. Revised' /\ Latest'
  <2>1. \A x : \A i \in Writes(x) : Req(i)' = Req(i)
    BY <1>3, <1>5
  <2> QED  BY <1>5, <2>1 DEF StoreInv, Revised, Latest
<1>8. RowsExplained'
  <2>1. Undelivered' = Undelivered /\ table' = table
    BY Submitted DEF Erase, StoreInv
  <2> QED  BY <1>3, <1>5, <2>1, RowsStay
<1> QED  BY <1>3, <1>6, <1>7, <1>8 DEF Explained

LEMMA FinishKeeps ==
    ASSUME StoreInv, NEW outcome \in Outcomes, FinishRequest(outcome)
    PROVE  Explained'
<1>1. Finish(outcome) /\ UNCHANGED <<request, entries, registered, changing>>
  BY DEF FinishRequest
<1>2. PICK u : u = Len(Undelivered)
  OBVIOUS
<1>3. /\ held \in Work /\ held # None /\ accepted' = accepted /\ answered' = answered
      /\ u \in Nat /\ Len(Undelivered') = u + 1
      /\ \A i \in 1..u : Undelivered'[i] = Undelivered[i]
      /\ Undelivered'[u + 1] = [work |-> held, outcome |-> outcome]
  BY <1>1, <1>2, Ended, Positions DEF StoreInv
<1>4. Requested' /\ EraseLast' /\ Revised' /\ Latest'
  BY <1>1, <1>3, RestStays
<1>5. PICK asked \in Requests : asked = request[held]
  BY <1>3, Known DEF StoreInv
<1>6. \A o \in Owners : Effects(o) \subseteq 1..u /\ EntryOf(o)' = EntryOf(o)
  BY <1>1, <1>2 DEF Effects, EntryOf
<1>7. ASSUME NEW o \in Owners, outcome = "success", Concerns(held, o)
      PROVE  /\ Effects(o)' = Effects(o) \cup {u + 1}
             /\ Stored(o)' = IF asked.kind = "write" THEN asked.document ELSE Empty
  <2>1. \A i \in 1..u + 1 : i \in Effects(o)' <=> (i \in Effects(o) \/ i = u + 1)
    BY <1>1, <1>2, <1>3, <1>7 DEF Effects, Concerns
  <2>2. Effects(o)' \subseteq 1..u + 1 /\ Effects(o) \subseteq 1..u + 1
    BY <1>2, <1>3 DEF Effects
  <2>3. table' = Rows(asked)
    BY <1>5, <1>7 DEF FinishRequest
  <2>4. table'[o] = IF asked.kind = "write" THEN asked.document ELSE None
    BY <1>5, <1>7, <2>3, RequestKinds DEF Rows, Concerns
  <2> QED
    BY <1>3, <1>5, <2>1, <2>2, <2>4, RequestKinds, StoreAssumption DEF Stored
<1>8. ASSUME NEW o \in Owners, ~(outcome = "success" /\ Concerns(held, o))
      PROVE  Effects(o)' = Effects(o) /\ Stored(o)' = Stored(o)
  <2>1. \A i \in 1..u + 1 : i \in Effects(o)' <=> i \in Effects(o)
    BY <1>1, <1>2, <1>3, <1>8 DEF Effects, Concerns
  <2>2. Effects(o)' \subseteq 1..u + 1 /\ Effects(o) \subseteq 1..u + 1
    BY <1>2, <1>3 DEF Effects
  <2>3. table'[o] = table[o]
    <3>1. CASE outcome = "success"
      <4>1. table' = Rows(asked)
        BY <1>5, <3>1 DEF FinishRequest
      <4> QED  BY <1>5, <1>8, <3>1, <4>1 DEF Rows, Concerns
    <3>2. CASE outcome # "success"
      BY <3>2 DEF FinishRequest
    <3> QED  BY <3>1, <3>2
  <2> QED  BY <2>1, <2>2, <2>3 DEF Stored
<1>9. RowsExplained'
  <2> SUFFICES ASSUME NEW o \in Owners
               PROVE  /\ Effects(o)' = {} => Stored(o)' = EntryOf(o)'.committed
                      /\ \A i \in Effects(o)' : (\A j \in Effects(o)' : j <= i) =>
                            LET a == request'[Undelivered'[i].work]
                            IN  Stored(o)' = IF a.kind = "write" THEN a.document ELSE Empty
    BY DEF RowsExplained
  <2>1. CASE outcome = "success" /\ Concerns(held, o)
    <3>1. \A i \in Effects(o)' : (\A j \in Effects(o)' : j <= i) => i = u + 1
      BY <1>3, <1>6, <1>7, <2>1
    <3>2. request'[Undelivered'[u + 1].work] = asked
      BY <1>1, <1>3, <1>5
    <3> QED  BY <1>7, <2>1, <3>1, <3>2
  <2>2. CASE ~(outcome = "success" /\ Concerns(held, o))
    <3>1. \A i \in Effects(o) : request'[Undelivered'[i].work] = request[Undelivered[i].work]
      BY <1>1, <1>3, <1>6
    <3> QED  BY <1>6, <1>8, <2>2, <3>1 DEF StoreInv, RowsExplained
  <2> QED  BY <2>1, <2>2
<1> QED  BY <1>4, <1>9 DEF Explained

\* What an answer takes from what waits.
LEMMA Shifted ==
    ASSUME StoreInv, Deliver, UNCHANGED request, NEW k, k = Len(answered) + 1
    PROVE  /\ k \in Nat /\ k \in Waiting /\ Waiting' = Waiting \ {k}
           /\ \A i \in Waiting : i \in Nat /\ k <= i
           /\ \A i : Req(i)' = Req(i)
           /\ Erases' = Erases \ {k} /\ \A x : Writes(x)' = Writes(x) \ {k}
           /\ Req(k) \in Requests /\ Req(k) = request[Head(ready).work]
           /\ Requested'
<1>1. /\ accepted' = accepted /\ Len(answered') = Len(answered) + 1
      /\ 1 <= Len(Undelivered) /\ Head(ready).work = accepted[Len(answered) + 1]
  BY Delivered DEF StoreInv
<1>2. /\ Len(answered) \in Nat /\ Len(accepted) \in Nat /\ Len(Undelivered) \in Nat
      /\ Len(answered) + Len(Undelivered) <= Len(accepted)
  BY Positions DEF StoreInv
<1>3. /\ k \in Nat /\ k \in Waiting /\ Waiting' = Waiting \ {k}
      /\ \A i \in Waiting : i \in Nat /\ k <= i
  BY <1>1, <1>2 DEF Waiting
<1>4. \A i : Req(i)' = Req(i)
  BY <1>1 DEF Req
<1>5. Erases' = Erases \ {k} /\ \A x : Writes(x)' = Writes(x) \ {k}
  BY <1>3, <1>4 DEF Erases, Writes
<1>6. Req(k) \in Requests /\ Req(k) = request[Head(ready).work]
  BY <1>1, <1>3, Known DEF StoreInv, Req
<1>7. Requested'
  BY <1>1, <1>4 DEF StoreInv, Requested, Requests
<1> QED  BY <1>3, <1>4, <1>5, <1>6, <1>7

\* The answer takes its effect from those not delivered yet, and commits it.
LEMMA RowsShift ==
    ASSUME StoreInv, Deliver, UNCHANGED <<request, table>>, NEW o \in Owners,
           NEW asked, asked = request[Head(ready).work],
           IF Head(ready).outcome = "success" /\ Concerns(Head(ready).work, o)
           THEN EntryOf(o)'.committed = IF asked.kind = "write" THEN asked.document ELSE Empty
           ELSE EntryOf(o)'.committed = EntryOf(o).committed
    PROVE  /\ Effects(o)' = {} => Stored(o)' = EntryOf(o)'.committed
           /\ \A i \in Effects(o)' : (\A j \in Effects(o)' : j <= i) =>
                 LET a == request'[Undelivered'[i].work]
                 IN  Stored(o)' = IF a.kind = "write" THEN a.document ELSE Empty
<1>1. PICK u : u = Len(Undelivered)
  OBVIOUS
<1>2. /\ u \in Nat /\ 1 <= u /\ Len(Undelivered') = u - 1 /\ Head(ready) = Undelivered[1]
      /\ \A i \in 1..u - 1 : Undelivered'[i] = Undelivered[i + 1]
  BY <1>1, Delivered, Positions DEF StoreInv
<1>3. Stored(o)' = Stored(o)
  BY DEF Stored
<1>4. Effects(o) \subseteq 1..u /\ Effects(o)' \subseteq 1..u - 1
  BY <1>1, <1>2 DEF Effects
<1>5. \A i \in 1..u - 1 : i \in Effects(o)' <=> i + 1 \in Effects(o)
  <2>1. ASSUME NEW i \in 1..u - 1 PROVE i \in Effects(o)' <=> i + 1 \in Effects(o)
    <3>1. i + 1 \in 1..u /\ Undelivered'[i] = Undelivered[i + 1]
      BY <1>2
    <3> QED  BY <1>1, <1>2, <3>1 DEF Effects, Concerns
  <2> QED  BY <2>1
<1>6. 1 \in Effects(o) <=> (Head(ready).outcome = "success" /\ Concerns(Head(ready).work, o))
  BY <1>1, <1>2 DEF Effects
<1>7. ASSUME NEW i \in Effects(o)', \A j \in Effects(o)' : j <= i
      PROVE  LET a == request'[Undelivered'[i].work]
             IN  Stored(o)' = IF a.kind = "write" THEN a.document ELSE Empty
  <2>1. PICK m \in Nat : m = i + 1
    BY <1>2, <1>4
  <2>2. i \in 1..u - 1 /\ m \in Effects(o)
    BY <1>4, <1>5, <2>1
  <2>3. ASSUME NEW j \in Effects(o) PROVE j <= m
    <3>1. CASE j = 1
      BY <1>2, <2>1, <2>2, <3>1
    <3>2. CASE j # 1
      <4>1. PICK h \in 1..u - 1 : j = h + 1
        <5>1. j - 1 \in 1..u - 1 /\ j = (j - 1) + 1
          BY <1>2, <1>4, <3>2
        <5> QED  BY <5>1
      <4>2. h <= i
        BY <1>5, <1>7, <4>1
      <4> QED  BY <1>2, <2>1, <2>2, <4>1, <4>2
    <3> QED  BY <3>1, <3>2
  <2>4. Undelivered'[i] = Undelivered[m]
    BY <1>2, <2>1, <2>2
  <2>5. LET a == request[Undelivered[m].work]
        IN  Stored(o) = IF a.kind = "write" THEN a.document ELSE Empty
    BY <2>2, <2>3 DEF StoreInv, RowsExplained
  <2> QED  BY <1>3, <2>4, <2>5
<1>8. ASSUME Effects(o)' = {} PROVE Stored(o)' = EntryOf(o)'.committed
  <2>1. \A i \in Effects(o) : i = 1
    <3> SUFFICES ASSUME NEW i \in Effects(o), i # 1 PROVE FALSE
      OBVIOUS
    <3>1. PICK h \in 1..u - 1 : i = h + 1
      <4>1. i - 1 \in 1..u - 1 /\ i = (i - 1) + 1
        BY <1>2, <1>4
      <4> QED  BY <4>1
    <3> QED  BY <1>5, <1>8, <3>1
  <2>2. CASE 1 \in Effects(o)
    <3>1. \A j \in Effects(o) : j <= 1
      BY <2>1
    <3>2. Stored(o) = IF asked.kind = "write" THEN asked.document ELSE Empty
      BY <1>2, <2>2, <3>1 DEF StoreInv, RowsExplained
    <3> QED  BY <1>3, <1>6, <2>2, <3>2
  <2>3. CASE 1 \notin Effects(o)
    <3>1. Effects(o) = {}
      BY <2>1, <2>3
    <3> QED  BY <1>3, <1>6, <2>3, <3>1 DEF StoreInv, RowsExplained
  <2> QED  BY <2>2, <2>3
<1> QED  BY <1>7, <1>8

\* The answer of a write commits or takes back the entry of its owner, and no other.
LEMMA WriteAnswered ==
    ASSUME StoreInv, DeliverRequest, NEW asked \in Requests, asked = request[Head(ready).work],
           asked.kind = "write", NEW o \in Owners, o = asked.owner,
           NEW succeeded, succeeded = (Head(ready).outcome = "success")
    PROVE  /\ \A x \in Owners : x # o => EntryOf(x)' = EntryOf(x)
           /\ EntryOf(o)'.revision = EntryOf(o).revision
           /\ succeeded => /\ EntryOf(o)'.current = EntryOf(o).current
                           /\ EntryOf(o)'.committed = asked.document
           /\ ~succeeded => /\ EntryOf(o)'.committed = EntryOf(o).committed
                            /\ asked.revision = EntryOf(o).revision =>
                                  EntryOf(o)'.current = EntryOf(o).committed
                            /\ asked.revision # EntryOf(o).revision =>
                                  EntryOf(o)'.current = EntryOf(o).current
<1>1. /\ \A x \in Owners : EntryOf(x) \in Entry
      /\ entries \in [Owners -> Entry \cup {None}]
  BY EntryTyped DEF StoreInv, StoreTypeOK
<1>2. asked.document \in Documents /\ asked.revision \in Nat
  BY RequestKinds
<1>3. entries' = Written(asked, succeeded)
  BY DEF DeliverRequest
<1>4. \A x \in Owners : x # o => EntryOf(x)' = EntryOf(x)
  BY <1>1, <1>3 DEF Written, EntryOf
<1>5. EntryOf(o)' =
         CASE succeeded -> [EntryOf(o) EXCEPT !.committed = asked.document]
           [] ~succeeded /\ asked.revision = EntryOf(o).revision ->
                [EntryOf(o) EXCEPT !.current = EntryOf(o).committed]
           [] ~succeeded /\ asked.revision # EntryOf(o).revision -> EntryOf(o)
  <2> DEFINE e == CASE succeeded -> [EntryOf(o) EXCEPT !.committed = asked.document]
           [] ~succeeded /\ asked.revision = EntryOf(o).revision ->
                [EntryOf(o) EXCEPT !.current = EntryOf(o).committed]
           [] ~succeeded /\ asked.revision # EntryOf(o).revision -> EntryOf(o)
  <2>1. e \in Entry
    <3>1. [EntryOf(o) EXCEPT !.committed = asked.document] \in Entry
      BY <1>1, <1>2, EntryChanged DEF Entry
    <3>2. [EntryOf(o) EXCEPT !.current = EntryOf(o).committed] \in Entry
      BY <1>1, EntryChanged DEF Entry
    <3> QED  BY <1>1, <3>1, <3>2
  <2>2. entries' = [entries EXCEPT ![o] = e]
    BY <1>1, <1>3 DEF Written
  <2> HIDE DEF e
  <2>3. EntryOf(o)' = e
    BY <1>1, <2>1, <2>2, EntryAssumption DEF EntryOf
  <2> QED  BY <2>3 DEF e
<1>6. /\ EntryOf(o)'.revision = EntryOf(o).revision
      /\ succeeded => /\ EntryOf(o)'.current = EntryOf(o).current
                      /\ EntryOf(o)'.committed = asked.document
      /\ ~succeeded => /\ EntryOf(o)'.committed = EntryOf(o).committed
                       /\ asked.revision = EntryOf(o).revision =>
                             EntryOf(o)'.current = EntryOf(o).committed
                       /\ asked.revision # EntryOf(o).revision =>
                             EntryOf(o)'.current = EntryOf(o).current
  <2>1. PICK e \in Entry : e = EntryOf(o)
    BY <1>1
  <2>2. PICK f \in Entry : f = [e EXCEPT !.committed = asked.document]
    BY <1>2, <2>1, EntryChanged DEF Entry
  <2>3. PICK g \in Entry : g = [e EXCEPT !.current = e.committed]
    BY <2>1, EntryChanged DEF Entry
  <2>4. f.current = e.current /\ f.committed = asked.document /\ f.revision = e.revision
    BY <1>2, <2>2, EntryChanged
  <2>5. g.current = e.committed /\ g.committed = e.committed /\ g.revision = e.revision
    BY <2>3, EntryChanged DEF Entry
  <2> QED  BY <1>5, <2>1, <2>2, <2>3, <2>4, <2>5
<1> QED  BY <1>4, <1>6

LEMMA DeliverKeeps ==
    ASSUME StoreInv, DeliverRequest
    PROVE  Explained'
<1> DEFINE succeeded == Head(ready).outcome = "success"
<1>1. Deliver /\ UNCHANGED <<request, table, registered>>
  BY DEF DeliverRequest
<1>2. PICK k : k = Len(answered) + 1
  OBVIOUS
<1>3. /\ k \in Nat /\ k \in Waiting /\ Waiting' = Waiting \ {k}
      /\ \A i \in Waiting : i \in Nat /\ k <= i
      /\ \A i : Req(i)' = Req(i)
      /\ Erases' = Erases \ {k} /\ \A x : Writes(x)' = Writes(x) \ {k}
      /\ Req(k) \in Requests /\ Req(k) = request[Head(ready).work]
      /\ Requested'
  BY <1>1, <1>2, Shifted
<1>4. PICK asked \in Requests : asked = Req(k)
  BY <1>3
<1>5. /\ \A x : Writes(x) \subseteq Waiting
      /\ \A x \in Owners : EntryOf(x) \in Entry
      /\ entries \in [Owners -> Entry \cup {None}]
  BY EntryTyped DEF Writes, StoreInv, StoreTypeOK
<1>6. CASE asked.kind = "write"
  <2>1. PICK o \in Owners : o = asked.owner
    BY <1>6, RequestKinds
  <2>2. asked.document \in Documents /\ asked.revision \in Nat
    BY <1>6, RequestKinds
  <2>3. entries' = Written(asked, succeeded) /\ changing' = changing
    BY <1>3, <1>4, <1>6 DEF DeliverRequest
  <2>4. k \in Writes(o) /\ k \notin Erases /\ Erases' = Erases
        /\ \A x \in Owners : x # o => Writes(x)' = Writes(x)
    BY <1>3, <1>4, <1>6, <2>1 DEF Writes, Erases
  <2>5. asked.revision <= EntryOf(o).revision
    BY <1>4, <2>4 DEF StoreInv, Revised
  \* The last write that waits has the revision of the entry.
  <2>6. Writes(o)' = {} => asked.revision = EntryOf(o).revision /\ asked.document = EntryOf(o).current
    <3> SUFFICES ASSUME Writes(o)' = {} PROVE asked.revision = EntryOf(o).revision
                                              /\ asked.document = EntryOf(o).current
      OBVIOUS
    <3>1. \A j \in Writes(o) : j <= k
      BY <1>3
    <3> QED  BY <1>4, <2>4, <3>1 DEF StoreInv, Latest
  \* One that another follows has an earlier revision.
  <2>7. Writes(o)' # {} => asked.revision # EntryOf(o).revision
    <3> SUFFICES ASSUME NEW j \in Writes(o), j # k PROVE asked.revision # EntryOf(o).revision
      BY <1>3
    <3>1. k < j
      <4>1. j \in Waiting
        BY <1>5
      <4> QED  BY <1>3, <4>1
    <3>2. Req(j) \in Requests /\ Req(j).revision \in Nat /\ EntryOf(o).revision \in Nat
      BY <1>5, Known, RequestKinds DEF StoreInv, Writes, Entry
    <3>3. asked.revision < Req(j).revision /\ Req(j).revision <= EntryOf(o).revision
      BY <1>4, <2>4, <3>1 DEF StoreInv, Revised
    <3> QED  BY <2>2, <3>2, <3>3
  <2>8. \A x \in Owners : x # o => EntryOf(x)' = EntryOf(x)
    BY <1>3, <1>4, <1>6, <2>1, WriteAnswered
  <2>9. /\ EntryOf(o)'.revision = EntryOf(o).revision
        /\ succeeded => /\ EntryOf(o)'.current = EntryOf(o).current
                        /\ EntryOf(o)'.committed = asked.document
        /\ ~succeeded => /\ EntryOf(o)'.committed = EntryOf(o).committed
                         /\ asked.revision = EntryOf(o).revision =>
                               EntryOf(o)'.current = EntryOf(o).committed
                         /\ asked.revision # EntryOf(o).revision =>
                               EntryOf(o)'.current = EntryOf(o).current
    BY <1>3, <1>4, <1>6, <2>1, WriteAnswered
  <2>10. EraseLast'
    BY <1>1, <1>3, <2>3, <2>4 DEF StoreInv, EraseLast
  <2>11. Revised'
    <3>1. \A x \in Owners : EntryOf(x)'.revision = EntryOf(x).revision
      BY <2>8, <2>9
    <3> QED  BY <1>3, <3>1 DEF StoreInv, Revised
  <2>12. Latest'
    <3>1. ASSUME NEW x \in Owners, x # o
          PROVE  /\ \A i \in Writes(x)' : (\A j \in Writes(x)' : j <= i) =>
                       Req(i)'.revision = EntryOf(x)'.revision /\ Req(i)'.document = EntryOf(x)'.current
                 /\ Writes(x)' = {} => EntryOf(x)'.current = EntryOf(x)'.committed
      BY <1>3, <2>4, <2>8, <3>1 DEF StoreInv, Latest
    <3>2. ASSUME NEW i \in Writes(o)', \A j \in Writes(o)' : j <= i
          PROVE  Req(i)'.revision = EntryOf(o)'.revision /\ Req(i)'.document = EntryOf(o)'.current
      <4>1. i \in Writes(o) /\ \A j \in Writes(o) : j <= i
        BY <1>3, <1>5, <3>2
      <4>2. Req(i).revision = EntryOf(o).revision /\ Req(i).document = EntryOf(o).current
        BY <4>1 DEF StoreInv, Latest
      <4>3. asked.revision # EntryOf(o).revision
        BY <2>7
      <4> QED  BY <1>3, <2>9, <4>2, <4>3
    <3>3. Writes(o)' = {} => EntryOf(o)'.current = EntryOf(o)'.committed
      BY <2>6, <2>9
    <3> QED  BY <3>1, <3>2, <3>3 DEF Latest
  <2>13. RowsExplained'
    <3>1. Concerns(Head(ready).work, o) /\ \A x \in Owners : x # o => ~Concerns(Head(ready).work, x)
      BY <1>3, <1>4, <1>6, <2>1 DEF Concerns
    <3>2. ASSUME NEW x \in Owners
          PROVE  IF succeeded /\ Concerns(Head(ready).work, x)
                 THEN EntryOf(x)'.committed = IF asked.kind = "write" THEN asked.document ELSE Empty
                 ELSE EntryOf(x)'.committed = EntryOf(x).committed
      BY <1>6, <2>8, <2>9, <3>1
    <3> QED  BY <1>1, <1>3, <1>4, <3>2, RowsShift DEF RowsExplained
  <2> QED  BY <1>3, <2>10, <2>11, <2>12, <2>13 DEF Explained
<1>7. CASE asked.kind = "erase"
  <2>1. PICK p \in Plugins : p = asked.plugin
    BY <1>7, RequestKinds
  <2>2. entries' = Erased(p, succeeded) /\ changing' = None
    BY <1>3, <1>4, <1>7, <2>1 DEF DeliverRequest
  <2>3. k \in Erases
    BY <1>3, <1>4, <1>7 DEF Erases
  \* It is the last of all that concerns the plugin.
  <2>4. Erases' = {} /\ p = changing
    BY <1>3, <1>4, <2>1, <2>3 DEF StoreInv, EraseLast
  <2>5. \A x \in Owners : PluginOf[x] = p => Writes(x) = {}
    <3> SUFFICES ASSUME NEW x \in Owners, PluginOf[x] = p, NEW i \in Writes(x) PROVE FALSE
      OBVIOUS
    <3>1. i < k /\ i \in Nat /\ k <= i
      BY <1>3, <1>5, <2>3, <2>4 DEF StoreInv, EraseLast
    <3> QED  BY <1>3, <3>1
  <2>6. \A x \in Owners : Writes(x)' = Writes(x)
    BY <1>3, <1>4, <1>7 DEF Writes
  <2>7. \A x \in Owners : EntryOf(x)' = IF succeeded /\ PluginOf[x] = p THEN NewEntry ELSE EntryOf(x)
    BY <2>2 DEF Erased, Discarded, EntryOf
  <2>8. EraseLast'
    BY <2>4 DEF EraseLast
  <2>9. Revised'
    BY <1>3, <2>5, <2>6, <2>7 DEF StoreInv, Revised
  <2>10. Latest'
    <3>1. NewEntry.current = NewEntry.committed /\ NewEntry.committed = Empty
      BY DEF NewEntry
    <3> QED  BY <1>3, <2>5, <2>6, <2>7, <3>1 DEF StoreInv, Latest
  <2>11. RowsExplained'
    <3>1. \A x \in Owners : Concerns(Head(ready).work, x) <=> PluginOf[x] = p
      BY <1>3, <1>4, <1>7, <2>1 DEF Concerns
    <3>2. ASSUME NEW x \in Owners
          PROVE  IF succeeded /\ Concerns(Head(ready).work, x)
                 THEN EntryOf(x)'.committed = IF asked.kind = "write" THEN asked.document ELSE Empty
                 ELSE EntryOf(x)'.committed = EntryOf(x).committed
      BY <1>7, <2>7, <3>1 DEF NewEntry
    <3> QED  BY <1>1, <1>3, <1>4, <3>2, RowsShift DEF RowsExplained
  <2> QED  BY <1>3, <2>8, <2>9, <2>10, <2>11 DEF Explained
<1> QED  BY <1>6, <1>7, RequestKinds

-----------------------------------------------------------------------------
(***************************************************************************)
(* The invariant, and what it says of the documents.                       *)
(***************************************************************************)

LEMMA StoreInitInv ==
    ASSUME StoreInit
    PROVE  StoreInv
<1> USE StoreAssumption, EntryAssumption
<1>1. Inv /\ accepted = <<>> /\ answered = <<>> /\ Undelivered = <<>>
  BY InitInv DEF StoreInit, Init, Undelivered
<1>2. StoreTypeOK
  BY DEF StoreInit, StoreTypeOK, Entry
<1>3. /\ Waiting = {} /\ Erases = {} /\ \A o : Writes(o) = {} /\ Effects(o) = {}
  BY <1>1 DEF Waiting, Erases, Writes, Effects
<1>4. \A o \in Owners : EntryOf(o).current = Stored(o) /\ EntryOf(o).committed = Stored(o)
  BY DEF StoreInit, EntryOf, NewEntry, Stored, Entry
<1>5. Requested /\ EraseLast /\ Revised
  BY <1>1, <1>3 DEF Requested, EraseLast, Revised
<1>6. Latest /\ RowsExplained
  BY <1>3, <1>4 DEF Latest, RowsExplained
<1> QED  BY <1>1, <1>2, <1>5, <1>6 DEF StoreInv

LEMMA StoreNextInv ==
    ASSUME StoreInv, [StoreNext]_storeVars
    PROVE  StoreInv'
<1>1. Inv'
  BY StoreStepRefines, NextType, NextStages, NextConserved, NextCutOnce DEF StoreInv, Inv
<1>2. StoreTypeOK'
  BY StoreTypes DEF StoreInv
<1>3. Explained'
  <2>1. CASE \E w \in Work, o \in Owners, document \in Documents : Write(w, o, document)
    BY <2>1, WriteKeeps
  <2>2. CASE \E w \in Work, p \in Plugins : Erase(w, p)
    BY <2>2, EraseKeeps
  <2>3. ASSUME NEW p \in Plugins, Register(p) \/ Withdraw(p) PROVE Explained'
    <3>1. /\ UNCHANGED <<vars, request, table, entries, changing>> /\ changing = None
      BY <2>3 DEF Register, Withdraw
    <3>2. accepted' = accepted /\ answered' = answered /\ Undelivered' = Undelivered
      BY <3>1 DEF vars, Undelivered
    <3> QED  BY <3>1, <3>2, QuietKeeps
  <2>4. CASE \E outcome \in Outcomes : FinishRequest(outcome)
    BY <2>4, FinishKeeps
  <2>5. CASE DeliverRequest
    BY <2>5, DeliverKeeps
  <2>6. CASE Carry \/ UNCHANGED storeVars
    <3>1. UNCHANGED store /\ accepted' = accepted /\ answered' = answered /\ Undelivered' = Undelivered
      BY <2>6, Carried DEF Carry, storeVars, StoreInv
    <3> QED  BY <3>1, QuietKeeps DEF store
  <2> QED  BY <2>1, <2>2, <2>3, <2>4, <2>5, <2>6 DEF StoreNext
<1> QED  BY <1>1, <1>2, <1>3 DEF StoreInv, Explained

\* What the store keeps, whoever writes and however it fails.
THEOREM StoreInvariance == StoreSpec => []StoreInv
BY StoreInitInv, StoreNextInv, PTL DEF StoreSpec

\* Every variable of the store has its type.
THEOREM StoreTypeCorrect == StoreSpec => []StoreTypeOK
<1>1. StoreInv => StoreTypeOK
  BY DEF StoreInv
<1> QED  BY <1>1, StoreInvariance, PTL

\* What waits of an owner is its writes and the erase of its plugin.
LEMMA OpenIs ==
    ASSUME StoreInv, NEW o \in Owners
    PROVE  Open(o) = Writes(o) \cup {e \in Erases : Req(e).plugin = PluginOf[o]}
<1>1. Len(answered) \in Nat /\ Len(accepted) \in Nat
  BY Positions DEF StoreInv
<1>2. \A i : i \in Waiting <=> (i \in 1..Len(accepted) /\ i > Len(answered))
  BY <1>1 DEF Waiting
<1> QED  BY <1>2 DEF Open, Asked, Concerns, Writes, Erases, Req

\* A reader sees what was written last as long as it is not answered, for any
\* number of documents and of writes and however they fail.
THEOREM ShowsLatest == StoreSpec => []LatestShown
<1>1. StoreInv => LatestShown
  <2> SUFFICES ASSUME StoreInv, NEW o \in Owners, NEW i \in Open(o),
                      request[accepted[i]].kind = "write", \A j \in Open(o) : j <= i
               PROVE  EntryOf(o).current = request[accepted[i]].document
    BY DEF LatestShown
  <2>1. i \in Writes(o) /\ \A j \in Writes(o) : j <= i
    BY OpenIs DEF Writes, Erases, Req
  <2> QED  BY <2>1 DEF StoreInv, Latest, Req
<1> QED  BY <1>1, StoreInvariance, PTL

\* A crash at any moment leaves the committed document of every owner, or the
\* effect of the newest success not delivered yet.
THEOREM ExplainsRows == StoreSpec => []RowsExplained
<1>1. StoreInv => RowsExplained
  BY DEF StoreInv
<1> QED  BY <1>1, StoreInvariance, PTL

\* Memory and database agree whenever all that concerns an owner is answered.
THEOREM StoreSettles == StoreSpec => []Settles
<1>1. StoreInv => Settles
  <2> SUFFICES ASSUME StoreInv, NEW o \in Owners, Open(o) = {}
               PROVE  EntryOf(o).current = Stored(o) /\ EntryOf(o).committed = Stored(o)
    BY DEF Settles
  <2>1. Writes(o) = {}
    BY OpenIs
  <2>2. Effects(o) = {}
    <3> SUFFICES ASSUME NEW i \in Effects(o) PROVE FALSE
      OBVIOUS
    <3>1. /\ Len(answered) \in Nat /\ Len(accepted) \in Nat /\ Len(Undelivered) \in Nat
          /\ Len(answered) + Len(Undelivered) <= Len(accepted)
          /\ \A j \in 1..Len(Undelivered) : Undelivered[j].work = accepted[Len(answered) + j]
      BY Positions DEF StoreInv
    <3>2. i \in 1..Len(Undelivered) /\ Concerns(Undelivered[i].work, o)
      BY DEF Effects
    <3>3. /\ Len(answered) + i \in 1..Len(accepted) /\ Len(answered) + i > Len(answered)
          /\ Concerns(accepted[Len(answered) + i], o)
      BY <3>1, <3>2
    <3> QED  BY <3>3 DEF Open, Asked
  <2> QED  BY <2>1, <2>2 DEF StoreInv, Latest, RowsExplained
<1> QED  BY <1>1, StoreInvariance, PTL

-----------------------------------------------------------------------------
(***************************************************************************)
(* The preferences of the SDK are a client of the preference store, and the *)
(* copy a plugin holds of a document agrees with the host once what        *)
(* concerns it is heard.                                                   *)
(***************************************************************************)

\* A step of the SDK is a step of the store or leaves it alone.
LEMMA SdkStepRefines == [SdkNext]_sdkVars => [StoreNext]_storeVars
<1> SUFFICES ASSUME [SdkNext]_sdkVars PROVE [StoreNext]_storeVars
  OBVIOUS
<1>1. CASE \E o \in Owners : Define(o)
  BY <1>1 DEF Define
<1>2. CASE \E w \in Work, o \in Owners, document \in Documents : Set(w, o, document)
  BY <1>2 DEF Set, StoreNext
<1>3. CASE \E p \in Plugins : Forget(p)
  BY <1>3 DEF Forget, StoreNext
<1>4. CASE Complete
  BY <1>4 DEF Complete, StoreNext
<1>5. CASE Hear
  BY <1>5 DEF Hear
<1>6. CASE Elsewhere
  BY <1>6 DEF Elsewhere, StoreNext
<1>7. CASE UNCHANGED sdkVars
  BY <1>7 DEF sdkVars
<1> QED
  BY <1>1, <1>2, <1>3, <1>4, <1>5, <1>6, <1>7 DEF SdkNext

\* The SDK over the store implements the store.
THEOREM SdkImplementsStore == SdkSpec => StoreSpec
<1>1. SdkInit => StoreInit
  BY DEF SdkInit
<1> QED
  BY <1>1, SdkStepRefines, PTL DEF SdkSpec, StoreSpec

\* With plugins that define, set and forget documents of their own at any
\* moment, a reader sees what was written last as long as it is not answered.
THEOREM SdkShowsLatest == SdkSpec => []LatestShown
  BY SdkImplementsStore, ShowsLatest, PTL

\* And a crash at any moment leaves what was committed, or the effect of the
\* newest success not delivered yet.
THEOREM SdkExplainsRows == SdkSpec => []RowsExplained
  BY SdkImplementsStore, ExplainsRows, PTL

\* Memory and database agree whenever all that concerns an owner is answered.
THEOREM SdkSettles == SdkSpec => []Settles
  BY SdkImplementsStore, StoreSettles, PTL

-----------------------------------------------------------------------------
(***************************************************************************)
(* What the copies rest on:  where the writes asked for through a copy     *)
(* stand among what was accepted, and the answers on their way to it.      *)
(***************************************************************************)

\* The writes of a plugin that were asked for through the copy it holds.
Own(o) == {i \in 1..Len(accepted) : copies[o].asked[accepted[i]] # 0}

OnWay == {replies[k] : k \in 1..Len(replies)}

\* Those whose answer the copy expects, and those that will commit it.
Expected(o) == {i \in Own(o) : i \in Waiting \/ \E a \in OnWay : a.work = accepted[i]}
Successes(o) == {i \in Own(o) : \E a \in OnWay : a.work = accepted[i] /\ a.outcome = "success"}

Distinct == \A i, j \in 1..Len(accepted) : accepted[i] = accepted[j] => i = j

\* The answers on their way are those of writes the host answered, in their order.
RepliesOrdered ==
    /\ \A a \in OnWay : \E i \in 1..Len(answered) : accepted[i] = a.work /\ Req(i).kind = "write"
    /\ \A k, l \in 1..Len(replies) : \A i, j \in 1..Len(accepted) :
          k < l /\ accepted[i] = replies[k].work /\ accepted[j] = replies[l].work => i < j

\* A plugin that holds a copy runs, and the copy numbers its writes as the entry of the
\* host does, from another start.
Numbered(o) ==
    /\ PluginOf[o] \in registered
    /\ \A w \in Work : copies[o].asked[w] # 0 => \E i \in 1..Len(accepted) : accepted[i] = w
    /\ \A i \in Own(o) :
          /\ Req(i).kind = "write" /\ Req(i).owner = o
          /\ copies[o].asked[accepted[i]] <= copies[o].revision
          /\ \A j \in Own(o) : i < j => copies[o].asked[accepted[i]] < copies[o].asked[accepted[j]]
          /\ i \in Waiting =>
                Req(i).revision + copies[o].revision = EntryOf(o).revision + copies[o].asked[accepted[i]]

\* A write from before the plugin started anew is older than all the copy asked for, and the
\* copy is not sure of the committed document while such a write waits.
StrangersFirst(o) == \A i \in Writes(o) \ Own(o) : copies[o].raced /\ \A j \in Own(o) : i < j

\* As long as an answer is expected that of the latest write is, which the plugin reads.
LatestExpected(o) ==
    /\ \A i \in Expected(o) : copies[o].asked[accepted[i]] = copies[o].revision =>
          copies[o].values = Req(i).document
    /\ Expected(o) # {} => \E i \in Expected(o) : copies[o].asked[accepted[i]] = copies[o].revision
    /\ Expected(o) = {} /\ ~copies[o].raced => copies[o].values = copies[o].committed

\* The host committed what the last success on its way will commit, or the copy committed it.
CommitsFollow(o) ==
    /\ Successes(o) = {} /\ ~copies[o].raced => copies[o].committed = EntryOf(o).committed
    /\ \A i \in Successes(o) : (\A j \in Successes(o) : j <= i) => EntryOf(o).committed = Req(i).document

Mirrored(o) ==
    copies[o] # None => Numbered(o) /\ StrangersFirst(o) /\ LatestExpected(o) /\ CommitsFollow(o)

CopiesTypeOK == copies \in [Owners -> Copy \cup {None}] /\ replies \in Seq(Answers)

SdkInv == StoreInv /\ CopiesTypeOK /\ Distinct /\ RepliesOrdered /\ \A o \in Owners : Mirrored(o)

-----------------------------------------------------------------------------
(***************************************************************************)
(* A copy.                                                                 *)
(***************************************************************************)

\* An answer changes what is committed, what is shown or nothing.
LEMMA CopyHeard ==
    ASSUME NEW copy \in Copy, NEW w, NEW document \in Documents, document = request[w].document,
           NEW s \in BOOLEAN, NEW new, new = Heard(copy, w, s)
    PROVE  /\ new \in Copy /\ new.asked = copy.asked /\ new.revision = copy.revision
           /\ s => new.committed = document /\ new.values = copy.values /\ ~new.raced
           /\ ~s => new.committed = copy.committed /\ new.raced = copy.raced
           /\ (~s /\ copy.asked[w] = copy.revision) => new.values = copy.committed
           /\ (~s /\ copy.asked[w] # copy.revision) => new.values = copy.values
<1>1. CASE s
  <2>1. PICK no \in BOOLEAN : no = FALSE
    OBVIOUS
  <2>2. new = [copy EXCEPT !.committed = document, !.raced = no]
    BY <1>1, <2>1 DEF Heard
  <2>3. /\ new \in Copy /\ new.values = copy.values /\ new.committed = document
        /\ new.revision = copy.revision /\ new.asked = copy.asked /\ new.raced = no
    BY <2>2 DEF Copy
  <2> QED  BY <1>1, <2>1, <2>3
<1>2. CASE ~s /\ copy.asked[w] = copy.revision
  <2>1. new = [copy EXCEPT !.values = copy.committed]
    BY <1>2 DEF Heard
  <2>2. /\ new \in Copy /\ new.values = copy.committed /\ new.committed = copy.committed
        /\ new.revision = copy.revision /\ new.asked = copy.asked /\ new.raced = copy.raced
    BY <2>1 DEF Copy
  <2> QED  BY <1>2, <2>2
<1>3. CASE ~s /\ copy.asked[w] # copy.revision
  <2>1. new = copy
    BY <1>3 DEF Heard
  <2> QED  BY <1>3, <2>1
<1> QED  BY <1>1, <1>2, <1>3

\* A write changes three.
LEMMA CopySet ==
    ASSUME NEW copy \in Copy, NEW document \in Documents \cup {Empty}, NEW w \in Work,
           NEW new, new = Changed(copy, w, document), NEW revision, revision = copy.revision + 1
    PROVE  /\ new \in Copy /\ new.values = document /\ new.committed = copy.committed
           /\ new.revision = revision /\ new.raced = copy.raced
           /\ new.asked[w] = revision /\ \A x \in Work : x # w => new.asked[x] = copy.asked[x]
<1>1. PICK b \in [Work -> Nat] : b = copy.asked
  BY DEF Copy
<1>2. revision \in Nat
  BY DEF Copy
<1>3. PICK a \in [Work -> Nat] : a = [b EXCEPT ![w] = revision]
  BY <1>2
<1>4. a[w] = revision /\ \A x \in Work : x # w => a[x] = copy.asked[x]
  BY <1>1, <1>3
<1>5. new = [copy EXCEPT !.values = document, !.revision = revision, !.asked = a]
  <2>1. new = [copy EXCEPT !.values = document, !.revision = revision,
                           !.asked = [copy.asked EXCEPT ![w] = revision]]
    BY DEF Changed
  <2> QED  BY <1>1, <1>3, <2>1
<1>6. /\ new \in Copy /\ new.values = document /\ new.committed = copy.committed
      /\ new.revision = revision /\ new.asked = a /\ new.raced = copy.raced
  BY <1>2, <1>5 DEF Copy
<1> QED  BY <1>4, <1>6

\* The fields of a copy.
LEMMA CopyTyped ==
    ASSUME CopiesTypeOK, NEW o \in Owners, copies[o] # None
    PROVE  /\ copies[o] \in Copy /\ copies[o].asked \in [Work -> Nat] /\ copies[o].revision \in Nat
           /\ copies[o].raced \in BOOLEAN
           /\ copies[o].values \in Documents \cup {Empty} /\ copies[o].committed \in Documents \cup {Empty}
BY DEF CopiesTypeOK, Copy

\* What was accepted, and which of it waits.
LEMMA AcceptedPlaces ==
    ASSUME StoreInv
    PROVE  /\ Len(accepted) \in Nat /\ Len(answered) \in Nat /\ Len(answered) <= Len(accepted)
           /\ \A i \in 1..Len(accepted) : accepted[i] \in Work
           /\ \A i : i \in Waiting <=> i \in 1..Len(accepted) /\ i > Len(answered)
<1>1. /\ Len(accepted) \in Nat /\ Len(answered) \in Nat /\ Len(Undelivered) \in Nat
      /\ Len(answered) + Len(Undelivered) <= Len(accepted)
  BY Positions DEF StoreInv
<1>2. \A i \in 1..Len(accepted) : accepted[i] \in Work
  BY ElementOfSeq DEF StoreInv, Inv, TypeOK
<1>3. \A i : i \in Waiting <=> i \in 1..Len(accepted) /\ i > Len(answered)
  BY <1>1 DEF Waiting
<1> QED  BY <1>1, <1>2, <1>3

\* The step leaves what a copy shows, and what that rests on, as they were.
LEMMA ShownKept ==
    ASSUME NEW o \in Owners, Mirrored(o), copies[o] # None, copies'[o] = copies[o],
           PluginOf[o] \in registered', EntryOf(o)'.revision = EntryOf(o).revision,
           Own(o)' = Own(o), Writes(o)' \subseteq Writes(o), Expected(o)' = Expected(o),
           \A i \in Own(o) : Req(i)' = Req(i) /\ (i \in Waiting' => i \in Waiting),
           \A i \in 1..Len(accepted) : i \in 1..Len(accepted)' /\ accepted'[i] = accepted[i]
    PROVE  Numbered(o)' /\ StrangersFirst(o)' /\ LatestExpected(o)'
<1>1. Own(o) \subseteq 1..Len(accepted) /\ Expected(o) \subseteq Own(o)
  BY DEF Own, Expected
<1>2. \A i \in Own(o) : accepted'[i] = accepted[i] /\ copies'[o].asked[accepted'[i]] = copies[o].asked[accepted[i]]
  BY <1>1
<1>3. Numbered(o)'
  <2>1. ASSUME NEW w \in Work, copies'[o].asked[w] # 0 PROVE \E i \in 1..Len(accepted)' : accepted'[i] = w
    BY <2>1 DEF Mirrored, Numbered
  <2>2. ASSUME NEW i \in Own(o)'
        PROVE  /\ Req(i)'.kind = "write" /\ Req(i)'.owner = o
               /\ copies'[o].asked[accepted'[i]] <= copies'[o].revision
               /\ \A j \in Own(o)' : i < j => copies'[o].asked[accepted'[i]] < copies'[o].asked[accepted'[j]]
               /\ i \in Waiting' => Req(i)'.revision + copies'[o].revision
                                      = EntryOf(o)'.revision + copies'[o].asked[accepted'[i]]
    BY <1>2 DEF Mirrored, Numbered
  <2> QED  BY <2>1, <2>2 DEF Numbered
<1>4. StrangersFirst(o)'
  BY DEF Mirrored, StrangersFirst
<1>5. LatestExpected(o)'
  BY <1>1, <1>2 DEF Mirrored, LatestExpected
<1> QED  BY <1>3, <1>4, <1>5

\* And what will be committed.
LEMMA MirrorKept ==
    ASSUME NEW o \in Owners, Mirrored(o), copies'[o] = copies[o],
           copies[o] # None =>
              /\ PluginOf[o] \in registered'
              /\ EntryOf(o)'.revision = EntryOf(o).revision
              /\ EntryOf(o)'.committed = EntryOf(o).committed \/ CommitsFollow(o)'
              /\ Own(o)' = Own(o) /\ Writes(o)' \subseteq Writes(o)
              /\ Expected(o)' = Expected(o) /\ Successes(o)' = Successes(o)
              /\ \A i \in Own(o) : Req(i)' = Req(i) /\ (i \in Waiting' => i \in Waiting)
              /\ \A i \in 1..Len(accepted) : i \in 1..Len(accepted)' /\ accepted'[i] = accepted[i]
    PROVE  Mirrored(o)'
<1> SUFFICES ASSUME copies[o] # None
             PROVE  Numbered(o)' /\ StrangersFirst(o)' /\ LatestExpected(o)' /\ CommitsFollow(o)'
  BY DEF Mirrored
<1>1. Numbered(o)' /\ StrangersFirst(o)' /\ LatestExpected(o)'
  BY ShownKept
<1>2. CommitsFollow(o)'
  <2>1. Successes(o) \subseteq Own(o)
    BY DEF Successes
  <2> QED  BY <2>1 DEF Mirrored, CommitsFollow
<1> QED  BY <1>1, <1>2

-----------------------------------------------------------------------------
(***************************************************************************)
(* A submission.                                                           *)
(***************************************************************************)

\* What a submission adds: nothing of it is answered, asked for or on its way yet.
LEMMA Submits ==
    ASSUME SdkInv, NEW w \in Work, Submit(w), NEW r \in Requests,
           request' = [request EXCEPT ![w] = r], replies' = replies, NEW n, n = Len(accepted)
    PROVE  /\ n \in Nat /\ Len(accepted)' = n + 1 /\ accepted'[n + 1] = w /\ Req(n + 1)' = r
           /\ \A i \in 1..n : accepted'[i] = accepted[i] /\ accepted[i] # w /\ Req(i)' = Req(i)
           /\ Waiting \subseteq 1..n /\ Waiting' = Waiting \cup {n + 1}
           /\ OnWay' = OnWay /\ \A a \in OnWay : a.work # w
           /\ Distinct' /\ RepliesOrdered'
<1>1. /\ n \in Nat /\ Waiting \subseteq 1..n /\ Waiting' = Waiting \cup {n + 1}
      /\ \A i \in 1..n : Req(i)' = Req(i)
      /\ Req(n + 1)' = r
  BY Added DEF SdkInv
<1>2. /\ Len(accepted)' = n + 1 /\ accepted'[n + 1] = w
      /\ \A i \in 1..n : accepted'[i] = accepted[i] /\ accepted[i] # w
      /\ answered' = answered
  BY Submitted DEF SdkInv, StoreInv
<1>3. Len(answered) \in Nat /\ Len(answered) <= n
  BY AcceptedPlaces DEF SdkInv
<1>4. OnWay' = OnWay
  BY DEF OnWay
<1>5. ASSUME NEW a \in OnWay
      PROVE  \E i \in 1..n : i \in 1..Len(answered) /\ accepted[i] = a.work /\ Req(i).kind = "write"
  <2>1. PICK i \in 1..Len(answered) : accepted[i] = a.work /\ Req(i).kind = "write"
    BY DEF SdkInv, RepliesOrdered
  <2>2. i \in 1..n
    BY <1>1, <1>3
  <2> QED  BY <2>1, <2>2
<1>6. Distinct'
  <2> SUFFICES ASSUME NEW i \in 1..n + 1, NEW j \in 1..n + 1, accepted'[i] = accepted'[j] PROVE i = j
    BY <1>2 DEF Distinct
  <2>1. (i \in 1..n \/ i = n + 1) /\ (j \in 1..n \/ j = n + 1)
    BY <1>1
  <2> QED  BY <1>2, <2>1 DEF SdkInv, Distinct
<1>7. RepliesOrdered'
  <2>1. ASSUME NEW a \in OnWay' PROVE \E i \in 1..Len(answered)' : accepted'[i] = a.work /\ Req(i)'.kind = "write"
    BY <1>1, <1>2, <1>4, <1>5
  <2>2. ASSUME NEW k \in 1..Len(replies)', NEW l \in 1..Len(replies)', NEW i \in 1..Len(accepted)',
               NEW j \in 1..Len(accepted)', k < l, accepted'[i] = replies'[k].work, accepted'[j] = replies'[l].work
        PROVE  i < j
    <3>1. (i \in 1..n \/ i = n + 1) /\ (j \in 1..n \/ j = n + 1)
      BY <1>1, <1>2
    <3>2. replies[k] \in OnWay /\ replies[l] \in OnWay
      BY DEF OnWay
    <3>3. replies[k].work # w /\ replies[l].work # w
      BY <1>2, <1>5, <3>2
    <3> QED  BY <1>2, <2>2, <3>1, <3>3 DEF SdkInv, RepliesOrdered
  <2> QED  BY <2>1, <2>2 DEF RepliesOrdered
<1> QED  BY <1>1, <1>2, <1>4, <1>5, <1>6, <1>7

\* The copies of other owners do not notice it.
LEMMA SubmitMirrors ==
    ASSUME SdkInv, NEW w \in Work, Submit(w), NEW r \in Requests,
           request' = [request EXCEPT ![w] = r], replies' = replies, registered' = registered,
           NEW o \in Owners, copies'[o] = copies[o], EntryOf(o)' = EntryOf(o),
           ~(r.kind = "write" /\ r.owner = o)
    PROVE  Mirrored(o)'
<1>1. PICK n : n = Len(accepted)
  OBVIOUS
<1>2. /\ n \in Nat /\ Len(accepted)' = n + 1 /\ accepted'[n + 1] = w /\ Req(n + 1)' = r
      /\ \A i \in 1..n : accepted'[i] = accepted[i] /\ accepted[i] # w /\ Req(i)' = Req(i)
      /\ Waiting \subseteq 1..n /\ Waiting' = Waiting \cup {n + 1}
      /\ OnWay' = OnWay
  BY <1>1, Submits
<1>3. Mirrored(o)
  BY DEF SdkInv
<1> SUFFICES ASSUME copies[o] # None PROVE Mirrored(o)'
  BY <1>3, MirrorKept
<1>4. copies[o].asked[w] = 0
  BY <1>1, <1>2, <1>3 DEF Mirrored, Numbered
<1>5. \A i \in 1..n + 1 : i \in 1..n \/ i = n + 1
  BY <1>2
<1>6. 1..n \subseteq 1..n + 1 /\ n + 1 \notin 1..n
  BY <1>2
<1>7. Own(o)' = Own(o) /\ Own(o) \subseteq 1..n
  BY <1>1, <1>2, <1>4, <1>5, <1>6 DEF Own
<1>8. Writes(o)' \subseteq Writes(o)
  BY <1>2 DEF Writes
<1>9. Expected(o)' = Expected(o)
  BY <1>2, <1>6, <1>7 DEF Expected
<1>10. Successes(o)' = Successes(o)
  BY <1>2, <1>7 DEF Successes
<1>11. PluginOf[o] \in registered'
  BY <1>3 DEF Mirrored, Numbered
<1>12. \A i \in Own(o) : Req(i)' = Req(i) /\ (i \in Waiting' => i \in Waiting)
  BY <1>2, <1>6, <1>7
<1>13. \A i \in 1..Len(accepted) : i \in 1..Len(accepted)' /\ accepted'[i] = accepted[i]
  BY <1>1, <1>2, <1>6
<1> QED  BY <1>3, <1>7, <1>8, <1>9, <1>10, <1>11, <1>12, <1>13, MirrorKept

\* A plugin writes: the copy and the entry are changed alike.
LEMMA SetMirrors ==
    ASSUME SdkInv, NEW w \in Work, NEW o \in Owners, NEW document \in Documents, Set(w, o, document)
    PROVE  CopiesTypeOK' /\ Distinct' /\ RepliesOrdered' /\ \A x \in Owners : Mirrored(x)'
<1> DEFINE r == [kind |-> "write", owner |-> o, document |-> document,
                 revision |-> EntryOf(o).revision + 1]
           e == [current |-> document, revision |-> EntryOf(o).revision + 1,
                 committed |-> EntryOf(o).committed]
<1>1. PICK n : n = Len(accepted)
  OBVIOUS
<1>2. PICK c : c = copies[o]
  OBVIOUS
<1>3. c # None /\ Write(w, o, document) /\ replies' = replies
  BY <1>2 DEF Set
<1>4. /\ c \in Copy /\ c.asked \in [Work -> Nat] /\ c.revision \in Nat /\ c.raced \in BOOLEAN
      /\ c.committed \in Documents \cup {Empty}
      /\ copies \in [Owners -> Copy \cup {None}]
  BY <1>2, <1>3, CopyTyped DEF SdkInv, CopiesTypeOK
<1>5. PICK v : v = c.revision + 1
  OBVIOUS
<1>6. PICK d : d = Changed(c, w, document)
  OBVIOUS
<1>7. copies' = [copies EXCEPT ![o] = d]
  BY <1>2, <1>6 DEF Set
<1>8. /\ d \in Copy /\ d.values = document /\ d.committed = c.committed /\ d.revision = v /\ d.raced = c.raced
       /\ d.asked[w] = v /\ \A x \in Work : x # w => d.asked[x] = c.asked[x]
  <2>1. document \in Documents \cup {Empty} /\ c \in Copy
    BY <1>4
  <2> QED  BY <1>5, <1>6, <2>1, CopySet
<1>9. copies'[o] = d /\ d # None /\ \A x \in Owners : x # o => copies'[x] = copies[x]
  BY <1>4, <1>8, <1>7, CopyAssumption
<1>10. EntryOf(o) \in Entry /\ r \in Requests /\ e \in Entry
  BY EntryTyped DEF SdkInv, StoreInv, Entry, Requests
<1>11. /\ EntryOf(o)' = e
       /\ \A x \in Owners : x # o => EntryOf(x)' = EntryOf(x)
  <2>1. entries \in [Owners -> Entry \cup {None}] /\ entries' = [entries EXCEPT ![o] = e]
    BY <1>3 DEF Write, SdkInv, StoreInv, StoreTypeOK
  <2> QED  BY <1>10, <2>1, EntryAssumption DEF EntryOf
<1>12. Submit(w) /\ request' = [request EXCEPT ![w] = r] /\ registered' = registered
  BY <1>3 DEF Write
<1>13. /\ n \in Nat /\ Len(accepted)' = n + 1 /\ accepted'[n + 1] = w /\ Req(n + 1)' = r
       /\ \A i \in 1..n : accepted'[i] = accepted[i] /\ accepted[i] # w /\ Req(i)' = Req(i)
       /\ Waiting \subseteq 1..n /\ Waiting' = Waiting \cup {n + 1}
       /\ OnWay' = OnWay /\ \A a \in OnWay : a.work # w
       /\ Distinct' /\ RepliesOrdered'
  <2> HIDE DEF r
  <2> QED  BY <1>1, <1>3, <1>10, <1>12, Submits
<1>14. r.kind = "write" /\ r.owner = o /\ r.document = document /\ r.revision = EntryOf(o).revision + 1
       /\ EntryOf(o)'.revision = EntryOf(o).revision + 1 /\ EntryOf(o)'.committed = EntryOf(o).committed
       /\ EntryOf(o).revision \in Nat
  BY <1>10, <1>11 DEF Entry
<1>15. CopiesTypeOK'
  BY <1>3, <1>4, <1>8, <1>7 DEF CopiesTypeOK, SdkInv
<1>16. ASSUME NEW x \in Owners, x # o PROVE Mirrored(x)'
  <2>1. ~(r.kind = "write" /\ r.owner = x)
    BY <1>14, <1>16
  <2> HIDE DEF r
  <2> QED  BY <1>3, <1>9, <1>10, <1>11, <1>12, <1>16, <2>1, SubmitMirrors
<1> HIDE DEF r, e
<1>17. \A i \in 1..n + 1 : i \in 1..n \/ i = n + 1
  BY <1>13
<1>18. 1..n \subseteq 1..n + 1 /\ n + 1 \notin 1..n /\ n + 1 \in 1..n + 1
       /\ \A i \in 1..n : i < n + 1
  BY <1>13
<1>19. \A i \in 1..n : accepted[i] \in Work /\ d.asked[accepted[i]] = c.asked[accepted[i]]
  BY <1>1, <1>8, <1>13, AcceptedPlaces DEF SdkInv
<1>20. v # 0 /\ v \in Nat /\ c.revision < v
  BY <1>4, <1>5
<1>21. Own(o) \subseteq 1..n /\ Own(o)' = Own(o) \cup {n + 1}
  <2>1. ASSUME NEW i \in 1..n + 1 PROVE d.asked[accepted'[i]] # 0 <=> i \in Own(o) \cup {n + 1}
    <3>1. CASE i = n + 1
      BY <1>8, <1>13, <1>20, <3>1
    <3>2. CASE i \in 1..n
      BY <1>1, <1>2, <1>13, <1>18, <1>19, <3>2 DEF Own
    <3> QED  BY <1>17, <3>1, <3>2
  <2>2. Own(o) \subseteq 1..n
    BY <1>1 DEF Own
  <2> QED  BY <1>9, <1>13, <1>18, <2>1, <2>2 DEF Own
<1>22. Numbered(o) /\ StrangersFirst(o) /\ LatestExpected(o) /\ CommitsFollow(o)
  BY <1>2, <1>3 DEF SdkInv, Mirrored
<1>23. Numbered(o)'
  <2>1. PluginOf[o] \in registered'
    BY <1>12, <1>22 DEF Numbered
  <2>2. ASSUME NEW x \in Work, d.asked[x] # 0 PROVE \E i \in 1..n + 1 : accepted'[i] = x
    <3>1. CASE x = w
      BY <1>13, <1>18, <3>1
    <3>2. CASE x # w
      BY <1>1, <1>2, <1>8, <1>13, <1>18, <1>22, <2>2, <3>2 DEF Numbered
    <3> QED  BY <3>1, <3>2
  <2>3. ASSUME NEW i \in Own(o)
        PROVE  /\ i \in 1..n /\ accepted'[i] = accepted[i] /\ d.asked[accepted[i]] = c.asked[accepted[i]]
               /\ c.asked[accepted[i]] \in Nat /\ c.asked[accepted[i]] <= c.revision
               /\ Req(i).kind = "write" /\ Req(i).owner = o /\ Req(i)' = Req(i)
               /\ i \in Waiting' => i \in Waiting
               /\ i \in Waiting => Req(i).revision + c.revision = EntryOf(o).revision + c.asked[accepted[i]]
               /\ i \in Waiting => Req(i).revision \in Nat
    <3>1. i \in 1..n /\ i # n + 1
      BY <1>18, <1>21
    <3>2. accepted[i] \in Work /\ c.asked[accepted[i]] \in Nat
      BY <1>4, <1>19, <3>1
    <3>3. /\ c.asked[accepted[i]] <= c.revision /\ Req(i).kind = "write" /\ Req(i).owner = o
          /\ i \in Waiting => Req(i).revision + c.revision = EntryOf(o).revision + c.asked[accepted[i]]
      BY <1>2, <1>22 DEF Numbered
    <3>4. i \in Waiting => Req(i).revision \in Nat
      BY <3>3, Known, RequestKinds DEF SdkInv, StoreInv
    <3> QED  BY <1>13, <1>19, <3>1, <3>2, <3>3, <3>4
  <2>4. ASSUME NEW i \in Own(o)'
        PROVE  /\ Req(i)'.kind = "write" /\ Req(i)'.owner = o
               /\ d.asked[accepted'[i]] <= d.revision
               /\ \A j \in Own(o)' : i < j => d.asked[accepted'[i]] < d.asked[accepted'[j]]
               /\ i \in Waiting' => Req(i)'.revision + d.revision
                                      = EntryOf(o)'.revision + d.asked[accepted'[i]]
    <3>1. CASE i \in Own(o)
      <4>1. d.asked[accepted'[i]] <= d.revision /\ d.asked[accepted'[i]] < v
        BY <1>4, <1>5, <1>8, <2>3, <3>1
      <4>2. ASSUME NEW j \in Own(o)', i < j PROVE d.asked[accepted'[i]] < d.asked[accepted'[j]]
        <5>1. CASE j \in Own(o)
          <6>1. c.asked[accepted[i]] < c.asked[accepted[j]]
            BY <1>2, <1>22, <3>1, <4>2, <5>1 DEF Numbered
          <6> QED  BY <2>3, <3>1, <5>1, <6>1
        <5>2. CASE j = n + 1
          BY <1>8, <1>13, <4>1, <5>2
        <5> QED  BY <1>21, <5>1, <5>2
      <4>3. ASSUME i \in Waiting'
            PROVE  Req(i)'.revision + d.revision = EntryOf(o)'.revision + d.asked[accepted'[i]]
        <5>1. Req(i).revision + c.revision = EntryOf(o).revision + c.asked[accepted[i]]
              /\ Req(i).revision \in Nat /\ c.asked[accepted[i]] \in Nat
          BY <2>3, <3>1, <4>3
        <5>2. Req(i).revision + (c.revision + 1) = (EntryOf(o).revision + 1) + c.asked[accepted[i]]
          BY <1>4, <1>14, <5>1
        <5>3. Req(i)'.revision = Req(i).revision /\ d.asked[accepted'[i]] = c.asked[accepted[i]]
          BY <2>3, <3>1
        <5> QED  BY <1>5, <1>8, <1>14, <5>2, <5>3
      <4> QED  BY <2>3, <3>1, <4>1, <4>2, <4>3
    <3>2. CASE i = n + 1
      <4>1. \A j \in Own(o)' : ~(i < j)
        BY <1>13, <1>18, <1>21, <3>2
      <4>2. d.asked[accepted'[i]] = v /\ Req(i)' = r
        BY <1>8, <1>13, <3>2
      <4>3. d.revision = v /\ v <= v
        BY <1>8, <1>20
      <4> QED  BY <1>14, <4>1, <4>2, <4>3
    <3> QED  BY <1>21, <3>1, <3>2
  <2> QED  BY <1>9, <1>13, <2>1, <2>2, <2>4 DEF Numbered
<1>24. StrangersFirst(o)'
  <2> SUFFICES ASSUME NEW i \in Writes(o)' \ Own(o)'
               PROVE  d.raced /\ \A j \in Own(o)' : i < j
    BY <1>9 DEF StrangersFirst
  <2>1. i \in Waiting' /\ i # n + 1 /\ i \notin Own(o) /\ Req(i)'.kind = "write" /\ Req(i)'.owner = o
    BY <1>21 DEF Writes
  <2>2. i \in Waiting /\ i \in 1..n /\ Req(i)' = Req(i)
    BY <1>13, <2>1
  <2>3. i \in Writes(o)
    BY <2>1, <2>2 DEF Writes
  <2> QED  BY <1>2, <1>8, <1>18, <1>21, <1>22, <2>1, <2>2, <2>3 DEF StrangersFirst
<1>25. Expected(o)' = Expected(o) \cup {n + 1} /\ Expected(o) \subseteq Own(o)
  <2>1. ASSUME NEW i \in Own(o)
        PROVE  /\ i \in Waiting' <=> i \in Waiting
               /\ accepted'[i] = accepted[i]
    BY <1>13, <1>18, <1>21
  <2> QED  BY <1>13, <1>21, <2>1 DEF Expected
<1>26. LatestExpected(o)'
  <2>1. ASSUME NEW i \in Expected(o)', d.asked[accepted'[i]] = d.revision PROVE d.values = Req(i)'.document
    <3>1. CASE i = n + 1
      BY <1>8, <1>13, <1>14, <3>1
    <3>2. CASE i \in Expected(o)
      <4>1. i \in Own(o) /\ i \in 1..n
        BY <1>21, <1>25, <3>2
      <4>2. c.asked[accepted[i]] <= c.revision /\ c.asked[accepted[i]] \in Nat
        BY <1>2, <1>4, <1>19, <1>22, <4>1 DEF Numbered
      <4>3. d.asked[accepted'[i]] = c.asked[accepted[i]]
        BY <1>13, <1>19, <4>1
      <4> QED  BY <1>4, <1>8, <1>20, <2>1, <4>2, <4>3
    <3> QED  BY <1>25, <3>1, <3>2
  <2>2. n + 1 \in Expected(o)' /\ d.asked[accepted'[n + 1]] = d.revision
    BY <1>8, <1>13, <1>25
  <2> QED  BY <1>9, <2>1, <2>2 DEF LatestExpected
<1>27. Successes(o)' = Successes(o) /\ Successes(o) \subseteq Own(o)
  <2>1. \A i \in Own(o) : accepted'[i] = accepted[i]
    BY <1>13, <1>21
  <2> QED  BY <1>13, <1>21, <2>1 DEF Successes
<1>28. CommitsFollow(o)'
  <2>1. \A i \in Successes(o) : Req(i)' = Req(i)
    BY <1>13, <1>21, <1>27
  <2> QED  BY <1>2, <1>8, <1>9, <1>14, <1>22, <1>27, <2>1 DEF CommitsFollow
<1>29. Mirrored(o)'
  BY <1>23, <1>24, <1>26, <1>28 DEF Mirrored
<1> QED  BY <1>13, <1>15, <1>16, <1>29

\* A write of the core, or an erase, asked for by no plugin.
LEMMA ElsewhereAsks ==
    ASSUME SdkInv, UNCHANGED sdk, NEW w \in Work,
           \/ \E o \in Owners, document \in Documents : PluginOf[o] = CoreOwner /\ Write(w, o, document)
           \/ \E p \in Plugins : Erase(w, p)
    PROVE  CopiesTypeOK' /\ Distinct' /\ RepliesOrdered' /\ \A x \in Owners : Mirrored(x)'
<1>1. CopiesTypeOK' /\ replies' = replies /\ copies' = copies
  BY DEF sdk, CopiesTypeOK, SdkInv
<1>2. PICK n : n = Len(accepted)
  OBVIOUS
<1>3. ASSUME NEW o \in Owners, NEW document \in Documents, PluginOf[o] = CoreOwner, Write(w, o, document)
      PROVE  Distinct' /\ RepliesOrdered' /\ \A x \in Owners : Mirrored(x)'
  <2> DEFINE r == [kind |-> "write", owner |-> o, document |-> document,
                   revision |-> EntryOf(o).revision + 1]
  <2>1. r \in Requests
    BY EntryTyped DEF SdkInv, StoreInv, Entry, Requests
  <2>2. Submit(w) /\ request' = [request EXCEPT ![w] = r] /\ registered' = registered
    BY <1>3 DEF Write
  <2>3. \A x \in Owners : x # o => EntryOf(x)' = EntryOf(x)
    BY <1>3 DEF Write, EntryOf
  <2>4. r.kind = "write" /\ r.owner = o
    OBVIOUS
  <2> HIDE DEF r
  <2>5. Distinct' /\ RepliesOrdered'
    BY <1>1, <1>2, <2>1, <2>2, Submits
  <2>6. copies[o] = None
    <3>1. registered \in SUBSET Plugins
      BY DEF SdkInv, StoreInv, StoreTypeOK
    <3> QED  BY <1>3, <3>1, StoreAssumption DEF SdkInv, Mirrored, Numbered
  <2>7. Mirrored(o)'
    BY <1>1, <2>6 DEF Mirrored
  <2>8. ASSUME NEW x \in Owners, x # o PROVE Mirrored(x)'
    BY <1>1, <2>1, <2>2, <2>3, <2>4, <2>8, SubmitMirrors
  <2> QED  BY <2>5, <2>7, <2>8
<1>4. ASSUME NEW p \in Plugins, Erase(w, p)
      PROVE  Distinct' /\ RepliesOrdered' /\ \A x \in Owners : Mirrored(x)'
  <2> DEFINE r == [kind |-> "erase", plugin |-> p]
  <2>1. r \in Requests
    BY DEF Requests
  <2>2. Submit(w) /\ request' = [request EXCEPT ![w] = r] /\ registered' = registered
    BY <1>4 DEF Erase
  <2>3. \A x \in Owners : EntryOf(x)' = EntryOf(x)
    BY <1>4 DEF Erase, EntryOf
  <2>4. r.kind # "write"
    OBVIOUS
  <2> HIDE DEF r
  <2>5. Distinct' /\ RepliesOrdered'
    BY <1>1, <1>2, <2>1, <2>2, Submits
  <2>6. ASSUME NEW x \in Owners PROVE Mirrored(x)'
    BY <1>1, <2>1, <2>2, <2>3, <2>4, SubmitMirrors
  <2> QED  BY <2>5, <2>6
<1> QED  BY <1>1, <1>3, <1>4

-----------------------------------------------------------------------------
(***************************************************************************)
(* Steps that ask for nothing and answer nothing.                          *)
(***************************************************************************)

\* What no request and no answer changes.
LEMMA QuietPlaces ==
    ASSUME accepted' = accepted, answered' = answered, request' = request, replies' = replies
    PROVE  /\ Waiting' = Waiting /\ OnWay' = OnWay /\ \A i : Req(i)' = Req(i)
           /\ \A o : Writes(o)' = Writes(o)
           /\ Distinct => Distinct'
           /\ RepliesOrdered => RepliesOrdered'
<1>1. Waiting' = Waiting /\ OnWay' = OnWay /\ \A i : Req(i)' = Req(i)
  BY DEF Waiting, OnWay, Req
<1>2. \A o : Writes(o)' = Writes(o)
  BY <1>1 DEF Writes
<1>3. (Distinct => Distinct') /\ (RepliesOrdered => RepliesOrdered')
  BY <1>1 DEF Distinct, RepliesOrdered
<1> QED  BY <1>1, <1>2, <1>3

\* A copy the step leaves alone, of a plugin that still runs.
LEMMA QuietMirrors ==
    ASSUME SdkInv, accepted' = accepted, answered' = answered, request' = request, replies' = replies,
           entries' = entries, NEW o \in Owners, copies'[o] = copies[o],
           copies[o] # None => PluginOf[o] \in registered'
    PROVE  Mirrored(o)'
<1>1. Waiting' = Waiting /\ OnWay' = OnWay /\ (\A i : Req(i)' = Req(i)) /\ Writes(o)' = Writes(o)
  BY QuietPlaces
<1>2. Own(o)' = Own(o)
  BY DEF Own
<1>3. Expected(o)' = Expected(o) /\ Successes(o)' = Successes(o)
  BY <1>1, <1>2 DEF Expected, Successes
<1>4. EntryOf(o)' = EntryOf(o)
  BY DEF EntryOf
<1>5. Mirrored(o)
  BY DEF SdkInv
<1> QED  BY <1>1, <1>2, <1>3, <1>4, <1>5, MirrorKept

\* No copy is touched and no plugin goes.
LEMMA StillMirrors ==
    ASSUME SdkInv, UNCHANGED <<accepted, answered, request, entries, copies, replies>>,
           registered \subseteq registered'
    PROVE  CopiesTypeOK' /\ Distinct' /\ RepliesOrdered' /\ \A x \in Owners : Mirrored(x)'
<1>1. CopiesTypeOK' /\ Distinct' /\ RepliesOrdered'
  BY QuietPlaces DEF SdkInv, CopiesTypeOK
<1>2. ASSUME NEW x \in Owners PROVE Mirrored(x)'
  <2>1. copies[x] # None => PluginOf[x] \in registered'
    BY DEF SdkInv, Mirrored, Numbered
  <2> QED  BY <2>1, QuietMirrors
<1> QED  BY <1>1, <1>2

\* A plugin that is withdrawn holds no copy any more.
LEMMA ForgetMirrors ==
    ASSUME SdkInv, NEW p \in Plugins, Forget(p)
    PROVE  CopiesTypeOK' /\ Distinct' /\ RepliesOrdered' /\ \A x \in Owners : Mirrored(x)'
<1>1. /\ accepted' = accepted /\ answered' = answered /\ request' = request /\ replies' = replies
      /\ entries' = entries /\ registered' = registered \ {p}
      /\ copies' = [o \in Owners |-> IF PluginOf[o] = p THEN None ELSE copies[o]]
  BY DEF Forget, Withdraw, vars
<1>2. CopiesTypeOK' /\ Distinct' /\ RepliesOrdered'
  BY <1>1, QuietPlaces DEF SdkInv, CopiesTypeOK
<1>3. ASSUME NEW x \in Owners, PluginOf[x] = p PROVE Mirrored(x)'
  BY <1>1, <1>3 DEF Mirrored
<1>4. ASSUME NEW x \in Owners, PluginOf[x] # p PROVE Mirrored(x)'
  <2>1. copies'[x] = copies[x]
    BY <1>1, <1>4
  <2>2. copies[x] # None => PluginOf[x] \in registered'
    BY <1>1, <1>4 DEF SdkInv, Mirrored, Numbered
  <2> QED  BY <1>1, <2>1, <2>2, QuietMirrors
<1> QED  BY <1>2, <1>3, <1>4

\* A copy starts with nothing asked for: what is read and what is committed agree
\* unless a write of the plugin before its restart waits.
LEMMA DefineMirrors ==
    ASSUME SdkInv, NEW o \in Owners, Define(o)
    PROVE  CopiesTypeOK' /\ Distinct' /\ RepliesOrdered' /\ \A x \in Owners : Mirrored(x)'
<1>1. PICK e \in Entry : e = EntryOf(o)
  BY EntryTyped DEF SdkInv, StoreInv
<1>2. PICK z : z = [w \in Work |-> 0]
  OBVIOUS
<1>3. PICK b \in BOOLEAN : b <=> Open(o) # {}
  OBVIOUS
<1>4. PICK c : c = [values |-> e.current, committed |-> e.current, revision |-> 0, asked |-> z, raced |-> b]
  OBVIOUS
<1>5. /\ c \in Copy /\ c.values = e.current /\ c.committed = e.current /\ c.asked = z /\ (c.raced <=> b)
  BY <1>1, <1>2, <1>4 DEF Copy, Entry
<1>6. copies' = [copies EXCEPT ![o] = c]
  <2>1. b = (Open(o) # {})
    BY <1>3
  <2> QED  BY <1>1, <1>2, <1>4, <2>1 DEF Define
<1>7. /\ accepted' = accepted /\ answered' = answered /\ request' = request /\ replies' = replies
      /\ entries' = entries /\ registered' = registered /\ PluginOf[o] \in registered
  BY DEF Define, storeVars, store, vars
<1>8. copies \in [Owners -> Copy \cup {None}]
  BY DEF SdkInv, CopiesTypeOK
<1>9. CopiesTypeOK' /\ Distinct' /\ RepliesOrdered'
  BY <1>5, <1>6, <1>7, <1>8, QuietPlaces DEF SdkInv, CopiesTypeOK
<1>10. ASSUME NEW x \in Owners, x # o PROVE Mirrored(x)'
  <2>1. copies'[x] = copies[x]
    BY <1>6, <1>10
  <2>2. copies[x] # None => PluginOf[x] \in registered'
    BY <1>7 DEF SdkInv, Mirrored, Numbered
  <2> QED  BY <1>7, <2>1, <2>2, QuietMirrors
<1>11. Mirrored(o)'
  <2>1. copies'[o] = c
    BY <1>6, <1>8
  <2>2. \A w \in Work : c.asked[w] = 0
    BY <1>2, <1>5
  <2>3. \A i \in 1..Len(accepted) : accepted[i] \in Work
    BY AcceptedPlaces DEF SdkInv
  <2>4. Own(o)' = {}
    BY <1>7, <2>1, <2>2, <2>3 DEF Own
  <2>5. Expected(o)' = {} /\ Successes(o)' = {}
    BY <2>4 DEF Expected, Successes
  <2>6. Numbered(o)'
    BY <1>7, <2>1, <2>2, <2>4 DEF Numbered
  <2>7. Writes(o)' = Writes(o) /\ EntryOf(o)' = e
    BY <1>1, <1>7, QuietPlaces DEF EntryOf
  <2>8. Writes(o) # {} => b
    BY <1>3, OpenIs DEF SdkInv
  <2>9. ~b => e.current = e.committed
    BY <1>1, <2>8 DEF SdkInv, StoreInv, Latest
  <2>10. StrangersFirst(o)'
    BY <1>5, <2>1, <2>4, <2>7, <2>8 DEF StrangersFirst
  <2>11. LatestExpected(o)'
    BY <1>5, <2>1, <2>5 DEF LatestExpected
  <2>12. CommitsFollow(o)'
    BY <1>5, <2>1, <2>5, <2>7, <2>9 DEF CommitsFollow
  <2> QED  BY <2>6, <2>10, <2>11, <2>12 DEF Mirrored
<1> QED  BY <1>9, <1>10, <1>11

-----------------------------------------------------------------------------
(***************************************************************************)
(* Answers.                                                                *)
(***************************************************************************)

\* An answer on its way is of a write the host answered.
LEMMA AnswerPlace ==
    ASSUME SdkInv, NEW a \in OnWay, NEW i \in 1..Len(accepted), accepted[i] = a.work
    PROVE  i \in 1..Len(answered) /\ Req(i).kind = "write"
<1>1. PICK j \in 1..Len(answered) : accepted[j] = a.work /\ Req(j).kind = "write"
  BY DEF SdkInv, RepliesOrdered
<1>2. j \in 1..Len(accepted)
  BY AcceptedPlaces DEF SdkInv
<1>3. i = j
  BY <1>1, <1>2 DEF SdkInv, Distinct
<1> QED  BY <1>1, <1>3

\* The host answers, and the answer of a write starts on its way.
LEMMA CompletePlaces ==
    ASSUME SdkInv, Complete, NEW k, k = Len(answered) + 1, NEW a, a = Head(ready)
    PROVE  /\ a \in Answers /\ k \in Waiting /\ Waiting' = Waiting \ {k} /\ Req(k) \in Requests
           /\ a.work = accepted[k] /\ Req(k) = request[a.work] /\ accepted' = accepted
           /\ \A i : Req(i)' = Req(i)
           /\ \A i \in Waiting : k <= i
           /\ \A o : Writes(o)' = Writes(o) \ {k}
           /\ OnWay' = IF Req(k).kind = "write" THEN OnWay \cup {a} ELSE OnWay
           /\ CopiesTypeOK' /\ Distinct' /\ RepliesOrdered'
<1>1. Deliver /\ request' = request /\ DeliverRequest /\ copies' = copies
  BY DEF Complete, DeliverRequest
<1>2. /\ k \in Nat /\ k \in Waiting /\ Waiting' = Waiting \ {k} /\ \A i \in Waiting : i \in Nat /\ k <= i
      /\ \A i : Req(i)' = Req(i)
      /\ \A o : Writes(o)' = Writes(o) \ {k}
      /\ Req(k) \in Requests /\ Req(k) = request[Head(ready).work]
  BY <1>1, Shifted DEF SdkInv
<1>3. accepted' = accepted /\ Len(answered') = k /\ a \in Answers /\ a.work = accepted[k]
  BY <1>1, Delivered DEF SdkInv, StoreInv
<1>4. PICK m \in Nat : m = Len(replies)
  BY LenProperties DEF SdkInv, CopiesTypeOK
<1>5. replies' = IF Req(k).kind = "write" THEN Append(replies, a) ELSE replies
  BY <1>2 DEF Complete
<1>6. /\ Append(replies, a) \in Seq(Answers) /\ Len(Append(replies, a)) = m + 1
      /\ Append(replies, a)[m + 1] = a
      /\ \A i \in 1..m : Append(replies, a)[i] = replies[i]
  BY <1>3, <1>4, AppendProperties DEF SdkInv, CopiesTypeOK
<1>7. CopiesTypeOK' /\ Distinct'
  BY <1>1, <1>3, <1>5, <1>6 DEF SdkInv, CopiesTypeOK, Distinct
<1>8. k \in 1..Len(accepted) /\ 1..Len(answered) \subseteq 1..k /\ k \in 1..k
  BY <1>2, AcceptedPlaces DEF SdkInv
<1>9. CASE Req(k).kind # "write"
  <2>1. replies' = replies /\ OnWay' = OnWay
    BY <1>5, <1>9 DEF OnWay
  <2>2. ASSUME NEW b \in OnWay PROVE \E i \in 1..Len(answered)' : accepted'[i] = b.work /\ Req(i)'.kind = "write"
    BY <1>2, <1>3, <1>8 DEF SdkInv, RepliesOrdered
  <2>3. RepliesOrdered'
    BY <1>3, <2>1, <2>2 DEF SdkInv, RepliesOrdered
  <2> QED  BY <1>2, <1>3, <1>7, <1>9, <2>1, <2>3
<1>10. CASE Req(k).kind = "write"
  <2>1. /\ replies' = Append(replies, a) /\ Len(replies)' = m + 1 /\ replies'[m + 1] = a
        /\ \A i \in 1..m : replies'[i] = replies[i]
    BY <1>5, <1>6, <1>10
  <2>2. \A i \in 1..m + 1 : i \in 1..m \/ i = m + 1
    BY <1>4
  <2>3. 1..m \subseteq 1..m + 1 /\ m + 1 \in 1..m + 1
    BY <1>4
  <2>4. OnWay' = OnWay \cup {a}
    BY <1>4, <2>1, <2>2, <2>3 DEF OnWay
  <2>5. ASSUME NEW b \in OnWay' PROVE \E i \in 1..Len(answered)' : accepted'[i] = b.work /\ Req(i)'.kind = "write"
    <3>1. CASE b = a
      BY <1>2, <1>3, <1>8, <1>10, <3>1
    <3>2. CASE b \in OnWay
      BY <1>2, <1>3, <1>8, <3>2 DEF SdkInv, RepliesOrdered
    <3> QED  BY <2>4, <3>1, <3>2
  <2>6. ASSUME NEW l \in 1..m + 1, NEW n \in 1..m + 1, NEW i \in 1..Len(accepted), NEW j \in 1..Len(accepted),
               l < n, accepted[i] = replies'[l].work, accepted[j] = replies'[n].work
        PROVE  i < j
    <3>1. l \in 1..m
      BY <1>4, <2>6
    <3>2. replies'[l] = replies[l] /\ replies[l] \in OnWay
      BY <1>4, <2>1, <3>1 DEF OnWay
    <3>3. CASE n \in 1..m
      BY <1>4, <2>1, <2>6, <3>1, <3>2, <3>3 DEF SdkInv, RepliesOrdered
    <3>4. CASE n = m + 1
      <4>1. j = k
        BY <1>3, <1>8, <2>1, <2>6, <3>4 DEF SdkInv, Distinct
      <4>2. i \in 1..Len(answered)
        BY <2>6, <3>2, AnswerPlace
      <4> QED  BY <4>1, <4>2, AcceptedPlaces DEF SdkInv
    <3> QED  BY <2>2, <3>3, <3>4
  <2>7. RepliesOrdered'
    BY <1>3, <2>1, <2>5, <2>6 DEF RepliesOrdered
  <2> QED  BY <1>2, <1>3, <1>7, <1>10, <2>4, <2>7
<1> QED  BY <1>9, <1>10

\* The copies then: the host commits as they will.
LEMMA CompleteMirrors ==
    ASSUME SdkInv, Complete, NEW x \in Owners
    PROVE  Mirrored(x)'
<1>1. PICK k : k = Len(answered) + 1
  OBVIOUS
<1>2. PICK a : a = Head(ready)
  OBVIOUS
<1>3. /\ a \in Answers /\ k \in Waiting /\ Waiting' = Waiting \ {k} /\ Req(k) \in Requests
      /\ a.work = accepted[k] /\ Req(k) = request[a.work] /\ accepted' = accepted
      /\ \A i : Req(i)' = Req(i)
      /\ \A i \in Waiting : k <= i
      /\ \A o : Writes(o)' = Writes(o) \ {k}
      /\ OnWay' = IF Req(k).kind = "write" THEN OnWay \cup {a} ELSE OnWay
  BY <1>1, <1>2, CompletePlaces
<1>4. DeliverRequest /\ copies' = copies /\ registered' = registered
  BY DEF Complete, DeliverRequest
<1>5. Mirrored(x)
  BY DEF SdkInv
<1>6. SUFFICES ASSUME copies[x] # None PROVE Mirrored(x)'
  BY <1>4, <1>5, MirrorKept
<1>7. PICK c : c = copies[x]
  OBVIOUS
<1>8. /\ PluginOf[x] \in registered /\ \A i \in Own(x) : Req(i).kind = "write" /\ Req(i).owner = x
      /\ \A i \in Writes(x) \ Own(x) : c.raced /\ \A j \in Own(x) : i < j
  BY <1>5, <1>6, <1>7 DEF Mirrored, Numbered, StrangersFirst
<1>9. Own(x)' = Own(x) /\ Own(x) \subseteq 1..Len(accepted)
  BY <1>3, <1>4 DEF Own
<1>10. k \in 1..Len(accepted) /\ k > Len(answered) /\ k \in Nat /\ Len(answered) \in Nat
  BY <1>1, <1>3, AcceptedPlaces DEF SdkInv
<1>11. ASSUME NEW i \in Own(x), i # k
       PROVE  /\ i \in Waiting' <=> i \in Waiting
              /\ a.work # accepted[i]
  <2>1. a.work # accepted[i]
    BY <1>3, <1>9, <1>10, <1>11 DEF SdkInv, Distinct
  <2> QED  BY <1>3, <1>11, <2>1
\* What is expected stays so: an answer that waited is on its way.
<1>12. Expected(x)' = Expected(x)
  <2>1. ASSUME NEW i \in Own(x)
        PROVE  (i \in Waiting' \/ \E b \in OnWay' : b.work = accepted[i])
                  <=> (i \in Waiting \/ \E b \in OnWay : b.work = accepted[i])
    <3>1. CASE i = k
      <4>1. a \in OnWay'
        BY <1>3, <1>8, <3>1
      <4> QED  BY <1>3, <3>1, <4>1
    <3>2. CASE i # k
      BY <1>3, <1>11, <3>2
    <3> QED  BY <3>1, <3>2
  <2> QED  BY <1>3, <1>9, <2>1 DEF Expected
<1>13. \A i \in Successes(x) : i \in 1..Len(answered) /\ i \in Own(x) /\ i < k
  <2> TAKE i \in Successes(x)
  <2>1. i \in Own(x) /\ i \in 1..Len(accepted) /\ \E b \in OnWay : b.work = accepted[i]
    BY <1>9 DEF Successes
  <2>2. i \in 1..Len(answered)
    BY <2>1, AnswerPlace
  <2> QED  BY <1>10, <2>1, <2>2
<1>14. Successes(x)' = IF k \in Own(x) /\ a.outcome = "success" THEN Successes(x) \cup {k} ELSE Successes(x)
  <2>1. ASSUME NEW i \in Own(x)
        PROVE  i \in Successes(x)' <=> (i \in Successes(x) \/ (i = k /\ a.outcome = "success"))
    <3>1. i \in Successes(x)' <=> \E b \in OnWay' : b.work = accepted[i] /\ b.outcome = "success"
      BY <1>3, <1>9 DEF Successes
    <3>2. i \in Successes(x) <=> \E b \in OnWay : b.work = accepted[i] /\ b.outcome = "success"
      BY DEF Successes
    <3>3. CASE i = k
      <4>1. OnWay' = OnWay \cup {a} /\ k \notin Successes(x) /\ a.work = accepted[i]
        BY <1>3, <1>8, <1>10, <1>13, <3>3
      <4> QED  BY <3>1, <3>2, <3>3, <4>1
    <3>4. CASE i # k
      BY <1>3, <1>11, <3>1, <3>2, <3>4
    <3> QED  BY <3>3, <3>4
  <2>2. Successes(x)' \subseteq Own(x) /\ Successes(x) \subseteq Own(x)
    BY <1>9 DEF Successes
  <2> QED  BY <2>1, <2>2
<1>15. /\ PluginOf[x] \in registered' /\ Own(x)' = Own(x) /\ Writes(x)' \subseteq Writes(x)
       /\ \A i \in Own(x) : Req(i)' = Req(i) /\ (i \in Waiting' => i \in Waiting)
       /\ \A i \in 1..Len(accepted) : i \in 1..Len(accepted)' /\ accepted'[i] = accepted[i]
  BY <1>3, <1>4, <1>8, <1>9
<1>16. ASSUME EntryOf(x)'.revision = EntryOf(x).revision, EntryOf(x)'.committed = EntryOf(x).committed,
              Successes(x)' = Successes(x)
       PROVE  Mirrored(x)'
  BY <1>4, <1>5, <1>12, <1>15, <1>16, MirrorKept
<1>17. CASE Req(k).kind = "erase"
  <2>1. k \notin Own(x)
    BY <1>8, <1>17
  <2>2. k \in Erases /\ PluginOf[x] # Req(k).plugin
    BY <1>3, <1>8, <1>17 DEF Erases, SdkInv, StoreInv, EraseLast
  <2>3. EntryOf(x)' = EntryOf(x)
    BY <1>2, <1>3, <1>4, <1>17, <2>2 DEF DeliverRequest, Erased, Discarded, EntryOf
  <2> QED  BY <1>14, <1>16, <2>1, <2>3
<1>18. CASE Req(k).kind = "write"
  <2>1. PICK o \in Owners : o = Req(k).owner
    BY <1>3, <1>18, RequestKinds
  <2>2. PICK asked \in Requests : asked = Req(k)
    BY <1>3
  <2>3. PICK s \in BOOLEAN : s = (a.outcome = "success")
    OBVIOUS
  <2>4. /\ \A y \in Owners : y # o => EntryOf(y)' = EntryOf(y)
        /\ EntryOf(o)'.revision = EntryOf(o).revision
        /\ s => EntryOf(o)'.committed = asked.document
        /\ ~s => EntryOf(o)'.committed = EntryOf(o).committed
    <3>1. asked = request[Head(ready).work] /\ asked.kind = "write" /\ o = asked.owner
      BY <1>2, <1>3, <1>18, <2>1, <2>2
    <3> QED  BY <1>2, <1>4, <2>3, <3>1, WriteAnswered DEF SdkInv
  <2>5. CASE x # o
    <3>1. k \notin Own(x)
      BY <1>8, <2>1, <2>5
    <3> QED  BY <1>14, <1>16, <2>4, <2>5, <3>1
  <2>6. CASE x = o /\ ~s
    BY <1>14, <1>16, <2>3, <2>4, <2>6
  \* A success the copy expects is the newest on its way.
  <2>7. CASE x = o /\ s /\ k \in Own(x)
    <3>1. Successes(x)' = Successes(x) \cup {k}
      BY <1>14, <2>3, <2>7
    <3>2. \A i \in Successes(x)' : (\A j \in Successes(x)' : j <= i) => i = k
      <4>1. \A i \in Successes(x) : i < k /\ i \in Nat
        BY <1>13
      <4>2. ASSUME NEW i \in Successes(x)', \A j \in Successes(x)' : j <= i PROVE i = k
        <5>1. k \in Successes(x)'
          BY <3>1
        <5>2. k <= i
          BY <4>2, <5>1
        <5>3. i \in Successes(x) \/ i = k
          BY <3>1
        <5> QED  BY <1>10, <4>1, <5>2, <5>3
      <4> QED  BY <4>2
    <3>3. EntryOf(x)'.committed = Req(k)'.document
      BY <1>3, <2>2, <2>4, <2>7
    <3>4. CommitsFollow(x)'
      BY <3>1, <3>2, <3>3 DEF CommitsFollow
    \* What the copy shows does not depend on it.
    <3>5. Numbered(x)' /\ StrangersFirst(x)' /\ LatestExpected(x)'
      <4>1. EntryOf(x)'.revision = EntryOf(x).revision
        BY <2>4, <2>7
      <4> QED  BY <1>4, <1>5, <1>6, <1>9, <1>12, <1>15, <4>1, ShownKept
    <3> QED  BY <3>4, <3>5 DEF Mirrored
  \* One it does not expect is of a write older than all it asked for.
  <2>8. CASE x = o /\ s /\ k \notin Own(x)
    <3>1. k \in Writes(x) \ Own(x)
      BY <1>3, <1>18, <2>1, <2>8 DEF Writes
    <3>2. c.raced /\ \A j \in Own(x) : k < j
      BY <1>8, <3>1
    <3>3. Successes(x) = {}
      <4> SUFFICES ASSUME NEW i \in Successes(x) PROVE FALSE
        OBVIOUS
      <4> QED  BY <1>10, <1>13, <3>2
    <3>4. Successes(x)' = Successes(x)
      BY <1>14, <2>8
    <3>5. CommitsFollow(x)'
      BY <1>4, <1>7, <3>2, <3>3, <3>4 DEF CommitsFollow
    <3> QED  BY <1>4, <1>5, <1>12, <1>15, <2>4, <2>8, <3>4, <3>5, MirrorKept
  <2> QED  BY <2>3, <2>5, <2>6, <2>7, <2>8
<1> QED  BY <1>3, <1>17, <1>18, RequestKinds

\* The answer leaves, and those behind it are of later writes.
LEMMA HearPlaces ==
    ASSUME SdkInv, Hear, NEW h, h = Head(replies)
    PROVE  /\ h \in OnWay /\ OnWay \subseteq OnWay' \cup {h} /\ OnWay' \subseteq OnWay
           /\ \E p \in 1..Len(answered) :
                 /\ accepted[p] = h.work /\ Req(p).kind = "write" /\ p \in 1..Len(accepted)
                 /\ \A a \in OnWay' : \A i \in 1..Len(accepted) : accepted[i] = a.work => p < i
           /\ replies' \in Seq(Answers) /\ Distinct' /\ RepliesOrdered'
<1>1. /\ replies' = Tail(replies) /\ replies # <<>> /\ replies \in Seq(Answers)
      /\ accepted' = accepted /\ answered' = answered /\ request' = request
  BY DEF Hear, SdkInv, CopiesTypeOK, storeVars, store, vars
<1>2. PICK m \in Nat : m = Len(replies)
  BY <1>1, LenProperties
<1>3. /\ m >= 1 /\ replies' \in Seq(Answers) /\ Len(replies') = m - 1 /\ h = replies[1]
      /\ \A i \in 1..m - 1 : replies'[i] = replies[i + 1]
  BY <1>1, <1>2, HeadTailProperties, EmptySeq
<1>4. h \in OnWay
  BY <1>2, <1>3 DEF OnWay
<1>5. ASSUME NEW a \in OnWay' PROVE \E l \in 1..m : l > 1 /\ a = replies[l]
  <2>1. PICK i \in 1..m - 1 : a = replies'[i]
    BY <1>3 DEF OnWay
  <2>2. i + 1 \in 1..m /\ i + 1 > 1 /\ a = replies[i + 1]
    BY <1>2, <1>3, <2>1
  <2> QED  BY <2>2
<1>6. ASSUME NEW a \in OnWay, a # h PROVE a \in OnWay'
  <2>1. PICK l \in 1..m : a = replies[l]
    BY <1>2 DEF OnWay
  <2>2. l # 1
    BY <1>3, <1>6, <2>1
  <2>3. PICK i \in 1..m - 1 : l = i + 1
    <3>1. l - 1 \in 1..m - 1 /\ l = (l - 1) + 1
      BY <1>2, <2>1, <2>2
    <3> QED  BY <3>1
  <2> QED  BY <1>3, <2>1, <2>3 DEF OnWay
<1>7. OnWay' \subseteq OnWay
  BY <1>2, <1>5 DEF OnWay
<1>8. PICK p \in 1..Len(answered) : accepted[p] = h.work /\ Req(p).kind = "write"
  BY <1>4 DEF SdkInv, RepliesOrdered
<1>9. p \in 1..Len(accepted)
  BY AcceptedPlaces DEF SdkInv
<1>10. ASSUME NEW a \in OnWay', NEW i \in 1..Len(accepted), accepted[i] = a.work PROVE p < i
  <2>1. PICK l \in 1..m : l > 1 /\ a = replies[l]
    BY <1>5
  <2>2. 1 \in 1..Len(replies) /\ l \in 1..Len(replies) /\ 1 < l
    BY <1>2, <1>3, <2>1
  <2> QED  BY <1>3, <1>8, <1>9, <1>10, <2>1, <2>2 DEF SdkInv, RepliesOrdered
<1>11. RepliesOrdered'
  <2>1. ASSUME NEW a \in OnWay' PROVE \E i \in 1..Len(answered)' : accepted'[i] = a.work /\ Req(i)'.kind = "write"
    <3>1. \A i : Req(i)' = Req(i)
      BY <1>1 DEF Req
    <3> QED  BY <1>1, <1>7, <3>1 DEF SdkInv, RepliesOrdered
  <2>2. ASSUME NEW k \in 1..m - 1, NEW l \in 1..m - 1, NEW i \in 1..Len(accepted), NEW j \in 1..Len(accepted),
               k < l, accepted[i] = replies'[k].work, accepted[j] = replies'[l].work
        PROVE  i < j
    <3>1. PICK s \in 1..m : s = k + 1 /\ replies'[k] = replies[s]
      BY SMTT(30), <1>2, <1>3
    <3>2. PICK t \in 1..m : t = l + 1 /\ replies'[l] = replies[t]
      BY <1>2, <1>3
    <3>3. s < t
      BY <1>2, <2>2, <3>1, <3>2
    <3> QED  BY SMTT(30), <1>2, <2>2, <3>1, <3>2, <3>3 DEF SdkInv, RepliesOrdered
  <2> QED  BY <1>1, <1>3, <2>1, <2>2 DEF RepliesOrdered
<1>12. Distinct'
  BY <1>1 DEF SdkInv, Distinct
<1> QED  BY <1>3, <1>4, <1>6, <1>7, <1>8, <1>9, <1>10, <1>11, <1>12

\* A copy hears an answer: it commits, takes back or leaves what it holds.
LEMMA HearMirrors ==
    ASSUME SdkInv, Hear
    PROVE  CopiesTypeOK' /\ Distinct' /\ RepliesOrdered' /\ \A x \in Owners : Mirrored(x)'
<1>1. PICK h : h = Head(replies)
  OBVIOUS
<1>2. /\ h \in OnWay /\ OnWay \subseteq OnWay' \cup {h} /\ OnWay' \subseteq OnWay
      /\ replies' \in Seq(Answers) /\ Distinct' /\ RepliesOrdered'
  BY <1>1, HearPlaces
<1>3. PICK p \in 1..Len(answered) :
         /\ accepted[p] = h.work /\ Req(p).kind = "write" /\ p \in 1..Len(accepted)
         /\ \A a \in OnWay' : \A i \in 1..Len(accepted) : accepted[i] = a.work => p < i
  BY <1>1, HearPlaces
<1>4. PICK w \in Work : w = h.work /\ accepted[p] = w
  BY <1>3, AcceptedPlaces DEF SdkInv
<1>5. PICK asked \in Requests : asked = request[w] /\ asked = Req(p)
  BY <1>3, <1>4 DEF SdkInv, StoreInv, Requested, Req
<1>6. PICK o \in Owners : o = asked.owner
  BY <1>3, <1>5, RequestKinds
<1>7. asked.document \in Documents
  BY <1>3, <1>5, RequestKinds
<1>8. /\ accepted' = accepted /\ answered' = answered /\ request' = request
      /\ entries' = entries /\ registered' = registered
      /\ Waiting' = Waiting /\ (\A i : Req(i)' = Req(i)) /\ (\A x : Writes(x)' = Writes(x) /\ EntryOf(x)' = EntryOf(x))
  <2>1. /\ accepted' = accepted /\ answered' = answered /\ request' = request
        /\ entries' = entries /\ registered' = registered
    BY DEF Hear, storeVars, store, vars
  <2>2. Waiting' = Waiting /\ (\A i : Req(i)' = Req(i)) /\ (\A x : EntryOf(x)' = EntryOf(x))
    BY <2>1 DEF Waiting, Req, EntryOf
  <2> QED  BY <2>1, <2>2 DEF Writes
<1>9. /\ Len(accepted) \in Nat /\ Len(answered) \in Nat /\ p \in Nat
      /\ \A i \in Waiting : i \in 1..Len(accepted) /\ p < i
  BY <1>3, AcceptedPlaces DEF SdkInv
<1>10. copies' = IF copies[o] = None \/ copies[o].asked[w] = 0 THEN copies
                 ELSE [copies EXCEPT ![o] = Heard(copies[o], w, h.outcome = "success")]
  BY <1>1, <1>4, <1>5, <1>6 DEF Hear
<1>11. copies \in [Owners -> Copy \cup {None}]
  BY DEF SdkInv, CopiesTypeOK
\* A copy that does not expect the answer is left alone.
<1>12. ASSUME NEW x \in Owners, copies'[x] = copies[x], copies[x] # None => p \notin Own(x)
       PROVE  Mirrored(x)'
  <2>1. Mirrored(x)
    BY DEF SdkInv
  <2> SUFFICES ASSUME copies[x] # None PROVE Mirrored(x)'
    BY <1>12, <2>1, MirrorKept
  <2>2. Own(x)' = Own(x) /\ Own(x) \subseteq 1..Len(accepted)
    BY <1>8, <1>12 DEF Own
  <2>3. \A i \in Own(x) : accepted[i] # w
    BY <1>3, <1>4, <1>12, <2>2 DEF SdkInv, Distinct
  <2>4. ASSUME NEW i \in Own(x), NEW a, a.work = accepted[i] PROVE a \in OnWay' <=> a \in OnWay
    BY <1>2, <1>4, <2>3, <2>4
  <2>5. Expected(x)' = Expected(x)
    BY <1>8, <2>2, <2>4 DEF Expected
  <2>6. Successes(x)' = Successes(x)
    BY <1>8, <2>2, <2>4 DEF Successes
  <2>7. PluginOf[x] \in registered'
    BY <1>8, <2>1 DEF Mirrored, Numbered
  <2> QED  BY <1>8, <1>12, <2>1, <2>2, <2>5, <2>6, <2>7, MirrorKept
<1>13. ASSUME NEW x \in Owners, x # o, copies[x] # None PROVE p \notin Own(x)
  BY <1>5, <1>6, <1>13 DEF SdkInv, Mirrored, Numbered
<1>14. CASE copies[o] = None \/ copies[o].asked[w] = 0
  <2>1. copies' = copies
    BY <1>10, <1>14
  <2>2. copies[o] # None => p \notin Own(o)
    BY <1>4, <1>14 DEF Own
  <2>3. ASSUME NEW x \in Owners PROVE Mirrored(x)'
    BY <1>12, <1>13, <2>1, <2>2
  <2> QED  BY <1>2, <1>11, <2>1, <2>3 DEF CopiesTypeOK
<1>15. CASE ~(copies[o] = None \/ copies[o].asked[w] = 0)
  <2>1. PICK c \in Copy : c = copies[o] /\ c.asked[w] # 0 /\ copies[o] # None
    BY <1>11, <1>15
  <2>2. PICK s \in BOOLEAN : s = (h.outcome = "success")
    OBVIOUS
  <2>3. PICK d : d = Heard(c, w, s)
    OBVIOUS
  <2>4. /\ d \in Copy /\ d.asked = c.asked /\ d.revision = c.revision
        /\ s => d.committed = asked.document /\ d.values = c.values /\ ~d.raced
        /\ ~s => d.committed = c.committed /\ d.raced = c.raced
        /\ (~s /\ c.asked[w] = c.revision) => d.values = c.committed
        /\ (~s /\ c.asked[w] # c.revision) => d.values = c.values
    <3>1. PICK doc \in Documents : doc = request[w].document /\ doc = asked.document
      BY <1>5, <1>7
    <3>2. /\ d \in Copy /\ d.asked = c.asked /\ d.revision = c.revision
          /\ s => d.committed = doc /\ d.values = c.values /\ ~d.raced
          /\ ~s => d.committed = c.committed /\ d.raced = c.raced
          /\ (~s /\ c.asked[w] = c.revision) => d.values = c.committed
          /\ (~s /\ c.asked[w] # c.revision) => d.values = c.values
      <4>1. c \in Copy /\ s \in BOOLEAN /\ doc = request[w].document /\ doc \in Documents
        BY <3>1
      <4> QED  BY ONLY <2>3, <4>1, CopyHeard
    <3> QED  BY <3>1, <3>2
  <2>5. copies' = [copies EXCEPT ![o] = d]
    BY <1>10, <1>15, <2>1, <2>2, <2>3
  <2>6. copies'[o] = d /\ d # None /\ \A x \in Owners : x # o => copies'[x] = copies[x]
    BY <1>11, <2>4, <2>5, CopyAssumption
  <2>7. CopiesTypeOK'
    BY <1>2, <1>11, <2>4, <2>5 DEF CopiesTypeOK
  <2>8. ASSUME NEW x \in Owners, x # o PROVE Mirrored(x)'
    BY <1>12, <1>13, <2>6, <2>8
  <2>9. Numbered(o) /\ StrangersFirst(o) /\ LatestExpected(o) /\ CommitsFollow(o)
    BY <2>1 DEF SdkInv, Mirrored
  <2>10. /\ Own(o)' = Own(o) /\ Own(o) \subseteq 1..Len(accepted) /\ p \in Own(o)
         /\ \A i \in Own(o) : c.asked[accepted[i]] \in Nat /\ c.asked[accepted[i]] <= c.revision
                              /\ \A j \in Own(o) : i < j => c.asked[accepted[i]] < c.asked[accepted[j]]
         /\ c.revision \in Nat
    <3>1. Own(o)' = Own(o) /\ Own(o) \subseteq 1..Len(accepted) /\ p \in Own(o)
      BY <1>3, <1>4, <1>8, <2>1, <2>4, <2>6 DEF Own
    <3>2. c.asked \in [Work -> Nat] /\ c.revision \in Nat
      BY DEF Copy
    <3>3. \A i \in Own(o) : c.asked[accepted[i]] \in Nat
      BY <3>1, <3>2, AcceptedPlaces DEF SdkInv
    <3> QED  BY <2>1, <2>9, <3>1, <3>2, <3>3 DEF Numbered
  \* It is the first of the answers the copy expects, and the only one of its write.
  <2>11. \A a \in OnWay' : a.work # w
    BY <1>3, <1>4, <1>9
  <2>12. \A a \in OnWay : a.work = w => a = h
    BY <1>2, <2>11
  <2>13. /\ Expected(o) \subseteq Own(o) /\ p \in Expected(o) /\ Expected(o)' = Expected(o) \ {p}
         /\ \A i \in Expected(o)' : p < i
    <3>1. p \notin Waiting
      BY <1>9
    <3>2. ASSUME NEW i \in Own(o), i # p
          PROVE  (\E a \in OnWay' : a.work = accepted[i]) <=> \E a \in OnWay : a.work = accepted[i]
      <4>1. accepted[i] # h.work
        BY <1>3, <2>10, <3>2 DEF SdkInv, Distinct
      <4> QED  BY <1>2, <4>1
    <3>3. Expected(o)' = Expected(o) \ {p}
      BY <1>4, <1>8, <2>10, <2>11, <3>1, <3>2 DEF Expected
    <3>4. ASSUME NEW i \in Expected(o)' PROVE p < i
      <4>1. i \in 1..Len(accepted) /\ (i \in Waiting \/ \E a \in OnWay' : a.work = accepted[i])
        BY <1>8, <2>10 DEF Expected
      <4> QED  BY <1>3, <1>9, <4>1
    <3> QED  BY <1>2, <1>3, <2>10, <3>3, <3>4 DEF Expected
  <2>14. /\ Successes(o) \subseteq Expected(o)
         /\ s => p \in Successes(o) /\ Successes(o)' = Successes(o) \ {p}
         /\ ~s => Successes(o)' = Successes(o)
    <3>1. p \in Successes(o) <=> s
      BY <1>2, <1>3, <1>4, <2>2, <2>10, <2>12 DEF Successes
    <3>2. p \notin Successes(o)'
      BY <1>4, <1>8, <2>11 DEF Successes
    <3>3. ASSUME NEW i \in Own(o), i # p PROVE i \in Successes(o)' <=> i \in Successes(o)
      <4>1. accepted[i] # h.work
        BY <1>3, <2>10, <3>3 DEF SdkInv, Distinct
      <4> QED  BY <1>2, <1>8, <2>10, <4>1 DEF Successes
    <3>4. Successes(o)' \subseteq Own(o) /\ Successes(o) \subseteq Own(o)
      BY <2>10 DEF Successes
    <3>5. Successes(o)' = Successes(o) \ {p}
      BY <3>2, <3>3, <3>4
    <3> QED  BY <3>1, <3>5 DEF Successes, Expected
  <2>15. \A i \in Expected(o)' : c.asked[accepted[p]] < c.asked[accepted[i]] /\ c.asked[accepted[p]] # c.revision
    <3> TAKE i \in Expected(o)'
    <3>1. i \in Own(o) /\ p < i
      BY <2>13
    <3> QED  BY <2>10, <3>1
  <2>16. Numbered(o)'
    <3>1. ASSUME NEW v \in Work, d.asked[v] # 0 PROVE \E i \in 1..Len(accepted) : accepted[i] = v
      BY <2>1, <2>4, <2>9, <3>1 DEF Numbered
    <3>2. ASSUME NEW i \in Own(o)
          PROVE  /\ Req(i).kind = "write" /\ Req(i).owner = o
                 /\ d.asked[accepted[i]] <= d.revision
                 /\ \A j \in Own(o) : i < j => d.asked[accepted[i]] < d.asked[accepted[j]]
                 /\ i \in Waiting => Req(i).revision + d.revision = EntryOf(o).revision + d.asked[accepted[i]]
      BY <2>1, <2>4, <2>9 DEF Numbered
    <3>3. PluginOf[o] \in registered
      BY <2>9 DEF Numbered
    <3> QED  BY <1>8, <2>6, <2>10, <3>1, <3>2, <3>3 DEF Numbered
  <2>17. StrangersFirst(o)'
    <3>1. ASSUME NEW i \in Writes(o) \ Own(o) PROVE FALSE
      <4>1. i < p
        BY <2>9, <2>10 DEF StrangersFirst
      <4>2. i \in Waiting
        BY DEF Writes
      <4> QED  BY <1>9, <4>1, <4>2
    <3> QED  BY <1>8, <2>10, <3>1 DEF StrangersFirst
  <2>18. LatestExpected(o)'
    <3>1. ASSUME NEW i \in Expected(o)', c.asked[accepted[i]] = c.revision PROVE d.values = Req(i).document
      <4>1. c.values = Req(i).document
        BY <2>1, <2>9, <2>13, <3>1 DEF LatestExpected
      <4> QED  BY <1>4, <2>4, <2>15, <4>1
    <3>2. ASSUME Expected(o)' # {} PROVE \E i \in Expected(o)' : c.asked[accepted[i]] = c.revision
      <4>1. PICK i \in Expected(o) : c.asked[accepted[i]] = c.revision
        BY <2>1, <2>9, <2>13 DEF LatestExpected
      <4>2. i # p
        BY <2>15, <3>2, <4>1
      <4> QED  BY <2>13, <4>1, <4>2
    <3>3. ASSUME Expected(o)' = {} PROVE d.values = d.committed
      <4>1. c.asked[accepted[p]] = c.revision
        BY <2>1, <2>9, <2>13, <3>3 DEF LatestExpected
      <4>2. c.values = Req(p).document
        BY <2>1, <2>9, <2>13, <4>1 DEF LatestExpected
      <4> QED  BY <1>4, <1>5, <2>4, <4>1, <4>2
    <3> QED  BY <1>8, <2>4, <2>6, <3>1, <3>2, <3>3 DEF LatestExpected
  <2>19. CommitsFollow(o)'
    <3>1. CASE s
      <4>1. ASSUME Successes(o)' = {} PROVE d.committed = EntryOf(o).committed
        <5>1. Successes(o) = {p}
          BY <2>14, <3>1, <4>1
        <5>2. \A j \in Successes(o) : j <= p
          BY <1>9, <5>1
        <5>3. EntryOf(o).committed = Req(p).document
          BY <2>9, <5>1, <5>2 DEF CommitsFollow
        <5> QED  BY <1>5, <2>4, <3>1, <5>3
      <4>2. ASSUME NEW i \in Successes(o)', \A j \in Successes(o)' : j <= i PROVE EntryOf(o).committed = Req(i).document
        <5>1. i \in Successes(o) /\ i \in Expected(o)' /\ p < i
          BY <2>13, <2>14, <3>1
        <5>2. \A j \in Successes(o) : j <= i
          <6>1. i \in Nat /\ p \in Nat /\ p <= i
            BY <1>9, <2>10, <2>13, <5>1
          <6>2. \A j \in Successes(o) : j \in Successes(o)' \/ j = p
            BY <2>14, <3>1
          <6> QED  BY <4>2, <6>1, <6>2
        <5> QED  BY <2>9, <5>1, <5>2 DEF CommitsFollow
      <4> QED  BY <1>8, <2>6, <4>1, <4>2 DEF CommitsFollow
    <3>2. CASE ~s
      <4>1. Successes(o)' = Successes(o) /\ d.committed = c.committed /\ d.raced = c.raced
        BY <2>4, <2>14, <3>2
      <4> QED  BY <1>8, <2>1, <2>6, <2>9, <4>1 DEF CommitsFollow
    <3> QED  BY <3>1, <3>2
  <2>20. Mirrored(o)'
    BY <2>16, <2>17, <2>18, <2>19 DEF Mirrored
  <2> QED  BY <1>2, <2>7, <2>8, <2>20
<1> QED  BY <1>14, <1>15

-----------------------------------------------------------------------------
(***************************************************************************)
(* The invariant, and what a plugin reads.                                 *)
(***************************************************************************)

\* At the start no plugin holds a copy.
LEMMA SdkInitInv ==
    ASSUME SdkInit
    PROVE  SdkInv
<1>1. StoreInv /\ accepted = <<>> /\ answered = <<>>
  BY StoreInitInv DEF SdkInit, StoreInit, Init
<1>2. CopiesTypeOK
  BY DEF SdkInit, CopiesTypeOK
<1>3. OnWay = {} /\ Len(accepted) = 0 /\ Len(replies) = 0
  BY <1>1 DEF SdkInit, OnWay
<1>4. Distinct /\ RepliesOrdered
  BY <1>3 DEF Distinct, RepliesOrdered
<1>5. \A o \in Owners : Mirrored(o)
  BY DEF SdkInit, Mirrored
<1> QED  BY <1>1, <1>2, <1>4, <1>5 DEF SdkInv

\* Every step of the SDK keeps the invariant.
LEMMA SdkNextInv ==
    ASSUME SdkInv, [SdkNext]_sdkVars
    PROVE  SdkInv'
<1>1. StoreInv'
  BY SdkStepRefines, StoreNextInv DEF SdkInv
<1> SUFFICES CopiesTypeOK' /\ Distinct' /\ RepliesOrdered' /\ \A x \in Owners : Mirrored(x)'
  BY <1>1 DEF SdkInv
<1>2. CASE \E o \in Owners : Define(o)
  BY <1>2, DefineMirrors
<1>3. CASE \E w \in Work, o \in Owners, document \in Documents : Set(w, o, document)
  BY <1>3, SetMirrors
<1>4. CASE \E p \in Plugins : Forget(p)
  BY <1>4, ForgetMirrors
<1>5. CASE Complete
  BY <1>5, CompletePlaces, CompleteMirrors
<1>6. CASE Hear
  BY <1>6, HearMirrors
<1>7. CASE UNCHANGED sdkVars
  <2>1. UNCHANGED <<accepted, answered, request, entries, copies, replies, registered>>
    BY <1>7 DEF sdkVars, sdk, storeVars, store, vars
  <2> QED  BY <2>1, StillMirrors
<1>8. CASE Elsewhere
  <2>1. UNCHANGED sdk
    BY <1>8 DEF Elsewhere
  <2>2. ASSUME NEW w \in Work,
               \/ \E o \in Owners, document \in Documents : PluginOf[o] = CoreOwner /\ Write(w, o, document)
               \/ \E p \in Plugins : Erase(w, p)
        PROVE  CopiesTypeOK' /\ Distinct' /\ RepliesOrdered' /\ \A x \in Owners : Mirrored(x)'
    BY <2>1, <2>2, ElsewhereAsks
  <2>3. CASE \E p \in Plugins : Register(p)
    <3>1. UNCHANGED <<accepted, answered, request, entries, copies, replies>> /\ registered \subseteq registered'
      BY <2>1, <2>3 DEF Register, vars, sdk
    <3> QED  BY <3>1, StillMirrors
  <2>4. CASE \E outcome \in Outcomes : FinishRequest(outcome)
    <3>1. UNCHANGED <<accepted, answered, request, entries, copies, replies>> /\ registered \subseteq registered'
      BY <2>1, <2>4 DEF FinishRequest, Finish, sdk
    <3> QED  BY <3>1, StillMirrors
  <2>5. CASE Carry
    <3>1. accepted' = accepted /\ answered' = answered
      BY <2>5, Carried DEF SdkInv, StoreInv
    <3>2. UNCHANGED <<request, entries, copies, replies>> /\ registered \subseteq registered'
      BY <2>1, <2>5 DEF Carry, store, sdk
    <3> QED  BY <3>1, <3>2, StillMirrors
  <2> QED  BY <1>8, <2>2, <2>3, <2>4, <2>5 DEF Elsewhere
<1> QED  BY <1>2, <1>3, <1>4, <1>5, <1>6, <1>7, <1>8 DEF SdkNext

\* What the copies of the plugins keep with the store, however writes, answers and
\* restarts overlap.
THEOREM SdkInvariance == SdkSpec => []SdkInv
BY SdkInitInv, SdkNextInv, PTL DEF SdkSpec

\* When no answer for an owner is on its way, the plugin reads what the host would
\* answer and goes back to what the host would go back to.
LEMMA Follows == SdkInv => CopyFollows
<1> SUFFICES ASSUME SdkInv, NEW o \in Owners, copies[o] # None, ~copies[o].raced, Coming(o) = {}
             PROVE  copies[o].values = EntryOf(o).current /\ copies[o].committed = EntryOf(o).committed
  BY DEF CopyFollows
<1>1. Numbered(o) /\ StrangersFirst(o) /\ LatestExpected(o) /\ CommitsFollow(o)
  BY DEF SdkInv, Mirrored
<1>2. ASSUME NEW i \in Own(o), NEW a \in OnWay PROVE a.work # accepted[i]
  <2>1. request[accepted[i]].owner = o
    BY <1>1 DEF Numbered, Req
  <2>2. PICK k \in 1..Len(replies) : a = replies[k]
    BY DEF OnWay
  <2>3. DOMAIN replies = 1..Len(replies)
    BY DEF SdkInv, CopiesTypeOK
  <2> QED  BY <2>1, <2>2, <2>3 DEF Coming
<1>3. Successes(o) = {} /\ \A i \in Expected(o) : i \in Waiting /\ i \in Own(o)
  BY <1>2 DEF Successes, Expected
<1>4. copies[o].committed = EntryOf(o).committed
  BY <1>1, <1>3 DEF CommitsFollow
<1>5. Writes(o) = Expected(o)
  <2>1. \A i \in Writes(o) : i \in Own(o)
    BY <1>1 DEF StrangersFirst
  <2>2. \A i \in Own(o) : Req(i).kind = "write" /\ Req(i).owner = o
    BY <1>1 DEF Numbered
  <2> QED  BY <1>3, <2>1, <2>2 DEF Writes, Expected
<1>6. CASE Writes(o) = {}
  <2>1. EntryOf(o).current = EntryOf(o).committed
    BY <1>6 DEF SdkInv, StoreInv, Latest
  <2> QED  BY <1>1, <1>4, <1>5, <1>6, <2>1 DEF LatestExpected
\* The latest write of all waits: the host and the copy both show it.
<1>7. CASE Writes(o) # {}
  <2>1. PICK i \in Expected(o) : copies[o].asked[accepted[i]] = copies[o].revision
    BY <1>1, <1>5, <1>7 DEF LatestExpected
  <2>2. copies[o].values = Req(i).document
    BY <1>1, <2>1 DEF LatestExpected
  <2>3. \A j \in Writes(o) : j <= i
    <3> SUFFICES ASSUME NEW j \in Writes(o), ~(j <= i) PROVE FALSE
      OBVIOUS
    <3>1. i \in Own(o) /\ j \in Own(o) /\ i \in Nat /\ j \in Nat
      BY <1>3, <1>5, <2>1 DEF Own
    <3>2. accepted[i] \in Work /\ accepted[j] \in Work
      BY <3>1, AcceptedPlaces DEF SdkInv, Own
    <3>3. copies[o].asked[accepted[i]] < copies[o].asked[accepted[j]]
          /\ copies[o].asked[accepted[j]] <= copies[o].revision
      BY <1>1, <3>1 DEF Numbered
    <3>4. copies[o].asked \in [Work -> Nat] /\ copies[o].revision \in Nat
      BY CopyTyped DEF SdkInv
    <3>5. copies[o].asked[accepted[j]] \in Nat
      BY <3>2, <3>4
    <3> QED  BY <2>1, <3>3, <3>4, <3>5
  <2>4. EntryOf(o).current = Req(i).document
    BY <1>5, <2>1, <2>3 DEF SdkInv, StoreInv, Latest
  <2> QED  BY <1>4, <2>2, <2>4
<1> QED  BY <1>6, <1>7

\* Memory, database and the copies of the plugins agree once all is answered and heard,
\* for any number of plugins, documents and writes and however they fail.
THEOREM CopiesSettle == SdkSpec => []AllSettle
<1>1. SdkInv => SdkTypeOK
  BY DEF SdkInv, StoreInv, CopiesTypeOK, SdkTypeOK
<1> QED  BY <1>1, Follows, SdkInvariance, SdkSettles, PTL DEF AllSettle
=============================================================================
