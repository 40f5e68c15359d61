------------------------ MODULE ResourceScope_proofs ------------------------
(***************************************************************************)
(* Proofs about ResourceScope: its types, what is known of each opener at  *)
(* every moment, and that the scope implements ResourceLedger.             *)
(***************************************************************************)
EXTENDS ResourceScope, FiniteSetTheorems, TLAPS

\* What is known of an opener: where its request, its resource and its closing stand
\* while it is at each point of acquire().
Placed(o) ==
    /\ requests[o] \in {"none", "scope"}
    /\ requests[o] = "scope" => op[o] = "waiting"
    /\ native[o] = "asked" => requests[o] = "scope"
    /\ op[o] \in {"none", "admitted"} => native[o] = "none"
    /\ op[o] \in {"none", "admitted", "waiting"} => closing[o] = "none" /\ o \notin entries
    /\ native[o] = "open" => requests[o] = "scope" \/ o \in entries \/ closing[o] \in {"ended", "failed"}
    /\ o \in entries \/ closing[o] # "none" => native[o] = "open"
    /\ closing[o] = "called" => o \in entries
    /\ op[o] = "returning" => o \in entries

\* What the closing of the scope can rely on.
Reached ==
    /\ scope # "open" => \A o \in entries : closing[o] = "called" /\ (o \in awaited \/ op[o] = "returning")
    /\ scope \in {"waiting", "closed"} => \A o \in awaited : closing[o] \in {"ended", "failed"}
    /\ scope = "closed" => Pending = {}

IInv == TypeOK /\ (\A o \in Openers : Placed(o)) /\ Reached

-----------------------------------------------------------------------------
\* The initial state is of the types, and nothing is placed yet.
LEMMA InitIInv == Init => IInv
<1> SUFFICES ASSUME Init PROVE IInv
  OBVIOUS
<1>1. TypeOK
  <2>1. /\ op \in [Operations -> {"none", "done"} \cup Active]
        /\ closing \in [Openers -> {"none", "called", "ended", "failed"}]
    BY DEF Init
  <2>2. /\ requests \in [Requests -> {"none", "plugin", "scope"}]
        /\ native \in [Requests -> {"none", "asked", "open", "refused"}]
    BY DEF Init
  <2>3. failed \in BOOLEAN
    BY DEF Init
  <2>4. /\ count \in Int /\ acquired \in Int
        /\ entries \subseteq Openers /\ awaited \subseteq Openers /\ replies \subseteq Requests
        /\ \A o \in entries : closing[o] \in {"none", "called"}
    BY DEF Init
  <2>5. /\ scope \in {"open", "closing", "waiting", "closed"} /\ answer \in {"none", "closed", "failed"}
        /\ plugin \in {"running", "withdrawn"}
    BY DEF Init
  <2> QED
    BY <2>1, <2>2, <2>3, <2>4, <2>5 DEF TypeOK
<1>2. ASSUME NEW o \in Openers PROVE Placed(o)
  BY DEF Init, Placed, Operations, Requests
<1>3. Reached
  BY DEF Init, Reached
<1> QED
  BY <1>1, <1>2, <1>3 DEF IInv

\* Every step keeps the types.
LEMMA TypeStep == IInv /\ [Next]_vars => TypeOK'
<1> SUFFICES ASSUME IInv, [Next]_vars PROVE TypeOK'
  OBVIOUS
<1> TypeOK /\ \A o \in Openers : Placed(o)
  BY DEF IInv
<1> USE ScopeAssumption DEF TypeOK, Operations, Requests, Active
<1>1. ASSUME NEW o \in Operations, Admit(o) PROVE TypeOK'
  BY <1>1 DEF Admit, bridge
<1>2. ASSUME NEW o \in Operations, Begin(o) PROVE TypeOK'
  BY <1>2 DEF Begin, Request, RequestOwner
<1>3. ASSUME NEW o \in Operations, ReadEnds(o) PROVE TypeOK'
  BY <1>3 DEF ReadEnds, Finish, bridge
<1>4. ASSUME NEW o \in Calls, Call(o) PROVE TypeOK'
  BY <1>4 DEF Call, Request, RequestOwner, state
<1>5. ASSUME NEW o \in Requests, NEW outcome \in {"open", "refused"}, HostAnswers(o, outcome) PROVE TypeOK'
  BY <1>5 DEF HostAnswers, state
<1>6. ASSUME NEW o \in Requests, Reply(o) PROVE TypeOK'
  <2>1. CASE o \in Openers /\ requests[o] # "none"
    <3>1. CASE Abandon(o)
      BY <1>6, <2>1, <3>1 DEF Reply, Abandon, Finish
    <3>2. CASE Own(o)
      <4>1. op' \in [Operations -> {"none", "done"} \cup Active] /\ count' \in Int
        BY <2>1, <3>2 DEF Own, Finish
      <4>2. entries' \subseteq Openers /\ \A x \in entries' : closing'[x] \in {"none", "called"}
        BY <1>6, <2>1, <3>2 DEF Own, Placed
      <4> QED
        BY <1>6, <2>1, <3>2, <4>1, <4>2 DEF Reply, Own
    <3>3. CASE OwnLate(o)
      BY <1>6, <2>1, <3>3 DEF Reply, OwnLate
    <3> QED
      BY <1>6, <2>1, <3>1, <3>2, <3>3 DEF Reply, Opened
  <2>2. CASE ~(o \in Openers /\ requests[o] # "none")
    BY <1>6, <2>2 DEF Reply
  <2> QED
    BY <2>1, <2>2
<1>7. ASSUME NEW o \in Openers, Unanswered(o) PROVE TypeOK'
  BY <1>7 DEF Unanswered, Abandon, Finish, bridge
<1>8. ASSUME NEW o \in Openers, Release(o) PROVE TypeOK'
  BY <1>8 DEF Release, bridge
<1>9. ASSUME NEW o \in Openers, NEW outcome \in {"ended", "failed"}, CloseEnds(o, outcome) PROVE TypeOK'
  BY <1>9 DEF CloseEnds, Closed, Finish, bridge
<1>10. CASE PluginCloses
  BY <1>10 DEF PluginCloses, Close, bridge
<1>11. CASE Withdraw
  BY <1>11 DEF Withdraw, Close
<1>12. CASE AwaitReleases
  BY <1>12 DEF AwaitReleases, bridge
<1>13. CASE AwaitOperations
  BY <1>13 DEF AwaitOperations, bridge
<1>14. CASE UNCHANGED vars
  BY <1>14 DEF vars, state, bridge
<1> QED
  BY <1>1, <1>2, <1>3, <1>4, <1>5, <1>6, <1>7, <1>8, <1>9, <1>10, <1>11, <1>12, <1>13, <1>14 DEF Next

\* Every step keeps what is known of an opener.
LEMMA PlacedStep == IInv /\ [Next]_vars => \A x \in Openers : Placed(x)'
<1> SUFFICES ASSUME IInv, [Next]_vars, NEW x \in Openers PROVE Placed(x)'
  OBVIOUS
<1> TypeOK /\ Placed(x) /\ Reached
  BY DEF IInv
<1> USE ScopeAssumption DEF TypeOK, Operations, Requests, Active
<1>1. ASSUME NEW o \in Operations, Admit(o) PROVE Placed(x)'
  BY <1>1 DEF Admit, bridge, Placed
<1>2. ASSUME NEW o \in Operations, Begin(o) PROVE Placed(x)'
  BY <1>2 DEF Begin, Request, RequestOwner, Placed
<1>3. ASSUME NEW o \in Operations, ReadEnds(o) PROVE Placed(x)'
  BY <1>3 DEF ReadEnds, Finish, bridge, Placed
<1>4. ASSUME NEW o \in Calls, Call(o) PROVE Placed(x)'
  BY <1>4 DEF Call, Request, RequestOwner, state, Placed
<1>5. ASSUME NEW o \in Requests, NEW outcome \in {"open", "refused"}, HostAnswers(o, outcome) PROVE Placed(x)'
  BY <1>5 DEF HostAnswers, state, Placed
<1>6. ASSUME NEW o \in Requests, Reply(o) PROVE Placed(x)'
  <2>1. CASE o \in Openers /\ requests[o] # "none"
    <3>1. CASE native[o] = "refused" /\ Abandon(o)
      BY <1>6, <2>1, <3>1 DEF Reply, Abandon, Finish, Placed
    <3>2. CASE native[o] = "open" /\ Own(o)
      BY <1>6, <2>1, <3>2 DEF Reply, Own, Finish, Placed
    <3>3. CASE native[o] = "open" /\ OwnLate(o)
      BY <1>6, <2>1, <3>3 DEF Reply, OwnLate, Placed
    <3> QED
      BY <1>6, <2>1, <3>1, <3>2, <3>3 DEF Reply, Opened
  <2>2. CASE ~(o \in Openers /\ requests[o] # "none")
    BY <1>6, <2>2 DEF Reply, Placed
  <2> QED
    BY <2>1, <2>2
<1>7. ASSUME NEW o \in Openers, Unanswered(o) PROVE Placed(x)'
  BY <1>7 DEF Unanswered, Abandon, Finish, bridge, Placed
<1>8. ASSUME NEW o \in Openers, Release(o) PROVE Placed(x)'
  BY <1>8 DEF Release, bridge, Placed
<1>9. ASSUME NEW o \in Openers, NEW outcome \in {"ended", "failed"}, CloseEnds(o, outcome) PROVE Placed(x)'
  BY <1>9 DEF CloseEnds, Closed, Finish, bridge, Placed
<1>10. CASE PluginCloses
  BY <1>10 DEF PluginCloses, Close, bridge, Placed
<1>11. CASE Withdraw
  BY <1>11 DEF Withdraw, Close, Placed
<1>12. CASE AwaitReleases
  BY <1>12 DEF AwaitReleases, bridge, Placed
<1>13. CASE AwaitOperations
  BY <1>13 DEF AwaitOperations, bridge, Placed
<1>14. CASE UNCHANGED vars
  BY <1>14 DEF vars, state, bridge, Placed
<1> QED
  BY <1>1, <1>2, <1>3, <1>4, <1>5, <1>6, <1>7, <1>8, <1>9, <1>10, <1>11, <1>12, <1>13, <1>14 DEF Next

\* Every step keeps what the closing relies on.
LEMMA ReachedStep == IInv /\ [Next]_vars => Reached'
<1> SUFFICES ASSUME IInv, [Next]_vars PROVE Reached'
  OBVIOUS
<1> TypeOK /\ (\A o \in Openers : Placed(o)) /\ Reached
  BY DEF IInv
<1> USE ScopeAssumption DEF TypeOK, Operations, Requests, Active, Pending
<1>1. ASSUME NEW o \in Operations, Admit(o) PROVE Reached'
  BY <1>1 DEF Admit, Reached
<1>2. ASSUME NEW o \in Operations, Begin(o) PROVE Reached'
  BY <1>2 DEF Begin, Reached, Placed
<1>3. ASSUME NEW o \in Operations, ReadEnds(o) PROVE Reached'
  BY <1>3 DEF ReadEnds, Finish, Reached
<1>4. ASSUME NEW o \in Calls, Call(o) PROVE Reached'
  BY <1>4 DEF Call, state, Reached
<1>5. ASSUME NEW o \in Requests, NEW outcome \in {"open", "refused"}, HostAnswers(o, outcome) PROVE Reached'
  BY <1>5 DEF HostAnswers, state, Reached
<1>6. ASSUME NEW o \in Requests, Reply(o) PROVE Reached'
  <2>1. CASE o \in Openers /\ requests[o] # "none"
    <3>1. CASE Abandon(o)
      BY <1>6, <2>1, <3>1 DEF Reply, Abandon, Finish, Reached, Placed
    <3>2. CASE scope = "open" /\ Own(o)
      BY <1>6, <2>1, <3>2 DEF Reply, Own, Finish, Reached
    <3>3. CASE OwnLate(o)
      BY <1>6, <2>1, <3>3 DEF Reply, OwnLate, Reached, Placed
    <3> QED
      BY <1>6, <2>1, <3>1, <3>2, <3>3 DEF Reply, Opened
  <2>2. CASE ~(o \in Openers /\ requests[o] # "none")
    BY <1>6, <2>2 DEF Reply, Reached
  <2> QED
    BY <2>1, <2>2
<1>7. ASSUME NEW o \in Openers, Unanswered(o) PROVE Reached'
  BY <1>7 DEF Unanswered, Abandon, Finish, Reached, Placed
<1>8. ASSUME NEW o \in Openers, Release(o) PROVE Reached'
  BY <1>8 DEF Release, Reached
<1>9. ASSUME NEW o \in Openers, NEW outcome \in {"ended", "failed"}, CloseEnds(o, outcome) PROVE Reached'
  BY <1>9 DEF CloseEnds, Closed, Finish, Reached, Placed
<1>10. CASE PluginCloses
  BY <1>10 DEF PluginCloses, Close, Reached
<1>11. CASE Withdraw
  BY <1>11 DEF Withdraw, Close, Reached
<1>12. CASE AwaitReleases
  BY <1>12 DEF AwaitReleases, Released, Reached
<1>13. CASE AwaitOperations
  BY <1>13 DEF AwaitOperations, Emptied, Reached
<1>14. CASE UNCHANGED vars
  BY <1>14 DEF vars, state, Reached
<1> QED
  BY <1>1, <1>2, <1>3, <1>4, <1>5, <1>6, <1>7, <1>8, <1>9, <1>10, <1>11, <1>12, <1>13, <1>14 DEF Next

\* The invariant holds throughout.
LEMMA Inductive == Spec => []IInv
<1>1. IInv /\ [Next]_vars => IInv'
  BY TypeStep, PlacedStep, ReachedStep DEF IInv
<1> QED
  BY InitIInv, <1>1, PTL DEF Spec

\* The scope is always of its types, whatever its operations and its limit.
THEOREM TypeCorrect == Spec => []TypeOK
  BY Inductive, PTL DEF IInv

-----------------------------------------------------------------------------
\* Every step of the scope is a step of the ledger or leaves the ledger alone.
LEMMA StepRefines == IInv /\ [Next]_vars => [Ledger!Next]_(Ledger!vars)
<1> SUFFICES ASSUME IInv, [Next]_vars PROVE [Ledger!Next]_(Ledger!vars)
  OBVIOUS
<1> TypeOK /\ (\A o \in Openers : Placed(o)) /\ Reached
  BY DEF IInv
<1> USE ScopeAssumption DEF TypeOK, Operations, Requests, Active, Pending
<1> USE DEF Ledger!Next, Ledger!vars, Ledger!Take, Ledger!Give, Ledger!Return, Ledger!End
<1>1. ASSUME NEW o \in Operations, Admit(o) PROVE UNCHANGED Ledger!vars
  BY <1>1 DEF Admit, bridge
<1>2. ASSUME NEW o \in Operations, Begin(o) PROVE UNCHANGED Ledger!vars
  BY <1>2 DEF Begin, Request, Placed
<1>3. ASSUME NEW o \in Operations, ReadEnds(o) PROVE UNCHANGED Ledger!vars
  BY <1>3 DEF ReadEnds, bridge
<1>4. ASSUME NEW o \in Calls, Call(o) PROVE UNCHANGED Ledger!vars
  BY <1>4 DEF Call, Request, state
<1>5. ASSUME NEW o \in Requests, NEW outcome \in {"open", "refused"}, HostAnswers(o, outcome) PROVE [Ledger!Next]_(Ledger!vars)
  <2>1. CASE o \in Openers /\ outcome = "open"
    <3>1. op[o] = "waiting"
      BY <1>5, <2>1 DEF HostAnswers, Placed
    <3>2. scope # "closed"
      BY <2>1, <3>1 DEF Reached
    <3>3. Ledger!Take(o)
      BY <1>5, <2>1, <3>2 DEF HostAnswers, state
    <3> QED
      BY <2>1, <3>3
  <2>2. CASE ~(o \in Openers /\ outcome = "open")
    BY <1>5, <2>2 DEF HostAnswers, state
  <2> QED
    BY <2>1, <2>2
<1>6. ASSUME NEW o \in Requests, Reply(o) PROVE [Ledger!Next]_(Ledger!vars)
  <2>1. CASE o \in Openers /\ requests[o] # "none" /\ native[o] = "open" /\ OwnLate(o)
    <3>1. Ledger!Give({o})
      BY <1>6, <2>1 DEF Reply, OwnLate, Placed
    <3> QED
      BY <2>1, <3>1
  <2>2. CASE UNCHANGED closing
    BY <1>6, <2>2 DEF Reply
  <2> QED
    BY <1>6, <2>1, <2>2 DEF Reply, Opened, Abandon, Own
<1>7. ASSUME NEW o \in Openers, Unanswered(o) PROVE UNCHANGED Ledger!vars
  BY <1>7 DEF Unanswered, Abandon, bridge
<1>8. ASSUME NEW o \in Openers, Release(o) PROVE Ledger!Next
  <2>1. Ledger!Give({o})
    BY <1>8 DEF Release, bridge, Placed
  <2> QED
    BY <2>1
<1>9. ASSUME NEW o \in Openers, NEW outcome \in {"ended", "failed"}, CloseEnds(o, outcome) PROVE Ledger!Next
  <2>1. Ledger!Return(o)
    BY <1>9 DEF CloseEnds, bridge
  <2> QED
    BY <2>1
<1>10. ASSUME Close, UNCHANGED native PROVE [Ledger!Next]_(Ledger!vars)
  <2> DEFINE some == {o \in Openers : closing[o] # closing'[o]}
  <2>1. some \subseteq {o \in entries : closing[o] = "none" /\ closing'[o] = "called"}
    BY <1>10 DEF Close
  <2>2. CASE some = {}
    <3>1. closing' = closing
      BY <1>10, <2>2 DEF Close
    <3> QED
      BY <1>10, <3>1 DEF Close
  <2>3. CASE some # {}
    <3>1. some \subseteq {o \in Openers : native[o] = "open"} \ {o \in Openers : closing[o] # "none"}
      BY <2>1 DEF Placed
    <3>2. {o \in Openers : closing'[o] # "none"} = {o \in Openers : closing[o] # "none"} \cup some
      BY <2>1
    <3>3. {o \in Openers : closing'[o] \in {"ended", "failed"}} = {o \in Openers : closing[o] \in {"ended", "failed"}}
      BY <2>1
    <3>4. (scope' = "closed") = (scope = "closed")
      BY <1>10 DEF Close
    <3>5. Ledger!Give(some)
      BY <1>10, <2>3, <3>1, <3>2, <3>3, <3>4
    <3> QED
      BY <3>5
  <2> QED
    BY <2>2, <2>3
<1>11. CASE PluginCloses \/ Withdraw
  BY <1>10, <1>11 DEF PluginCloses, Withdraw, bridge
<1>12. CASE AwaitReleases
  BY <1>12 DEF AwaitReleases, bridge
<1>13. CASE AwaitOperations
  <2>1. ASSUME NEW o \in Openers, native[o] = "open" PROVE closing[o] \in {"ended", "failed"}
    <3>1. op[o] \notin Active
      BY <1>13 DEF AwaitOperations, Emptied
    <3>2. requests[o] # "scope" /\ op[o] # "returning"
      BY <3>1 DEF Placed
    <3>3. o \notin entries
      BY <1>13, <3>2 DEF AwaitOperations, Reached
    <3> QED
      BY <2>1, <3>2, <3>3 DEF Placed
  <2>2. ASSUME NEW o \in Openers, closing[o] \in {"ended", "failed"} PROVE native[o] = "open"
    BY <2>2 DEF Placed
  <2>3. Ledger!End
    BY <1>13, <2>1, <2>2 DEF AwaitOperations, bridge
  <2> QED
    BY <2>3
<1>14. CASE UNCHANGED vars
  BY <1>14 DEF vars, state, bridge
<1> QED
  BY <1>1, <1>2, <1>3, <1>4, <1>5, <1>6, <1>7, <1>8, <1>9, <1>11, <1>12, <1>13, <1>14 DEF Next

\* The scope implements the ledger, for any operations and any limit: whatever the
\* host opens for it is closed exactly once, and its closing is answered only when
\* all of it came back.
THEOREM ScopeImplementsLedger == Spec => Implements
<1>1. Init => Ledger!Init
  BY DEF Init, Ledger!Init, Requests
<1> QED
  BY <1>1, StepRefines, Inductive, PTL DEF Spec, Implements, Ledger!Spec

-----------------------------------------------------------------------------
\* What close() answers goes with the closings that failed.
Told ==
    /\ failed <=> \E o \in Openers : closing[o] = "failed"
    /\ scope = "closed" => (answer = "failed" <=> failed)

\* Every step keeps that: once the scope is closed no closing is under way.
LEMMA ToldStep == IInv /\ Told /\ [Next]_vars => Told'
<1> SUFFICES ASSUME IInv, Told, [Next]_vars PROVE Told'
  OBVIOUS
<1> TypeOK /\ (\A o \in Openers : Placed(o)) /\ Reached
  BY DEF IInv
<1> USE DEF TypeOK
<1>1. CASE UNCHANGED <<failed, closing, scope, answer>>
  BY <1>1 DEF Told
<1>2. ASSUME NEW o \in Requests, Reply(o) PROVE Told'
  <2>1. CASE o \in Openers /\ requests[o] # "none" /\ OwnLate(o)
    BY <1>2, <2>1 DEF Reply, OwnLate, Told, Placed
  <2>2. CASE UNCHANGED closing
    BY <1>2, <2>2 DEF Reply, Told
  <2> QED
    BY <1>2, <2>1, <2>2 DEF Reply, Opened, Abandon, Own
<1>3. ASSUME NEW o \in Openers, Release(o) PROVE Told'
  BY <1>3 DEF Release, Told
<1>4. ASSUME NEW o \in Openers, NEW outcome \in {"ended", "failed"}, CloseEnds(o, outcome) PROVE Told'
  <2>1. o \in entries
    BY <1>4 DEF CloseEnds, Placed
  <2>2. scope # "closed"
    BY <2>1 DEF Reached, Pending, Active, Operations
  <2> QED
    BY <1>4, <2>2 DEF CloseEnds, Told
<1>5. ASSUME Close PROVE Told'
  BY <1>5 DEF Close, Told
<1>6. CASE AwaitReleases
  BY <1>6 DEF AwaitReleases, Told
<1>7. CASE AwaitOperations
  BY <1>7 DEF AwaitOperations, Problem, Told
<1> QED
  BY <1>1, <1>2, <1>3, <1>4, <1>5, <1>6, <1>7
  DEF Next, vars, state, bridge, Admit, Begin, ReadEnds, Call, HostAnswers, Unanswered, Abandon, PluginCloses, Withdraw

\* Closing is answered with a failure exactly when some closing of the scope failed.
THEOREM FailuresAreAnswered == Spec => []FailureAnswered
<1>1. Init => Told
  BY DEF Init, Told
<1>2. IInv /\ Told => FailureAnswered
  BY DEF Told, FailureAnswered
<1> QED
  BY <1>1, <1>2, ToldStep, Inductive, PTL DEF Spec

-----------------------------------------------------------------------------
\* The resources that take a place of the scope.
Places == Opening \cup entries

\* The sets that are counted are finite.
LEMMA CountedFinite ==
    ASSUME TypeOK
    PROVE  IsFiniteSet(Pending) /\ IsFiniteSet(Places) /\ Cardinality(Pending) \in Nat /\ Cardinality(Places) \in Nat
<1>1. IsFiniteSet(Operations)
  BY ScopeAssumption, FS_Union DEF Operations
<1>2. Pending \subseteq Operations /\ Places \subseteq Operations
  BY DEF Pending, Places, Opening, TypeOK, Operations
<1> QED
  BY <1>1, <1>2, FS_Subset, FS_CardinalityType

\* A step changes what is pending and what takes a place by one element, and the
\* counters by one.
LEMMA CountedStep == IInv /\ Counted /\ [Next]_vars => Counted'
<1> SUFFICES ASSUME IInv, Counted, [Next]_vars PROVE Counted'
  OBVIOUS
<1> TypeOK /\ TypeOK' /\ (\A o \in Openers : Placed(o)) /\ Reached
  BY TypeStep DEF IInv
<1>a. Limit \in Nat
  BY ScopeAssumption
<1>b. /\ IsFiniteSet(Pending) /\ IsFiniteSet(Places)
      /\ Cardinality(Pending) \in Nat /\ Cardinality(Places) \in Nat
      /\ count = Cardinality(Pending) /\ acquired = Cardinality(Places) /\ count <= Limit /\ acquired <= Limit
  BY CountedFinite DEF Counted, Places
<1>c. \A o : o \notin Pending => Cardinality(Pending \cup {o}) = count + 1
  BY <1>b, FS_AddElement
<1>d. \A o : o \notin Places => Cardinality(Places \cup {o}) = acquired + 1
  BY <1>b, FS_AddElement
<1>e. \A o \in Pending : Cardinality(Pending \ {o}) = count - 1
  BY <1>b, FS_RemoveElement
<1>f. \A o \in Places : Cardinality(Places \ {o}) = acquired - 1
  BY <1>b, FS_RemoveElement
<1>g. ASSUME count' = Cardinality(Pending') /\ count' <= Limit, acquired' = Cardinality(Places') /\ acquired' <= Limit
      PROVE Counted'
  BY <1>g DEF Counted, Places
<1> USE ScopeAssumption DEF TypeOK, Operations, Requests, Active, Pending, Places, Opening
<1>0. ASSUME UNCHANGED <<op, entries, count, acquired>> PROVE Counted'
  BY <1>0 DEF Counted
<1>1. ASSUME NEW o \in Operations, Admit(o) PROVE Counted'
  <2>1. o \notin Pending /\ Pending' = Pending \cup {o}
    BY <1>1 DEF Admit
  <2>2. CASE o \in Openers
    <3>1. o \notin Places /\ Places' = Places \cup {o}
      BY <1>1, <2>2 DEF Admit, Placed
    <3> HIDE DEF TypeOK, Operations, Requests, Active, Pending, Places, Opening
    <3> QED
      BY <1>1, <1>a, <1>b, <1>c, <1>d, <1>g, <2>1, <2>2, <3>1 DEF Admit
  <2>3. CASE o \notin Openers
    <3>1. Places' = Places
      BY <1>1, <2>3 DEF Admit
    <3> HIDE DEF TypeOK, Operations, Requests, Active, Pending, Places, Opening
    <3> QED
      BY <1>1, <1>a, <1>b, <1>c, <1>g, <2>1, <2>3, <3>1 DEF Admit
  <2> QED
    BY <2>2, <2>3
<1>2. ASSUME NEW o \in Operations, Begin(o) PROVE Counted'
  <2>1. Pending' = Pending /\ Opening' = Opening /\ UNCHANGED <<entries, count, acquired>>
    BY <1>2 DEF Begin
  <2> QED
    BY <2>1 DEF Counted
<1>3. ASSUME NEW o \in Operations, ReadEnds(o) PROVE Counted'
  <2>1. o \in Pending /\ Pending' = Pending \ {o} /\ Places' = Places
    BY <1>3 DEF ReadEnds, Finish
  <2> HIDE DEF TypeOK, Operations, Requests, Active, Pending, Places, Opening
  <2> QED
    BY <1>3, <1>a, <1>b, <1>e, <1>g, <2>1 DEF ReadEnds, Finish
<1>4. ASSUME NEW o \in Openers, op[o] = "waiting", Abandon(o) PROVE Counted'
  <2>1. o \in Pending /\ Pending' = Pending \ {o}
    BY <1>4 DEF Abandon, Finish
  <2>2. o \in Places /\ Places' = Places \ {o}
    BY <1>4 DEF Abandon, Finish, Placed
  <2> HIDE DEF TypeOK, Operations, Requests, Active, Pending, Places, Opening
  <2> QED
    BY <1>4, <1>a, <1>b, <1>e, <1>f, <1>g, <2>1, <2>2 DEF Abandon, Finish
<1>5. ASSUME NEW o \in Requests, Reply(o) PROVE Counted'
  <2>1. CASE o \in Openers /\ requests[o] # "none"
    <3>0. op[o] = "waiting"
      BY <2>1 DEF Placed
    <3>1. CASE Abandon(o)
      BY <1>4, <2>1, <3>0, <3>1
    <3>2. CASE Own(o)
      <4>1. o \in Pending /\ Pending' = Pending \ {o} /\ Places' = Places
        BY <2>1, <3>0, <3>2 DEF Own, Finish
      <4> HIDE DEF TypeOK, Operations, Requests, Active, Pending, Places, Opening
      <4> QED
        BY <3>2, <1>a, <1>b, <1>e, <1>g, <4>1 DEF Own, Finish
    <3>3. CASE OwnLate(o)
      <4>1. Pending' = Pending /\ Places' = Places /\ UNCHANGED <<count, acquired>>
        BY <2>1, <3>0, <3>3 DEF OwnLate
      <4> HIDE DEF TypeOK, Operations, Requests, Active, Pending, Places, Opening
      <4> QED
        BY <1>b, <1>g, <4>1
    <3> QED
      BY <1>5, <2>1, <3>1, <3>2, <3>3 DEF Reply, Opened
  <2>2. CASE ~(o \in Openers /\ requests[o] # "none")
    BY <1>0, <1>5, <2>2 DEF Reply
  <2> QED
    BY <2>1, <2>2
<1>6. ASSUME NEW o \in Openers, NEW outcome \in {"ended", "failed"}, CloseEnds(o, outcome) PROVE Counted'
  <2>1. o \in entries /\ op[o] \notin {"admitted", "waiting"}
    BY <1>6 DEF CloseEnds, Placed
  <2>2. o \in Places /\ Places' = Places \ {o}
    BY <1>6, <2>1 DEF CloseEnds, Closed, Finish
  <2>3. CASE op[o] = "returning"
    <3>1. o \in Pending /\ Pending' = Pending \ {o}
      BY <1>6, <2>3 DEF CloseEnds, Finish
    <3> HIDE DEF TypeOK, Operations, Requests, Active, Pending, Places, Opening
    <3> QED
      BY <1>6, <1>a, <1>b, <1>e, <1>f, <1>g, <2>2, <2>3, <3>1 DEF CloseEnds, Finish
  <2>4. CASE op[o] # "returning"
    <3>1. Pending' = Pending
      BY <1>6, <2>4 DEF CloseEnds
    <3> HIDE DEF TypeOK, Operations, Requests, Active, Pending, Places, Opening
    <3> QED
      BY <1>6, <1>a, <1>b, <1>f, <1>g, <2>2, <2>4, <3>1 DEF CloseEnds
  <2> QED
    BY <2>3, <2>4
<1>7. ASSUME NEW o \in Openers, Unanswered(o) PROVE Counted'
  BY <1>4, <1>7 DEF Unanswered
<1> QED
  BY <1>0, <1>1, <1>2, <1>3, <1>5, <1>6, <1>7
  DEF Next, vars, state, Call, HostAnswers, Release, PluginCloses, Withdraw, Close, AwaitReleases, AwaitOperations

\* The scope never exceeds its limit and never loses a place, whatever the limit and
\* however its openings and closings end.
THEOREM CountsAreExact == Spec => []Counted
<1>1. Init => Counted
  <2> SUFFICES ASSUME Init PROVE Counted
    OBVIOUS
  <2>1. Pending = {} /\ Opening \cup entries = {}
    BY DEF Init, Pending, Opening, Active, Operations
  <2> QED
    BY <2>1, FS_EmptySet, ScopeAssumption DEF Init, Counted
<1> QED
  BY <1>1, CountedStep, Inductive, PTL DEF Spec
=============================================================================
