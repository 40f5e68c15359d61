------------------------- MODULE FrameLoop_proofs --------------------------
(***************************************************************************)
(* Proofs about FrameLoop:  it never sleeps over what the reader has not   *)
(* seen or over work nobody will wake it for, it draws until the window    *)
(* settled, and it leaves the place of the window written, for any number  *)
(* of threads and places.                                                  *)
(***************************************************************************)
EXTENDS FrameLoop, FiniteSetTheorems, TLAPS

\* What no frame has shown is marked changed, or frames are still to come.
Marked == unseen => dirty \/ sched.settle > 0

\* Input in the queue of ImGui has frames to come, or the turn that saw it has.
Fed == typed > 0 => sched.settle > 0 \/ ~sched.shown \/ (pc = "serve" /\ input)

\* A task that is queued has its wake to come, posted, or taken by this turn.
Woken == pc # "serve" => queue \subseteq posting \/ wake

\* The frames drawn and those to come are those a change needs.
Framed == sched.shown => since + sched.settle >= SettleFrames

\* What the loop looked at when it chose to sleep is as it was, unless an event
\* or a wake ends the sleep.
Slept ==
  pc = "sleep" /\ wait # "none" =>
    /\ window.shown /\ window.events = {} =>
          ~unseen /\ typed = 0 /\ ~sched.animating /\ since = SettleFrames
    /\ lua => posting # {} \/ wake

\* A place that is not written has its wait.
Timed == geometry.written = geometry.disk /\ (clock.place = "off" => geometry.seen = geometry.written)

IInv == TypeOK /\ Marked /\ Fed /\ Woken /\ Framed /\ Slept /\ Timed /\ PlaceKept

-----------------------------------------------------------------------------
(***************************************************************************)
(* Types.                                                                  *)
(***************************************************************************)

\* What a call costs is its effects.
LEMMA CostOfOne ==
    ASSUME NEW e
    PROVE  Costs(<<e>>) = IF e = "nothing" THEN 0 ELSE 1
<1> DEFINE s == {i \in DOMAIN <<e>> : <<e>>[i] # "nothing"}
<1>1. s = IF e = "nothing" THEN {} ELSE {1}
  OBVIOUS
<1>2. Cardinality({}) = 0 /\ Cardinality({1}) = 1
  BY FS_EmptySet, FS_Singleton
<1> QED  BY <1>1, <1>2 DEF Costs

LEMMA CostOfThree ==
    ASSUME NEW e, NEW f, NEW g
    PROVE  Costs(<<e, f, g>>) \in Nat
<1> DEFINE s == {i \in DOMAIN <<e, f, g>> : <<e, f, g>>[i] # "nothing"}
<1>1. s \subseteq 1..3
  OBVIOUS
<1>2. IsFiniteSet(s)
  BY <1>1, FS_Interval, FS_Subset
<1> QED  BY <1>2, FS_CardinalityType DEF Costs

LEMMA InitInv == Init => IInv
<1> SUFFICES ASSUME Init PROVE IInv
  OBVIOUS
<1>1. TypeOK
  <2>1. pc \in {"turn", "sleep", "serve", "draw", "stopped"} /\ wait \in {"none", "some", "forever"}
    BY FrameAssumption DEF Init, SettleFrames
  <2>2. window \in [shown : BOOLEAN, place : Places, events : SUBSET {"input", "close", "other"}]
    BY FrameAssumption DEF Init, SettleFrames
  <2>3. {opened, wake, lua, dirty, input, hidden, unseen} \subseteq BOOLEAN
    BY FrameAssumption DEF Init, SettleFrames
  <2>4. queue \subseteq Workers \cup {Own} /\ posting \subseteq Workers
    BY FrameAssumption DEF Init, SettleFrames
  <2>5. clock \in [{"lua", "frame", "place"} -> {"off", "ahead", "past"}]
    BY FrameAssumption DEF Init, SettleFrames
  <2>6. sched \in [settle : 0 .. SettleFrames, animating : BOOLEAN, shown : BOOLEAN]
    BY FrameAssumption DEF Init, SettleFrames
  <2>7. typed \in 0 .. MaxTyped /\ since \in 0 .. SettleFrames
    BY FrameAssumption DEF Init, SettleFrames
  <2>8. budget \in 0 .. MaxBudget
    BY FrameAssumption DEF Init, SettleFrames
  <2>9. geometry \in [seen : Places, written : Places, disk : Places]
    BY FrameAssumption DEF Init, SettleFrames
  <2>10. dialog \in {"none", "open", "answered"} /\ quit \in {"no", "asked", "yes"}
    BY FrameAssumption DEF Init, SettleFrames
  <2> QED  BY <2>1, <2>2, <2>3, <2>4, <2>5, <2>6, <2>7, <2>8, <2>9, <2>10 DEF TypeOK
<1> QED
  BY <1>1 DEF Init, IInv, Marked, Fed, Woken, Framed, Slept, Timed, PlaceKept, SettleFrames

LEMMA TypeStep == TypeOK /\ [Next]_vars => TypeOK'
<1> SUFFICES ASSUME TypeOK, [Next]_vars PROVE TypeOK'
  OBVIOUS
<1> USE FrameAssumption DEF TypeOK
<1>1. CASE Happens
  BY <1>1 DEF Happens, Spend
<1>2. CASE Moves
  BY <1>2 DEF Moves, Spend
<1>3. ASSUME NEW w \in Workers, Push(w) PROVE TypeOK'
  <2>1. posting' \subseteq Workers /\ queue' \subseteq Workers \cup {Own}
    BY <1>3 DEF Push
  <2>2. budget' \in 0 .. MaxBudget
    BY <1>3 DEF Push, Spend
  <2>3. lua' \in BOOLEAN
    BY <1>3 DEF Push
  <2> QED  BY <1>3, <2>1, <2>2, <2>3 DEF Push
<1>4. ASSUME NEW w \in Workers, Wake(w) PROVE TypeOK'
  <2>1. posting' \subseteq Workers /\ wake' \in BOOLEAN
    BY <1>4 DEF Wake
  <2> QED  BY <1>4, <2>1 DEF Wake
<1>5. CASE Answer
  BY <1>5 DEF Answer, outside
<1>6. CASE Elapse
  BY <1>6 DEF Elapse, outside
<1>7. CASE Turn
  BY <1>7, CostOfOne DEF Turn, Polls, LuaClock, WaitTime, outside
<1>8. CASE Sleep
  <2>1. pc' \in {"turn", "sleep", "serve", "draw", "stopped"} /\ wait' \in {"none", "some", "forever"}
    BY <1>8 DEF Sleep, Close
  <2>2. window' \in [shown : BOOLEAN, place : Places, events : SUBSET {"input", "close", "other"}]
    BY <1>8 DEF Sleep, Close
  <2>3. {opened', wake', lua', dirty', input', hidden', unseen'} \subseteq BOOLEAN
    <3>1. input' \in BOOLEAN
      BY <1>8 DEF Sleep
    <3>2. UNCHANGED <<opened, lua, hidden>> /\ wake' \in BOOLEAN
      BY <1>8 DEF Sleep, Close
    <3>3. dirty' \in BOOLEAN /\ unseen' \in BOOLEAN
      BY <1>8 DEF Sleep, Close
    <3> QED  BY <3>1, <3>2, <3>3
  <2>4. queue' \subseteq Workers \cup {Own} /\ posting' \subseteq Workers
    BY <1>8 DEF Sleep, Close
  <2>5. clock' \in [{"lua", "frame", "place"} -> {"off", "ahead", "past"}]
    BY <1>8 DEF Sleep, Close
  <2>6. sched' \in [settle : 0 .. SettleFrames, animating : BOOLEAN, shown : BOOLEAN]
    BY <1>8 DEF Sleep, Close
  <2>7. typed' \in 0 .. MaxTyped /\ since' \in 0 .. SettleFrames
    BY <1>8 DEF Sleep, Close
  <2>8. budget' \in 0 .. MaxBudget
    BY <1>8 DEF Sleep, Close
  <2>9. geometry' \in [seen : Places, written : Places, disk : Places]
    BY <1>8 DEF Sleep, Close
  <2>10. dialog' \in {"none", "open", "answered"} /\ quit' \in {"no", "asked", "yes"}
    BY <1>8 DEF Sleep, Close
  <2> QED  BY <2>1, <2>2, <2>3, <2>4, <2>5, <2>6, <2>7, <2>8, <2>9, <2>10
<1>9. CASE Serve
  <2>1. pc' \in {"turn", "sleep", "serve", "draw", "stopped"} /\ wait' \in {"none", "some", "forever"}
    BY <1>9, CostOfThree DEF Serve, Polls, LuaClock, Observed, Written, SettleFrames
  <2>2. window' \in [shown : BOOLEAN, place : Places, events : SUBSET {"input", "close", "other"}]
    BY <1>9, CostOfThree DEF Serve, Polls, LuaClock, Observed, Written, SettleFrames
  <2>3. {opened', wake', lua', dirty', input', hidden', unseen'} \subseteq BOOLEAN
    <3>1. input' = FALSE /\ UNCHANGED opened
      BY <1>9 DEF Serve
    <3>2. lua' \in BOOLEAN /\ hidden' \in BOOLEAN
      BY <1>9 DEF Serve
    <3>3. wake' \in BOOLEAN
      BY <1>9 DEF Serve
    <3>4. dirty' \in BOOLEAN /\ unseen' \in BOOLEAN
      BY <1>9 DEF Serve
    <3> QED  BY <3>1, <3>2, <3>3, <3>4
  <2>4. queue' \subseteq Workers \cup {Own} /\ posting' \subseteq Workers
    BY <1>9, CostOfThree DEF Serve, Polls, LuaClock, Observed, Written, SettleFrames
  <2>5. clock' \in [{"lua", "frame", "place"} -> {"off", "ahead", "past"}]
    <3>1. \A e : LuaClock(e) \in {"off", "ahead", "past"}
      BY DEF LuaClock
    <3>2. Observed(window.shown /\ opened).timer \in {"off", "ahead", "past"}
      BY DEF Observed
    <3> DEFINE h == IF Observed(window.shown /\ opened).timer = "past" THEN "off"
                    ELSE Observed(window.shown /\ opened).timer
    <3>3. PICK e : clock' = [clock EXCEPT !.lua = LuaClock(e), !.place = h]
      BY ZenonT(30), <1>9 DEF Serve
    <3>4. h \in {"off", "ahead", "past"}
      BY <3>2
    <3> HIDE DEF h
    <3> QED  BY <3>1, <3>3, <3>4
  <2>6. sched' \in [settle : 0 .. SettleFrames, animating : BOOLEAN, shown : BOOLEAN]
    <3>1. PICK n \in {sched.settle, SettleFrames} : sched' = [sched EXCEPT !.settle = n, !.shown = window.shown]
      BY <1>9 DEF Serve
    <3>2. n \in 0 .. SettleFrames
      BY <3>1 DEF SettleFrames
    <3> QED  BY <3>1, <3>2
  <2>7. typed' \in 0 .. MaxTyped /\ since' \in 0 .. SettleFrames
    BY <1>9, CostOfThree DEF Serve, Polls, LuaClock, Observed, Written, SettleFrames
  <2>8. budget' \in 0 .. MaxBudget
    BY <1>9, CostOfThree DEF Serve, Polls, LuaClock, Observed, Written, SettleFrames
  <2>9. geometry' \in [seen : Places, written : Places, disk : Places]
    BY <1>9, CostOfThree DEF Serve, Polls, LuaClock, Observed, Written, SettleFrames
  <2>10. dialog' \in {"none", "open", "answered"} /\ quit' \in {"no", "asked", "yes"}
    BY <1>9, CostOfThree DEF Serve, Polls, LuaClock, Observed, Written, SettleFrames
  <2> QED  BY <2>1, <2>2, <2>3, <2>4, <2>5, <2>6, <2>7, <2>8, <2>9, <2>10
<1>10. CASE Draw
  <2>1. pc' \in {"turn", "sleep", "serve", "draw", "stopped"} /\ wait' \in {"none", "some", "forever"}
    BY <1>10, CostOfOne DEF Draw, Drew, Deadline, outside, SettleFrames, Smaller, Larger
  <2>2. window' \in [shown : BOOLEAN, place : Places, events : SUBSET {"input", "close", "other"}]
    BY <1>10, CostOfOne DEF Draw, Drew, Deadline, outside, SettleFrames, Smaller, Larger
  <2>3. {opened', wake', lua', dirty', input', hidden', unseen'} \subseteq BOOLEAN
    BY <1>10, CostOfOne DEF Draw, Drew, Deadline, outside, SettleFrames, Smaller, Larger
  <2>4. queue' \subseteq Workers \cup {Own} /\ posting' \subseteq Workers
    BY <1>10, CostOfOne DEF Draw, Drew, Deadline, outside, SettleFrames, Smaller, Larger
  <2>5. clock' \in [{"lua", "frame", "place"} -> {"off", "ahead", "past"}]
    BY <1>10, CostOfOne DEF Draw, Drew, Deadline, outside, SettleFrames, Smaller, Larger
  <2>6. sched' \in [settle : 0 .. SettleFrames, animating : BOOLEAN, shown : BOOLEAN]
    <3>1. PICK asks : sched' = Drew(asks)
      BY <1>10 DEF Draw
    <3>2. Larger(IF typed > 1 THEN 1 ELSE 0, sched.settle - 1) \in 0 .. SettleFrames
      BY DEF Larger, SettleFrames
    <3>3. (asks \in {"frame", "event"}) \in BOOLEAN
      OBVIOUS
    <3> QED  BY <3>1, <3>2, <3>3 DEF Drew
  <2>7. typed' \in 0 .. MaxTyped /\ since' \in 0 .. SettleFrames
    BY <1>10, CostOfOne DEF Draw, Drew, Deadline, outside, SettleFrames, Smaller, Larger
  <2>8. budget' \in 0 .. MaxBudget
    BY <1>10, CostOfOne DEF Draw, Drew, Deadline, outside, SettleFrames, Smaller, Larger
  <2>9. geometry' \in [seen : Places, written : Places, disk : Places]
    BY <1>10, CostOfOne DEF Draw, Drew, Deadline, outside, SettleFrames, Smaller, Larger
  <2>10. dialog' \in {"none", "open", "answered"} /\ quit' \in {"no", "asked", "yes"}
    BY <1>10, CostOfOne DEF Draw, Drew, Deadline, outside, SettleFrames, Smaller, Larger
  <2> QED  BY <2>1, <2>2, <2>3, <2>4, <2>5, <2>6, <2>7, <2>8, <2>9, <2>10
<1>11. CASE Stop
  <2>1. pc' \in {"turn", "sleep", "serve", "draw", "stopped"} /\ wait' \in {"none", "some", "forever"}
    BY <1>11 DEF Stop, Observed, Written, outside
  <2>2. window' \in [shown : BOOLEAN, place : Places, events : SUBSET {"input", "close", "other"}]
    BY <1>11 DEF Stop, Observed, Written, outside
  <2>3. {opened', wake', lua', dirty', input', hidden', unseen'} \subseteq BOOLEAN
    BY <1>11 DEF Stop, Observed, Written, outside
  <2>4. queue' \subseteq Workers \cup {Own} /\ posting' \subseteq Workers
    BY <1>11 DEF Stop, Observed, Written, outside
  <2>5. clock' \in [{"lua", "frame", "place"} -> {"off", "ahead", "past"}]
    BY <1>11 DEF Stop, Observed, Written, outside
  <2>6. sched' \in [settle : 0 .. SettleFrames, animating : BOOLEAN, shown : BOOLEAN]
    BY <1>11 DEF Stop, Observed, Written, outside
  <2>7. typed' \in 0 .. MaxTyped /\ since' \in 0 .. SettleFrames
    BY <1>11 DEF Stop, Observed, Written, outside
  <2>8. budget' \in 0 .. MaxBudget
    BY <1>11 DEF Stop, Observed, Written, outside
  <2>9. geometry' \in [seen : Places, written : Places, disk : Places]
    BY <1>11 DEF Stop, Observed, Written, outside
  <2>10. dialog' \in {"none", "open", "answered"} /\ quit' \in {"no", "asked", "yes"}
    BY <1>11 DEF Stop, Observed, Written, outside
  <2> QED  BY <2>1, <2>2, <2>3, <2>4, <2>5, <2>6, <2>7, <2>8, <2>9, <2>10
<1>12. CASE UNCHANGED vars
  BY <1>12 DEF vars
<1> QED
  BY <1>1, <1>2, <1>3, <1>4, <1>5, <1>6, <1>7, <1>8, <1>9, <1>10, <1>11, <1>12 DEF Next, Loop, World

-----------------------------------------------------------------------------
(***************************************************************************)
(* Each part of the invariant.                                             *)
(***************************************************************************)

\* What a step of the world around the loop leaves alone.
LEMMA WorldLeaves ==
    ASSUME World \/ UNCHANGED vars
    PROVE  UNCHANGED <<pc, wait, opened, dirty, sched, typed, input, geometry, unseen, since>>
BY DEF World, Happens, Moves, Push, Wake, Answer, Elapse, outside, vars

LEMMA MarkedStep == TypeOK /\ Marked /\ [Next]_vars => Marked'
<1> SUFFICES ASSUME TypeOK, Marked, [Next]_vars PROVE Marked'
  OBVIOUS
<1> USE DEF Marked
<1>1. CASE World \/ UNCHANGED vars
  BY <1>1, WorldLeaves
<1>2. CASE Turn
  BY <1>2 DEF Turn
<1>3. CASE Sleep
  <2>1. sched' = sched
    BY <1>3 DEF Sleep
  <2>2. UNCHANGED <<dirty, unseen>> \/ dirty' = TRUE
    BY <1>3 DEF Sleep, Close
  <2> QED  BY <2>1, <2>2
<1>4. CASE Serve
  <2>1. sched'.settle = sched.settle \/ sched'.settle = SettleFrames
    BY <1>4 DEF Serve, TypeOK
  <2>2. dirty => dirty'
    BY ZenonT(30), <1>4 DEF Serve
  <2>3. unseen' => unseen \/ dirty'
    BY ZenonT(30), <1>4 DEF Serve
  <2> QED  BY <2>1, <2>2, <2>3 DEF SettleFrames
<1>5. CASE Draw
  BY <1>5 DEF Draw
<1>6. CASE Stop
  BY <1>6 DEF Stop
<1> QED  BY <1>1, <1>2, <1>3, <1>4, <1>5, <1>6 DEF Next, Loop

LEMMA FedStep == TypeOK /\ Fed /\ [Next]_vars => Fed'
<1> SUFFICES ASSUME TypeOK, Fed, [Next]_vars PROVE Fed'
  OBVIOUS
<1> USE DEF Fed
<1>1. CASE World \/ UNCHANGED vars
  BY <1>1, WorldLeaves
<1>2. CASE Turn
  BY <1>2 DEF Turn
<1>3. CASE Sleep
  BY <1>3 DEF Sleep
<1>4. CASE Serve
  <2>1. PICK changed : sched' = [sched EXCEPT !.settle = IF Noticed(changed) THEN SettleFrames ELSE sched.settle,
                                              !.shown = window.shown]
    BY <1>4 DEF Serve
  <2>2. sched'.settle = (IF Noticed(changed) THEN SettleFrames ELSE sched.settle) /\ sched'.shown = window.shown
    BY <2>1 DEF TypeOK
  <2>3. typed' = typed /\ pc = "serve"
    BY <1>4 DEF Serve
  <2> QED  BY <2>2, <2>3 DEF Noticed, SettleFrames
<1>5. CASE Draw
  <2>1. PICK asks : sched' = Drew(asks)
    BY <1>5 DEF Draw
  <2>2. sched'.settle = Larger(IF typed > 1 THEN 1 ELSE 0, sched.settle - 1)
    BY <2>1 DEF Drew, TypeOK
  <2>3. typed' = IF typed = 0 THEN 0 ELSE typed - 1
    BY <1>5 DEF Draw
  <2> QED  BY <2>2, <2>3 DEF Larger, TypeOK, SettleFrames
<1>6. CASE Stop
  BY <1>6 DEF Stop
<1> QED  BY <1>1, <1>2, <1>3, <1>4, <1>5, <1>6 DEF Next, Loop

LEMMA FramedStep == TypeOK /\ Framed /\ [Next]_vars => Framed'
<1> SUFFICES ASSUME TypeOK, Framed, [Next]_vars PROVE Framed'
  OBVIOUS
<1> USE DEF Framed
<1>1. CASE World \/ UNCHANGED vars
  BY <1>1, WorldLeaves
<1>2. CASE Turn \/ Sleep \/ Stop
  BY <1>2 DEF Turn, Sleep, Stop
<1>3. CASE Serve
  <2>1. sched' = [sched EXCEPT !.settle = IF Noticed(dirty') THEN SettleFrames ELSE sched.settle,
                               !.shown = window.shown]
    BY <1>3 DEF Serve
  <2>2. /\ sched'.settle = (IF Noticed(dirty') THEN SettleFrames ELSE sched.settle)
        /\ sched'.shown = window.shown
    BY <2>1 DEF TypeOK
  <2>3. since' = IF input \/ dirty' THEN 0 ELSE since
    BY <1>3 DEF Serve
  <2> QED  BY <2>2, <2>3 DEF Noticed, SettleFrames, TypeOK
<1>4. CASE Draw
  <2>1. PICK asks : sched' = Drew(asks)
    BY <1>4 DEF Draw
  <2>2. /\ sched'.settle = Larger(IF typed > 1 THEN 1 ELSE 0, sched.settle - 1)
        /\ sched'.shown = sched.shown
    BY <2>1 DEF Drew, TypeOK
  <2>3. since' = Smaller(SettleFrames, since + 1)
    BY <1>4 DEF Draw
  <2> QED  BY <2>2, <2>3 DEF Larger, Smaller, TypeOK, SettleFrames
<1> QED  BY <1>1, <1>2, <1>3, <1>4 DEF Next, Loop

LEMMA WokenStep == TypeOK /\ Woken /\ [Next]_vars => Woken'
<1> SUFFICES ASSUME TypeOK, Woken, [Next]_vars PROVE Woken'
  OBVIOUS
<1> USE DEF Woken
<1>1. CASE Happens \/ Moves \/ Answer \/ Elapse \/ UNCHANGED vars
  BY <1>1 DEF Happens, Moves, Answer, Elapse, outside, vars
<1>2. ASSUME NEW w \in Workers, Push(w) PROVE Woken'
  BY <1>2 DEF Push
<1>3. ASSUME NEW w \in Workers, Wake(w) PROVE Woken'
  BY <1>3 DEF Wake
<1>4. CASE Turn \/ Draw \/ Stop
  BY <1>4 DEF Turn, Draw, Stop, outside
<1>5. CASE Sleep
  BY <1>5 DEF Sleep
<1>6. CASE Serve
  BY ZenonT(30), <1>6 DEF Serve
<1> QED  BY <1>1, <1>2, <1>3, <1>4, <1>5, <1>6 DEF Next, Loop, World

LEMMA TimedStep == TypeOK /\ Timed /\ PlaceKept /\ [Next]_vars => Timed' /\ PlaceKept'
<1> SUFFICES ASSUME TypeOK, Timed, PlaceKept, [Next]_vars PROVE Timed' /\ PlaceKept'
  OBVIOUS
<1> USE DEF Timed, PlaceKept
<1>1. CASE UNCHANGED vars
  BY <1>1 DEF vars
<1>2. CASE Next /\ World
  <2>1. pc' # "stopped" /\ UNCHANGED geometry
    BY <1>2, WorldLeaves DEF Next
  <2>2. clock'.place = clock.place \/ (clock.place = "ahead" /\ clock'.place = "past")
    BY <1>2 DEF World, Happens, Moves, Push, Wake, Answer, Elapse, outside, TypeOK
  <2> QED  BY <2>1, <2>2
<1>3. CASE Turn
  BY <1>3 DEF Turn, TypeOK
<1>4. CASE Sleep
  BY <1>4 DEF Sleep
<1>5. CASE Serve
  <2> DEFINE place == Observed(window.shown /\ opened)
  <2>1. /\ pc' # "stopped"
        /\ clock'.place = IF place.timer = "past" THEN "off" ELSE place.timer
        /\ geometry' = IF place.timer = "past" THEN Written(place.seen) ELSE [geometry EXCEPT !.seen = place.seen]
    BY <1>5 DEF Serve, TypeOK
  <2> QED  BY <2>1 DEF Observed, Written, TypeOK
<1>6. CASE Draw
  BY <1>6 DEF Draw, TypeOK
<1>7. CASE Stop
  <2> DEFINE place == Observed(window.shown /\ opened)
  <2>1. /\ clock'.place = "off" /\ window' = window /\ opened' = opened
        /\ geometry' = IF place.timer # "off" THEN Written(place.seen) ELSE [geometry EXCEPT !.seen = place.seen]
    BY <1>7 DEF Stop, TypeOK, outside
  <2> QED  BY <2>1 DEF Observed, Written, TypeOK
<1> QED  BY <1>1, <1>2, <1>3, <1>4, <1>5, <1>6, <1>7 DEF Next, Loop

LEMMA SleptStep == TypeOK /\ Marked /\ Fed /\ Framed /\ Slept /\ [Next]_vars => Slept'
<1> SUFFICES ASSUME TypeOK, Marked, Fed, Framed, Slept, [Next]_vars PROVE Slept'
  OBVIOUS
<1> USE DEF Slept
<1>1. CASE Happens
  BY <1>1 DEF Happens, TypeOK
<1>2. CASE Moves
  BY <1>2 DEF Moves
<1>3. ASSUME NEW w \in Workers, Push(w) PROVE Slept'
  BY <1>3 DEF Push
<1>4. ASSUME NEW w \in Workers, Wake(w) PROVE Slept'
  BY <1>4 DEF Wake
<1>5. CASE Answer \/ Elapse \/ UNCHANGED vars
  BY <1>5 DEF Answer, Elapse, outside, vars
<1>6. CASE Turn
  <2> SUFFICES ASSUME wait' # "none"
               PROVE  /\ window.shown => ~unseen' /\ typed = 0 /\ ~sched.animating /\ since = SettleFrames
                      /\ ~lua'
    BY <1>6 DEF Turn, outside
  <2>1. /\ window.shown => sched.shown /\ ~(sched.settle > 0) /\ ~sched.animating /\ ~dirty'
        /\ ~lua'
    BY <1>6 DEF Turn, WaitTime, Undrawn, outside
  <2>2. unseen' => dirty' \/ sched.settle > 0
    BY <1>6 DEF Turn, Marked
  <2>3. pc = "turn"
    BY <1>6 DEF Turn
  <2> QED  BY <2>1, <2>2, <2>3 DEF Fed, Framed, TypeOK, SettleFrames
<1>7. CASE Sleep \/ Serve \/ Draw \/ Stop
  BY <1>7 DEF Sleep, Serve, Draw, Stop
<1> QED  BY <1>1, <1>2, <1>3, <1>4, <1>5, <1>6, <1>7 DEF Next, Loop, World

LEMMA NextInv == IInv /\ [Next]_vars => IInv'
BY TypeStep, MarkedStep, FedStep, WokenStep, FramedStep, SleptStep, TimedStep DEF IInv

\* What the loop keeps, whatever reaches it and whenever it does.
THEOREM LoopInvariance == Spec => []IInv
BY InitInv, NextInv, PTL DEF Spec

-----------------------------------------------------------------------------
(***************************************************************************)
(* What follows.                                                           *)
(***************************************************************************)

\* The loop never sleeps while something has not been shown, input waits in
\* ImGui, or a task waits whose thread already posted its wake.
THEOREM NeverSleepsOver == Spec => []SleepsSeen
<1>1. IInv => SleepsSeen
  BY DEF IInv, SleepsSeen, Asleep, Slept, Woken
<1> QED  BY <1>1, LoopInvariance, PTL

\* When it sleeps over a shown window, the frames every change needs were drawn.
THEOREM SleepsSettled == Spec => []Settled
<1>1. IInv => Settled
  BY DEF IInv, Settled, Asleep, Slept
<1> QED  BY <1>1, LoopInvariance, PTL

\* However it stops, the place of the window is the one in the database.
THEOREM KeepsPlace == Spec => []PlaceKept
<1>1. IInv => PlaceKept
  BY DEF IInv
<1> QED  BY <1>1, LoopInvariance, PTL
=============================================================================
