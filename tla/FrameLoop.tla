------------------------------ MODULE FrameLoop ------------------------------
(***************************************************************************)
(* The loop of the main thread: Application::loop with FrameScheduler,     *)
(* GeometryRecorder, the queue other threads post to (MainThreadQueue) and *)
(* what Product answers it.  The loop sleeps in the window system; what    *)
(* must not happen is that it sleeps over something the reader has not     *)
(* seen or a thread that waits, or that it never sleeps again.             *)
(*                                                                         *)
(* Time is three clocks that are off, ahead or past: a timer of Lua, the   *)
(* deadline a component asked for and the wait before a place is written.  *)
(* GLFW, ImGui and the Lua runtime are not in the repository: events and   *)
(* wakes are latched until the next wait takes them, ImGui takes the input *)
(* of one frame at a time, and the runtime says when it has work.          *)
(***************************************************************************)
EXTENDS Naturals, FiniteSets

CONSTANTS Workers,     \* threads that post to the main thread
          Places,      \* places of the window on the screen
          Start,       \* the one it opens at
          MaxTyped,    \* bound on the input in the queue of ImGui
          MaxBudget    \* bound on everything that is not the loop itself

ASSUME FrameAssumption == /\ MaxTyped \in Nat \ {0}
                          /\ MaxBudget \in Nat
                          /\ Start \in Places

SettleFrames == 2
Own == "main"          \* the main thread as one that posts

VARIABLES
  pc,        \* where the loop stands
  wait,      \* how long it sleeps: none, some (a timeout) or forever
  window,    \* of the window system: shown (not minimized), place, events not taken
  opened,    \* Application::m_shown: the window was put on the screen
  wake,      \* an empty event is posted and not taken
  queue,     \* who has a task in MainThreadQueue
  posting,   \* threads between the push of a task and its wake
  lua,       \* the runtime has something to run
  clock,     \* lua: its next timer; frame: m_deadline; place: the wait of a place not written
  dirty,     \* Product::changed()
  sched,     \* m_pending, m_animating and m_shown of FrameScheduler
  typed,     \* input in the queue of ImGui
  input,     \* input since the last service
  hidden,    \* m_hiddenWork
  geometry,  \* seen and written of GeometryRecorder, and the place in the database
  dialog,    \* a dialog of the system: none, open or answered
  quit,      \* no, asked (the confirmation is open) or yes
  budget,    \* what is left of MaxBudget
  unseen,    \* history: something changed that no frame has shown
  since      \* history: frames since the loop last noticed input or a change

vars == <<pc, wait, window, opened, wake, queue, posting, lua, clock, dirty, sched,
          typed, input, hidden, geometry, dialog, quit, budget, unseen, since>>
outside == <<window, queue, posting, wake>>
product == <<dirty, dialog, lua, clock, budget, unseen>>

Smaller(a, b) == IF a < b THEN a ELSE b
Larger(a, b) == IF a < b THEN b ELSE a

Init ==
  /\ pc = "turn" /\ wait = "none" /\ opened = FALSE /\ wake = FALSE
  /\ window = [shown |-> TRUE, place |-> Start, events |-> {}]
  /\ geometry = [seen |-> Start, written |-> Start, disk |-> Start]
  /\ queue = {} /\ posting = {} /\ lua = TRUE /\ dirty = FALSE
  /\ clock = [lua |-> "off", frame |-> "past", place |-> "off"]
  /\ sched = [settle |-> SettleFrames, animating |-> TRUE, shown |-> TRUE]
  /\ typed = 0 /\ input = FALSE /\ hidden = FALSE /\ dialog = "none" /\ quit = "no"
  /\ budget = MaxBudget /\ unseen = TRUE /\ since = 0

-----------------------------------------------------------------------------
(* The world around the loop.                                              *)

Spend == budget > 0 /\ budget' = budget - 1

\* Input, the close button or anything else the window system tells.
Happens ==
  /\ Spend
  /\ \E event \in {"input", "close"} : window' = [window EXCEPT !.events = @ \cup {event}]
  /\ UNCHANGED <<pc, wait, opened, wake, queue, posting, lua, clock, dirty, sched,
                 typed, input, hidden, geometry, dialog, quit, unseen, since>>

\* The window is moved, minimized or restored; the event of it is not counted as input.
Moves ==
  /\ Spend
  /\ \E shown \in BOOLEAN, place \in Places :
       /\ window' = [shown |-> shown, place |-> place, events |-> window.events \cup {"other"}]
       /\ shown # window.shown \/ (shown /\ place # window.place)
       /\ (shown /\ window.shown) \/ place = window.place
  /\ UNCHANGED <<pc, wait, opened, wake, queue, posting, lua, clock, dirty, sched,
                 typed, input, hidden, geometry, dialog, quit, unseen, since>>

\* A thread hands a task to the main thread, or work to the runtime; its wake follows outside the lock.
Push(w) ==
  /\ Spend /\ w \notin queue \cup posting
  /\ posting' = posting \cup {w}
  /\ \/ queue' = queue \cup {w} /\ UNCHANGED lua
     \/ lua' = TRUE /\ UNCHANGED queue
  /\ UNCHANGED <<pc, wait, window, opened, wake, clock, dirty, sched, typed, input,
                 hidden, geometry, dialog, quit, unseen, since>>

Wake(w) ==
  /\ w \in posting
  /\ posting' = posting \ {w} /\ wake' = TRUE
  /\ UNCHANGED <<pc, wait, window, opened, queue, lua, clock, dirty, sched, typed, input,
                 hidden, geometry, dialog, quit, budget, unseen, since>>

\* The reader answers a dialog of the system: nothing wakes the loop.
Answer ==
  /\ dialog = "open" /\ dialog' = "answered"
  /\ UNCHANGED <<pc, wait, outside, opened, lua, clock, dirty, sched, typed, input,
                 hidden, geometry, quit, budget, unseen, since>>

Elapse ==
  /\ \E c \in DOMAIN clock : clock[c] = "ahead" /\ clock' = [clock EXCEPT ![c] = "past"]
  /\ UNCHANGED <<pc, wait, outside, opened, lua, dirty, sched, typed, input, hidden,
                 geometry, dialog, quit, budget, unseen, since>>

-----------------------------------------------------------------------------
(* One turn of the loop.                                                   *)

\* ScriptRuntime::poll: one effect stands for all a poll does, and one that reaches its bound of time leaves more.
Polls(work) ==
  IF (work \/ clock.lua = "past") /\ budget > 0
  THEN {"nothing", "screen", "timer", "dialog", "more"} ELSE {"nothing"}
LuaClock(effect) == CASE effect = "timer" -> "ahead" [] clock.lua = "past" -> "off" [] OTHER -> clock.lua
Costs(effects) == Cardinality({i \in DOMAIN effects : effects[i] # "nothing"})

\* Mutant of Undrawn: what Lua changed before the loop sleeps does not count.
UndrawnQueueOnly == queue # {}
Undrawn == queue # {} \/ dirty

\* Mutant of Ticks: a dialog of the system has no tick of its own.
TicksHidden == hidden
Ticks == hidden \/ dialog # "none"

\* How long the loop may sleep: FrameScheduler::waitSeconds with the idle time of Lua, and the place not written.
WaitTime ==
  LET now == \/ window.shown /\ \/ ~sched.shown \/ sched.settle > 0
                                \/ sched.animating \/ Undrawn
             \/ lua \/ clock.lua = "past" \/ clock.place = "past"
             \/ window.shown /\ clock.frame = "past"
      some == \/ clock.lua = "ahead" \/ clock.place = "ahead" \/ Ticks
              \/ window.shown /\ clock.frame = "ahead"
  IN IF now THEN "none" ELSE IF some THEN "some" ELSE "forever"

\* Lua is advanced before every sleep.
Turn ==
  /\ pc = "turn" /\ quit # "yes"
  /\ \E effect \in Polls(lua) :
       /\ lua' = (effect = "more")
       /\ clock' = [clock EXCEPT !.lua = LuaClock(effect)]
       /\ dialog' = IF effect = "dialog" /\ dialog = "none" THEN "open" ELSE dialog
       /\ dirty' = (dirty \/ effect = "screen") /\ unseen' = (unseen \/ effect = "screen")
       /\ budget' = budget - Costs(<<effect>>)
  /\ UNCHANGED <<outside, opened, sched, typed, input, hidden, geometry, quit, since>>
  /\ pc' = "sleep" /\ wait' = WaitTime'

\* Product::requestQuit: a window whose shell is not ready quits at once, and a second close meets the open confirmation.
Close ==
  /\ quit = "no"
  /\ \/ quit' = "yes" /\ wake' = FALSE /\ UNCHANGED <<dirty, unseen>>
     \/ quit' = "asked" /\ dirty' = TRUE /\ unseen' = TRUE /\ wake' = TRUE

\* The loop sleeps until an event, a wake or its timeout, and the handlers of the events run.
Sleep ==
  /\ pc = "sleep"
  /\ wait = "forever" => (wake \/ window.events # {})
  /\ pc' = "serve" /\ window' = [window EXCEPT !.events = {}]
  /\ input' = ("input" \in window.events)
  /\ typed' = IF input' THEN MaxTyped ELSE typed
  /\ \/ "close" \in window.events /\ Close
     \/ (quit # "no" \/ "close" \notin window.events) /\ wake' = FALSE /\ UNCHANGED <<quit, dirty, unseen>>
  /\ UNCHANGED <<wait, opened, queue, posting, lua, clock, sched, hidden, geometry, dialog,
                 budget, since>>

\* GeometryRecorder::observe: the clock of a place not written and the place seen last.
\* Mutant of Observed: a place that is the written one is taken for no move at all.
ObservedElsewhere(watches) ==
  IF watches /\ window.place \notin {geometry.seen, geometry.written}
  THEN [timer |-> "ahead", seen |-> window.place] ELSE [timer |-> clock.place, seen |-> geometry.seen]
Observed(watches) ==
  IF watches /\ window.place # geometry.seen
  THEN [timer |-> IF window.place = geometry.written THEN "off" ELSE "ahead", seen |-> window.place]
  ELSE [timer |-> clock.place, seen |-> geometry.seen]

\* A place that is due, or still pending as the loop ends, is written.
Written(place) == [seen |-> place, written |-> place, disk |-> place]

\* What starts the frames of FrameScheduler::shouldDraw again.
\* Mutant of Noticed: only a change is followed by the frames that let it settle.
NoticedChange(changed) == window.shown /\ (~sched.shown \/ changed)
Noticed(changed) == window.shown /\ (~sched.shown \/ input \/ changed)

\* Everything that waited gets its turn: the tasks posted before, the dialogs, Lua, the place of the
\* window and, minimized, the components.  A task that posts another one leaves it to the next turn.
Serve ==
  /\ pc = "serve"
  /\ \E task \in IF queue = {} THEN {"nothing"} ELSE {"nothing", "screen", "lua", "again"},
        effect \in Polls(lua \/ queue # {} \/ dialog = "answered"),
        work \in IF window.shown THEN {"nothing"} ELSE {"nothing", "frame", "event"} :
       LET place == Observed(window.shown /\ opened)
           changes == task = "screen" \/ effect = "screen"
       IN /\ Costs(<<task, effect, work>>) <= budget
          /\ budget' = budget - Costs(<<task, effect, work>>)
          /\ effect # "nothing" => lua \/ clock.lua = "past" \/ task = "lua" \/ dialog = "answered"
          /\ queue' = IF task = "again" THEN {Own} ELSE {}
          /\ wake' = (wake \/ task = "again")
          /\ dialog' = CASE effect = "dialog" /\ dialog # "open" -> "open" [] dialog = "answered" -> "none" [] OTHER -> dialog
          /\ lua' = (effect = "more" \/ work = "event")
          /\ clock' = [clock EXCEPT !.lua = LuaClock(effect), !.place = IF place.timer = "past" THEN "off" ELSE place.timer]
          /\ geometry' = IF place.timer = "past" THEN Written(place.seen) ELSE [geometry EXCEPT !.seen = place.seen]
          /\ hidden' = (work # "nothing")
          /\ dirty' = (dirty \/ changes) /\ unseen' = (unseen \/ changes)
          /\ since' = IF input \/ dirty' THEN 0 ELSE since
  /\ LET settle == IF Noticed(dirty') THEN SettleFrames ELSE sched.settle
     IN /\ sched' = [sched EXCEPT !.settle = settle, !.shown = window.shown]
        /\ pc' = IF window.shown /\ (settle > 0 \/ sched.animating \/ clock.frame = "past") THEN "draw" ELSE "turn"
  /\ input' = FALSE
  /\ UNCHANGED <<wait, window, opened, posting, typed, quit>>

\* What a frame leaves: FrameScheduler::drew.  ImGui took the input of one frame.
Drew(asks) == [sched EXCEPT !.settle = Larger(IF typed > 1 THEN 1 ELSE 0, @ - 1), !.animating = asks \in {"frame", "event"}]

\* The deadline is asked for again in every frame.
\* Mutant of Deadline: a deadline stays until a component names another one.
DeadlineKept(asks) == IF asks = "deadline" THEN "ahead" ELSE clock.frame
Deadline(asks) == IF asks = "deadline" THEN "ahead" ELSE "off"

\* A frame shows what changed before it, and its components ask for another frame, a frame at a
\* deadline or a redraw, send an event with or without a frame, or answer the confirmation.
Draw ==
  /\ pc = "draw" /\ pc' = "turn"
  /\ \E asks \in IF budget = 0 THEN {"nothing"}
                 ELSE {"nothing", "frame", "deadline", "redraw", "event", "report"} \cup (IF quit = "asked" THEN {"yes", "no"} ELSE {}) :
       /\ sched' = Drew(asks)
       /\ clock' = [clock EXCEPT !.frame = Deadline(asks)]
       /\ dirty' = (asks = "redraw") /\ unseen' = (asks = "redraw")
       /\ lua' = (lua \/ asks \in {"event", "report"})
       /\ quit' = IF asks \in {"yes", "no"} THEN asks ELSE quit
       /\ budget' = budget - Costs(<<asks>>)
  /\ typed' = IF typed = 0 THEN 0 ELSE typed - 1
  /\ opened' = TRUE /\ since' = Smaller(SettleFrames, since + 1)
  /\ UNCHANGED <<wait, outside, input, hidden, geometry, dialog>>

\* The place of the window is written before the product stops and closes the database.
Stop ==
  /\ pc = "turn" /\ quit = "yes"
  /\ pc' = "stopped"
  /\ LET place == Observed(window.shown /\ opened)
     IN /\ geometry' = IF place.timer # "off" THEN Written(place.seen) ELSE [geometry EXCEPT !.seen = place.seen]
        /\ clock' = [clock EXCEPT !.place = "off"]
  /\ UNCHANGED <<wait, outside, opened, lua, dirty, sched, typed, input, hidden, dialog,
                 quit, budget, unseen, since>>

Loop == Turn \/ Sleep \/ Serve \/ Draw \/ Stop
World == Happens \/ Moves \/ Answer \/ Elapse \/ \E w \in Workers : Push(w) \/ Wake(w)
Next == pc # "stopped" /\ (Loop \/ World)

Spec == Init /\ [][Next]_vars

\* The main thread runs its loop, time passes and a thread that pushed a task reaches its wake.
Fairness == /\ WF_vars(Loop)
            /\ WF_vars(pc # "stopped" /\ Elapse)
            /\ \A w \in Workers : WF_vars(pc # "stopped" /\ Wake(w))
FairSpec == Spec /\ Fairness

-----------------------------------------------------------------------------
(* Properties.                                                             *)

TypeOK ==
  /\ pc \in {"turn", "sleep", "serve", "draw", "stopped"}
  /\ wait \in {"none", "some", "forever"}
  /\ window \in [shown : BOOLEAN, place : Places, events : SUBSET {"input", "close", "other"}]
  /\ {opened, wake, lua, dirty, input, hidden, unseen} \subseteq BOOLEAN
  /\ queue \subseteq Workers \cup {Own} /\ posting \subseteq Workers
  /\ clock \in [{"lua", "frame", "place"} -> {"off", "ahead", "past"}]
  /\ sched \in [settle : 0 .. SettleFrames, animating : BOOLEAN, shown : BOOLEAN]
  /\ typed \in 0 .. MaxTyped /\ since \in 0 .. SettleFrames /\ budget \in 0 .. MaxBudget
  /\ geometry \in [seen : Places, written : Places, disk : Places]
  /\ dialog \in {"none", "open", "answered"} /\ quit \in {"no", "asked", "yes"}

Asleep == pc = "sleep" /\ wait # "none" /\ ~wake /\ window.events = {}

\* The loop never sleeps over something nobody will wake it for (Application.cpp:213): with a window on the
\* screen nothing is undrawn, no input waits in ImGui and no frame is asked for, whatever arrived between the
\* check and the sleep; and a task or work of the runtime waits only for the wake of the thread that brought it.
SleepsSeen ==
  /\ TypeOK
  /\ Asleep => /\ window.shown => (~unseen /\ typed = 0 /\ ~sched.animating)
               /\ queue \subseteq posting
               /\ lua => posting # {}

\* Input and changes are followed by the two frames in which what they changed settles
\* (FrameScheduler.cpp:32), however they are interleaved with frames, minimizing and restoring.
Settled == (Asleep /\ window.shown) => since = SettleFrames

\* The place the window had on the screen as the product ends, or the last one seen before it was
\* minimized, is the one in the database, however far the wait before a place is written had come.
PlaceKept ==
  pc = "stopped" => /\ geometry.disk = geometry.seen
                    /\ (window.shown /\ opened) => geometry.seen = window.place

\* Whatever reaches the main thread is served: a posted task runs, an answered dialog is found and a
\* change is drawn, unless the product ends or, for a change, the window is minimized.
EverythingServed ==
  /\ \A w \in Workers : w \in queue ~> (w \notin queue \/ pc = "stopped")
  /\ dialog = "answered" ~> (dialog # "answered" \/ pc = "stopped")
  /\ unseen ~> (~unseen \/ ~window.shown \/ pc = "stopped")

\* An idle window costs nothing: once nothing more happens the loop sleeps without a deadline,
\* unless a dialog of the system is open, which keeps its tick.
GoesIdle == <>[](wait = "forever" \/ dialog = "open" \/ pc = "stopped")
=============================================================================
