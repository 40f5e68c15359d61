---------------------------- MODULE PluginOrder ----------------------------
(***************************************************************************)
(* The order in which the product starts its plugins:  ordered() and       *)
(* blocking() of lua/workpane/plugins.lua.  A definition is the list of    *)
(* its dependencies, or Unreadable when the code of the plugin could not   *)
(* be read (entry.candidate is nil).                                       *)
(*                                                                         *)
(* visit() is a depth-first search; it is written here as the machine that *)
(* runs it, whose stack is the path of the search, so that no recursive    *)
(* operator is needed and the proofs can use this module.                  *)
(***************************************************************************)
EXTENDS Integers, Sequences, SequencesExt

CONSTANTS Plugins,      \* the identifiers of the installed plugins
          Discovered,   \* them as a sequence, in the order they were found
          Unreadable

ASSUME DiscoveredAssumption ==
    /\ Discovered \in Seq(Plugins)
    /\ Plugins = {Discovered[i] : i \in 1..Len(Discovered)}
    /\ \A i, j \in 1..Len(Discovered) : Discovered[i] = Discovered[j] => i = j

\* The dependencies a readable definition names.
Needs(def) == {def[i] : i \in 1..Len(def)}

\* What the folder of a plugin may hold.
Definition(def) == def = Unreadable \/ def \in Seq(Needs(def))

Definitions(defs) == \A p \in Plugins : Definition(defs[p])

Readable(defs) == {p \in Plugins : defs[p] # Unreadable}

\* The members of seq that lie in set, in their order.
Among(seq, set) ==
    FoldLeft(LAMBDA kept, e : IF e \in set THEN Append(kept, e) ELSE kept, <<>>, seq)

-----------------------------------------------------------------------------
(* The search.  marks says "new", "visiting" or "done"; a frame of the     *)
(* stack is a plugin and the dependencies it has still to visit.           *)

\* Mutant of Frame: only the first dependency is visited.
FrameFirst(p, defs) ==
    LET needs == Among(defs[p], Readable(defs))
    IN  [id |-> p, left |-> IF needs = <<>> THEN <<>> ELSE <<Head(needs)>>]

Frame(p, defs) == [id |-> p, left |-> Among(defs[p], Readable(defs))]

SearchStart == [marks |-> [p \in Plugins |-> "new"], path |-> <<>>,
                order |-> <<>>, cyclic |-> {}, roots |-> Discovered]

Push(search, p, defs) ==
    [search EXCEPT !.marks[p] = "visiting", !.path = Append(@, Frame(p, defs))]

\* Mutant of CycleFrom: the walk back over the path does not stop at p.
CycleFromStart(path, p) == {path[i].id : i \in 1..Len(path)}

\* Every plugin of the path from p on is of a cycle through p.
CycleFrom(path, p) ==
    {path[i].id : i \in {j \in 1..Len(path) : \E k \in 1..j : path[k].id = p}}

\* The dependency the search looks at, and the search once it did.
Looked(search) ==
    LET frame == Last(search.path)
    IN  [search EXCEPT !.path = Append(Front(@), [id |-> frame.id, left |-> Tail(frame.left)])]

SearchStep(search, defs) ==
    IF search.path = <<>>
    THEN LET p == Head(search.roots)
             rest == [search EXCEPT !.roots = Tail(@)]
         IN  IF search.roots = <<>> THEN search
             ELSE IF defs[p] = Unreadable \/ search.marks[p] = "done" THEN rest
             ELSE Push(rest, p, defs)
    ELSE LET frame == Last(search.path)
             d == Head(frame.left)
         IN  CASE frame.left = <<>> ->
                    [search EXCEPT !.marks[frame.id] = "done",
                                   !.path = Front(@),
                                   !.order = Append(@, frame.id)]
               [] frame.left # <<>> /\ search.marks[d] = "done" -> Looked(search)
               [] frame.left # <<>> /\ search.marks[d] = "visiting" ->
                    [Looked(search) EXCEPT !.cyclic = @ \cup CycleFrom(search.path, d)]
               [] frame.left # <<>> /\ search.marks[d] = "new" -> Push(Looked(search), d, defs)

\* More steps than a search takes: every root is taken once, every plugin is pushed and
\* popped at most once, and after either at most a whole list of dependencies is looked at.
Longest(defs) == Max({0} \cup {Len(defs[p]) : p \in Readable(defs)})
SearchLength(defs) == Len(Discovered) + 2 * (Len(Discovered) * (Longest(defs) + 1))

\* What ordered() answers: the loaded plugins, and which it found in a cycle.
\* The search is kept as a set of one, so TLC evaluates each of its states once.
Ordered(defs) ==
    LET Searches == FoldLeft(LAMBDA states, step : {SearchStep(search, defs) : search \in states},
                             {SearchStart}, [step \in 1..SearchLength(defs) |-> step])
    IN  CHOOSE search \in Searches : TRUE

-----------------------------------------------------------------------------
(* The graph itself, which the search only sees a plugin at a time.        *)

Edge(defs, p, q) == q \in Readable(defs) /\ q \in Needs(defs[p])
ClosedUnder(defs, T) == \A p \in T : \A q \in Readable(defs) : Edge(defs, p, q) => q \in T

\* The readable plugins p depends on, directly or through others.
Reach(defs, p) ==
    {q \in Readable(defs) :
       \A T \in SUBSET Readable(defs) :
          ClosedUnder(defs, T) /\ (\A r \in Readable(defs) : Edge(defs, p, r) => r \in T) => q \in T}
InCycle(defs, p) == p \in Reach(defs, p)

-----------------------------------------------------------------------------
(* blocking(): the dependencies are looked at in the order they are named, *)
(* and the first that is not installed or does not run decides.            *)

FirstBlocking(def, running) ==
    LET bad == {i \in 1..Len(def) : def[i] \notin running}
    IN  IF bad = {} THEN 0 ELSE CHOOSE i \in bad : \A j \in bad : i <= j

Blocking(def, running) ==
    LET i == FirstBlocking(def, running)
    IN  CASE i = 0 -> "none"
          [] i # 0 /\ def[i] \notin Plugins -> "missing"
          [] i # 0 /\ def[i] \in Plugins -> "inactive"
=============================================================================
