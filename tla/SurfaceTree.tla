---------------------------- MODULE SurfaceTree ----------------------------
(***************************************************************************)
(* The trees of nodes a plugin shows:  lua/workpane/ui.lua on the side of  *)
(* the SDK, ui/model/SurfaceStore.cpp on the side of the shell, and the    *)
(* events of a frame on their way from the second to the first.            *)
(*                                                                         *)
(* A call of the SDK runs to its end on both sides, so what the two sides  *)
(* know differs only by what waits in the inbox of the runtime: an edit, a *)
(* moved tab, a pressed browse button, the answer of a selector.           *)
(*                                                                         *)
(* One property stands for all the properties of a node: the text of a     *)
(* path field, the number of tabs of a strip.  A plugin gives a node to    *)
(* one surface at a time and makes no node its own descendant.             *)
(***************************************************************************)
EXTENDS Integers, SequencesExt

CONSTANTS
    Nodes, Surfaces,
    Strips,      \* the nodes that are tabs, whose pages match their tabs
    Paths,       \* the nodes that are path fields
    Leaves,      \* the nodes whose kind takes no children
    Offers,      \* the children a plugin gives each node, with their value of the node
    Gives,       \* the values a plugin gives each node alone
    Typed,       \* the values a reader types into a path field
    Roots,       \* the nodes a plugin mounts
    Arranged,    \* the nodes a plugin gives children before it mounts them
    Commanded,   \* the node of each command a plugin sends, in order
    None,
    MaxDepth, MaxNodes,                     \* the bounds of the shell on a tree
    MaxSelections, MaxInbox    \* bounds of the model

ASSUME TreeAssumption ==
    /\ IsFiniteSet(Nodes)
    /\ Strips \cup Paths \cup Leaves \subseteq Nodes /\ Paths \subseteq Leaves
    /\ Commanded \in Seq(Nodes) /\ {MaxDepth, MaxNodes, MaxSelections, MaxInbox} \subseteq Nat
    /\ None \notin Nodes \cup Surfaces
    /\ Roots \subseteq Nodes /\ \A n \in Nodes : \A o \in Offers[n] : o.kids \in Seq(Nodes)

VARIABLES
    \* The SDK: the state of each node and of each surface.
    children, value, picking, reset,
    place,       \* the surface a node is bound to
    holds,       \* surface.nodes, empty where nothing is mounted
    waiting,     \* the commands kept for a mount
    selection,   \* the selection a path field waits for, or 0
    outdated,    \* the selections whose revision is no longer that of the node
    \* The shell: its surfaces and their components.
    root, shown, below, content, busy,
    \* Between the two.
    inbox,       \* what the runtime delivers to Lua, in order
    asking,      \* the selectors that are open
    \* What has happened.
    sent, reached,   \* how many commands were sent, and those the shell took, in order
    raced,           \* the nodes a call changed over an event in flight
    spoiled,         \* the selections overtaken by an edit or by the end of their node
    late             \* whether one of them set a value

sdk == <<children, value, picking, reset, place, holds, waiting, selection, outdated>>
shell == <<root, shown, below, content, busy>>
ghosts == <<sent, reached, raced, spoiled, late>>
vars == <<sdk, shell, inbox, asking, ghosts>>

Init ==
    /\ children = [n \in Nodes |-> <<>>] /\ below = children
    /\ value = [n \in Nodes |-> 1] /\ content = value
    /\ picking = [n \in Nodes |-> FALSE] /\ reset = picking /\ busy = picking
    /\ place = [n \in Nodes |-> None] /\ shown = place
    /\ holds = [s \in Surfaces |-> {}] /\ root = [s \in Surfaces |-> None]
    /\ waiting = {} /\ selection = [n \in Nodes |-> 0] /\ outdated = {}
    /\ inbox = <<>> /\ asking = {}
    /\ sent = 0 /\ reached = <<>> /\ raced = {}
    /\ spoiled = {} /\ late = FALSE

-----------------------------------------------------------------------------
\* The nodes of the tree of r, not looking into those of stop.
Walk(kids, r, stop) ==
    LET under[n \in Nodes] ==
            {n} \cup IF n \in stop THEN {} ELSE UNION {under[k] : k \in ToSet(kids[n])}
    IN  under[r]

Tree(kids, r) == Walk(kids, r, {})
Inside(kids, r) == Tree(kids, r) \ {r}

\* No node is named twice under the nodes of holders, which hold all of named.
NamedOnce(kids, holders, named) ==
    Cardinality(UNION {{<<n, i>> : i \in DOMAIN kids[n]} : n \in holders}) = Cardinality(named)

Height(kids, r) ==
    LET tall[n \in Nodes] == 1 + Max({0} \cup {tall[k] : k \in ToSet(kids[n])})
    IN  tall[r]

\* What a kind proves of its value and its children.
Fits(n, v, kids) ==
    /\ n \in Leaves => kids = <<>>
    /\ n \in Strips /\ kids # <<>> => Len(kids) = v

Within(kids, r) == Height(kids, r) - 1 <= MaxDepth /\ Cardinality(Tree(kids, r)) <= MaxNodes

\* The selections these nodes wait for.
Waits(nodes) == {selection[n] : n \in nodes} \ {0}

\* A message about n that waits for the SDK and changes its node.
InFlight(n) == \E i \in DOMAIN inbox : inbox[i].node = n /\ inbox[i].name # "answer"
Raced(changed) == (raced \ changed) \cup {n \in changed : InFlight(n)}

-----------------------------------------------------------------------------
\* The members of a set, by rising key.
ByKey(members, key) ==
    CHOOSE s \in SetToSeqs(members) : \A i, j \in DOMAIN s : i < j => key[s[i]] < key[s[j]]

\* The commands kept for these nodes, in the order the plugin sent them.
Delivered(nodes) ==
    LET theirs == {w \in waiting : w.node \in nodes}
    IN  ByKey(theirs, [w \in theirs |-> w.number])

\* Mutant of Undelivered: the commands are not taken out of the node.
UndeliveredAll(nodes) == waiting

Undelivered(nodes) == {w \in waiting : w.node \notin nodes}

\* The picking a node asks its surface to take back once it is bound again.
Resets(left) == [n \in Nodes |-> IF n \in left THEN picking[n] ELSE reset[n]]

\* The nodes of left are detached, those of stay are bound to s and get their commands.
Bind(s, left, stay) ==
    /\ holds' = [holds EXCEPT ![s] = (@ \ left) \cup stay]
    /\ place' = [n \in Nodes |->
                    IF n \in stay THEN s ELSE IF n \in left THEN None ELSE place[n]]
    /\ selection' = [n \in Nodes |-> IF n \in left THEN 0 ELSE selection[n]]
    /\ spoiled' = spoiled \cup Waits(left) /\ outdated' = outdated \ Waits(left)
    /\ picking' = [n \in Nodes |-> picking[n] /\ n \notin left]
    /\ reset' = [n \in Nodes |-> Resets(left)[n] /\ n \notin stay]
    /\ reached' = reached \o Delivered(stay)
    /\ waiting' = Undelivered(stay)

\* A component no surface holds shows nothing.
Blank == 1

\* The shell builds the components of made as the SDK describes them and releases those of
\* gone; left are the nodes the SDK detaches, some of which it may bind again at once.
Build(s, made, gone, left) ==
    /\ shown' = [n \in Nodes |-> IF n \in made THEN s ELSE IF n \in gone THEN None ELSE shown[n]]
    /\ busy' = [n \in Nodes |-> IF n \in made THEN picking[n] /\ ~Resets(left)[n]
                                ELSE busy[n] /\ n \notin gone]

\* What the nodes hold and show after that, a node of changed being given kids and v.
Fill(made, gone, changed, kids, v) ==
    /\ below' = [n \in Nodes |-> IF n \in changed THEN kids ELSE IF n \in made THEN children[n]
                                 ELSE IF n \in gone THEN <<>> ELSE below[n]]
    /\ content' = [n \in Nodes |-> IF n \in changed THEN v ELSE IF n \in made THEN value[n]
                                   ELSE IF n \in gone THEN Blank ELSE content[n]]
    /\ raced' = Raced(made \cup changed) \ gone

\* ui.mount: the previous tree lets go once the host accepted the new one.
Mount(s, r) ==
    LET tree == Tree(children, r)
        accepted == /\ NamedOnce(children, tree, tree \ {r})
                    /\ Within(children, r)
                    /\ \A n \in tree : Fits(n, value[n], children[n])
    IN  /\ \A n \in tree : place[n] \in {s, None}
        /\ accepted
        /\ Bind(s, holds[s], tree)
        /\ Build(s, tree, holds[s] \ tree, holds[s])
        /\ Fill(tree, holds[s] \ tree, {}, <<>>, Blank)
        /\ root' = [root EXCEPT ![s] = r]
        /\ UNCHANGED <<children, value, inbox, asking, sent, late>>

\* ui.unmount, which the withdrawal of the plugin calls as well.
Unmount(s) ==
    /\ holds[s] # {}
    /\ Bind(s, holds[s], {}) /\ Build(s, {}, holds[s], holds[s])
    /\ Fill({}, holds[s], {}, <<>>, Blank)
    /\ root' = [root EXCEPT ![s] = None]
    /\ UNCHANGED <<children, value, inbox, asking, sent, late>>

\* Mutant of Outdate: the revision of the value stays.
OutdateNever(n) == UNCHANGED outdated

\* A value of the plugin outdates the selection that waits, as state.valueRevision does.
Outdate(n) == outdated' = outdated \cup Waits({n})

\* Node:set.
Set(n, v) ==
    /\ place[n] # None => Fits(n, v, below[n])
    /\ value' = [value EXCEPT ![n] = v] /\ Outdate(n)
    /\ IF place[n] = None THEN UNCHANGED <<content, raced>>
       ELSE content' = [content EXCEPT ![n] = v] /\ raced' = raced \cup Raced({n})
    /\ UNCHANGED <<children, picking, reset, place, holds, waiting, selection, root, shown,
                   below, busy, inbox, asking, sent, reached, spoiled, late>>

-----------------------------------------------------------------------------
\* Mutant of Kept: only the children themselves are kept, wherever else a node lies.
KeptDirectly(n) == ToSet(children[n])

\* The nodes setChildren() names by their identity alone: all that lie inside the node already.
Kept(n) == Inside(children, n)

\* Mutant of Leaving: what lies below a child that leaves is forgotten.
LeavingDirectly(n, reachable) == ToSet(children[n]) \ reachable

\* The nodes that no longer lie inside n, which lose their surface.
Leaving(n, reachable) == Inside(children, n) \ reachable

\* The children do not hold the node they are given to.
Grows(n, kids) == \A k \in ToSet(kids) : n \notin Tree(children, k)

\* What replaceChildren() proves before anything moves.
Replaceable(n, kids, v, kept, made) ==
    LET carried == UNION {Tree(below, k) : k \in kept}
        after == [m \in Nodes |-> IF m = n THEN kids ELSE IF m \in made THEN children[m] ELSE below[m]]
    IN  /\ NamedOnce(after, {n} \cup made, kept \cup made)
        /\ kept \subseteq Inside(below, n)
        /\ \A k, l \in kept : k # l => l \notin Tree(below, k)
        /\ \A m \in made : shown[m] = None \/ m \in Inside(below, n) \ carried
        /\ Within(after, root[shown[n]])
        /\ \A m \in made : Fits(m, value[m], children[m])
        /\ Fits(n, v, kids)

\* Node:setChildren of a node that is on a surface.
Replace(n, kids, v) ==
    LET s == place[n]
        named == Walk([children EXCEPT ![n] = kids], n, Kept(n)) \ {n}
        kept == named \cap Kept(n)
        made == named \ kept
        reachable == named \cup UNION {Tree(children, k) : k \in kept}
        gone == (Inside(below, n) \ UNION {Tree(below, k) : k \in kept}) \ made
    IN  /\ s # None /\ Grows(n, kids)
        /\ \A m \in reachable : place[m] \in {s, None}
        /\ Replaceable(n, kids, v, kept, made)
        /\ children' = [children EXCEPT ![n] = kids]
        /\ value' = [value EXCEPT ![n] = v]
        /\ Bind(s, Leaving(n, reachable), reachable)
        /\ Build(s, made, gone, Leaving(n, reachable)) /\ Fill(made, gone, {n}, kids, v)
        /\ UNCHANGED <<root, inbox, asking, sent, late>>

\* Node:setChildren of a node no surface holds.
Arrange(n, kids, v) ==
    /\ n \in Arranged /\ place[n] = None
    /\ Grows(n, kids)
    /\ children' = [children EXCEPT ![n] = kids] /\ value' = [value EXCEPT ![n] = v]
    /\ UNCHANGED <<picking, reset, place, holds, waiting, selection, outdated, shell, inbox,
                   asking, sent, reached, raced, spoiled, late>>

\* Node:command, kept where no surface holds the node.
Command(n) ==
    LET command == [number |-> sent + 1, node |-> n]
    IN  /\ sent < Len(Commanded) /\ n = Commanded[sent + 1] /\ sent' = sent + 1
        /\ IF place[n] = None THEN waiting' = waiting \cup {command} /\ UNCHANGED reached
           ELSE shown[n] = place[n] /\ reached' = Append(reached, command) /\ UNCHANGED waiting
        /\ UNCHANGED <<children, value, picking, reset, place, holds, selection, outdated, shell,
                       inbox, asking, raced, spoiled, late>>

-----------------------------------------------------------------------------
\* What a component of a drawn surface reports reaches the runtime in the frame that draws it.
Emit(n, name, v, order) ==
    /\ Len(inbox) < MaxInbox /\ shown[n] # None
    /\ inbox' = Append(inbox, [name |-> name, surface |-> shown[n], node |-> n,
                               value |-> v, order |-> order])
    /\ raced' = IF name = "browse" THEN raced ELSE raced \ {n}
    /\ UNCHANGED <<sdk, root, shown, asking, sent, reached, late>>

Edit(n, v) ==
    /\ n \in Paths /\ content[n] # v
    /\ Emit(n, "change", v, <<>>)
    /\ content' = [content EXCEPT ![n] = v]
    /\ spoiled' = spoiled \cup {a.id : a \in {q \in asking : q.node = n}}
    /\ UNCHANGED <<below, busy>>

Browse(n) ==
    /\ n \in Paths /\ ~busy[n]
    /\ Emit(n, "browse", content[n], <<>>)
    /\ busy' = [busy EXCEPT ![n] = TRUE]
    /\ UNCHANGED <<below, content, spoiled>>

\* A tab and its page move together.
MoveTab(n) ==
    /\ n \in Strips /\ content[n] = 2
    /\ Emit(n, "move", content[n], Reverse(below[n]))
    /\ below' = [below EXCEPT ![n] = Reverse(@)]
    /\ UNCHANGED <<content, busy, spoiled>>

\* The selector of a path field answers, and its answer joins the inbox.
AnswerSelector(a, v) ==
    /\ a \in asking /\ Len(inbox) < MaxInbox
    /\ asking' = asking \ {a}
    /\ inbox' = Append(inbox, [name |-> "answer", node |-> a.node, id |-> a.id, value |-> v])
    /\ UNCHANGED <<sdk, shell, sent, reached, raced, spoiled, late>>

-----------------------------------------------------------------------------
\* An event the SDK finds its node for, which takes what the event changed.
Heard(e) == e.name # "answer" /\ e.node \in holds[e.surface]

Take == Len(inbox) > 0 /\ inbox' = Tail(inbox)

Unheard ==
    /\ Take /\ Head(inbox).name # "answer" /\ ~Heard(Head(inbox))
    /\ UNCHANGED <<sdk, shell, asking, sent, reached, raced, spoiled, late>>

\* remember() of a change of the value.
HearChange ==
    LET e == Head(inbox)
    IN  /\ Take /\ e.name = "change" /\ Heard(e)
        /\ value' = [value EXCEPT ![e.node] = e.value] /\ Outdate(e.node)
        /\ UNCHANGED <<children, picking, reset, place, holds, waiting, selection, shell,
                       asking, sent, reached, raced, spoiled, late>>

\* The members of a set in the order an event names them, each once.
InOrder(order, members) ==
    LET named == members \cap ToSet(order)
    IN  ByKey(named, [m \in named |-> CHOOSE i \in DOMAIN order : order[i] = m])

\* remember() of the tabs and of the order of the pages.
HearMove ==
    LET e == Head(inbox)
        ordered == InOrder(e.order, ToSet(children[e.node]))
    IN  /\ Take /\ e.name = "move" /\ Heard(e)
        /\ value' = [value EXCEPT ![e.node] = e.value]
        /\ children' = IF Len(ordered) = Len(children[e.node])
                       THEN [children EXCEPT ![e.node] = ordered] ELSE children
        /\ UNCHANGED <<picking, reset, place, holds, waiting, selection, outdated, shell,
                       asking, sent, reached, raced, spoiled, late>>

\* The selections some part of the system still knows.
Known == Waits(Nodes) \cup {a.id : a \in asking}
             \cup {e.id : e \in {m \in ToSet(inbox) : m.name = "answer"}}

\* selectPath() up to the await of the selector.
HearBrowse ==
    LET e == Head(inbox)
        id == Min((1..MaxSelections + 1) \ Known)
    IN  /\ Take /\ e.name = "browse" /\ Heard(e)
        /\ picking' = [picking EXCEPT ![e.node] = TRUE]
        /\ IF selection[e.node] # 0 THEN UNCHANGED <<selection, asking>>
           ELSE /\ id <= MaxSelections
                /\ selection' = [selection EXCEPT ![e.node] = id]
                /\ asking' = asking \cup {[id |-> id, node |-> e.node]}
        /\ UNCHANGED <<children, value, reset, place, holds, waiting, outdated, shell,
                       sent, reached, raced, spoiled, late>>

\* selectPath() after the await: only the selection the field still waits for may set its value.
Current(e) == selection[e.node] = e.id

HearAnswer ==
    LET e == Head(inbox)
        takes == Current(e) /\ e.id \notin outdated /\ e.value # None
    IN  /\ Take /\ e.name = "answer"
        /\ IF ~Current(e) THEN UNCHANGED <<selection, picking, busy>>
           ELSE /\ selection' = [selection EXCEPT ![e.node] = 0]
                /\ picking' = [picking EXCEPT ![e.node] = FALSE]
                /\ busy' = [busy EXCEPT ![e.node] = FALSE]
        /\ IF ~takes THEN UNCHANGED <<value, content, raced, late>>
           ELSE /\ value' = [value EXCEPT ![e.node] = e.value]
                /\ content' = [content EXCEPT ![e.node] = e.value]
                /\ raced' = raced \cup Raced({e.node}) /\ late' = (late \/ e.id \in spoiled)
        /\ spoiled' = spoiled \ {e.id} /\ outdated' = outdated \ {e.id}
        /\ UNCHANGED <<children, reset, place, holds, waiting, root, shown, below,
                       asking, sent, reached>>

Next ==
    \/ \E s \in Surfaces : Unmount(s) \/ \E r \in Roots : Mount(s, r)
    \/ \E n \in Nodes :
          \/ \E v \in Gives[n] : Set(n, v)
          \/ \E o \in Offers[n] : Replace(n, o.kids, o.value) \/ Arrange(n, o.kids, o.value)
          \/ Command(n)
          \/ Browse(n) \/ MoveTab(n) \/ \E v \in Typed : Edit(n, v)
    \/ \E a \in asking, v \in Typed \cup {None} : AnswerSelector(a, v)
    \/ Unheard \/ HearChange \/ HearMove \/ HearBrowse \/ HearAnswer

Spec == Init /\ [][Next]_vars

-----------------------------------------------------------------------------
(* Properties. *)

TypeOK ==
    /\ children \in [Nodes -> Seq(Nodes)] /\ below \in [Nodes -> Seq(Nodes)]
    /\ place \in [Nodes -> Surfaces \cup {None}] /\ holds \in [Surfaces -> SUBSET Nodes]
    /\ shown \in [Nodes -> Surfaces \cup {None}] /\ root \in [Surfaces -> Nodes \cup {None}]
    /\ {picking, reset, busy} \subseteq [Nodes -> BOOLEAN]
    /\ selection \in [Nodes -> 0..MaxSelections] /\ outdated \subseteq 1..MaxSelections
    /\ \A w \in waiting \cup ToSet(reached) : w.number \in 1..sent /\ w.node \in Nodes
    /\ Len(inbox) <= MaxInbox /\ raced \subseteq Nodes

\* The SDK and the shell know the same nodes on the same surfaces, the nodes of the one tree
\* each surface shows, and where no event is on its way, and none was when the plugin last
\* changed the node, they know the same value and the same children of it.  (ui.lua repeats
\* what SurfaceStore did: setChildren and mount compute the nodes that leave on their own.)
Agree ==
    /\ TypeOK
    /\ place = shown
    /\ \A s \in Surfaces :
         LET tree == IF root[s] = None THEN {} ELSE Tree(below, root[s])
         IN  holds[s] = tree /\ tree = {n \in Nodes : shown[n] = s}
    /\ \A n \in Nodes : shown[n] # None /\ ~InFlight(n) /\ n \notin raced =>
                          value[n] = content[n] /\ children[n] = below[n]

\* Giving a node other children never builds again a component of the surface, however deep it
\* lay and wherever it lands: a node that stays keeps what a reader typed into it, though the
\* SDK has not heard of it yet, as a terminal keeps its shell.
KeptAlive ==
    [][children' # children =>
          \A n \in Nodes : children'[n] = children[n] /\ shown[n] # None /\ shown'[n] # None
                              => content'[n] = content[n] /\ busy'[n] = busy[n]]_vars

\* Every command sent reaches the shell once, or waits for a node no surface holds; those of a
\* node reach it in the order they were sent.
CommandsReach ==
    /\ \A w \in waiting : place[w.node] = None
    /\ waiting \cap ToSet(reached) = {}
    /\ {w.number : w \in waiting \cup ToSet(reached)} = 1..sent
    /\ Len(reached) + Cardinality(waiting) = sent
    /\ \A i, j \in DOMAIN reached :
          i < j /\ reached[i].node = reached[j].node => reached[i].number < reached[j].number

\* The commands one mount delivers keep their order across the nodes they are for.
MountsInOrder ==
    [][\A i, j \in DOMAIN reached' \ DOMAIN reached :
         i < j => reached'[i].number < reached'[j].number]_vars

\* What a reader typed and what a plugin commanded both survive every change of the tree.
KeptInOrder == KeptAlive /\ MountsInOrder

\* A path field shows that it is picking only while its browse is on the way to the SDK or a
\* selection of it is under way: no remount, move or withdrawal leaves the button dead.
PickingReal ==
    \A n \in Nodes : busy[n] =>
        \/ selection[n] # 0
        \/ \E i \in DOMAIN inbox : inbox[i].name = "browse" /\ inbox[i].node = n

\* "Selection never replaces a value edited while the selector was open, and a detached node
\* receives no late result."  (docs/plugins.md:218)
LateChoice == ~late

\* A choice of a path ends once, in the field that asked for it.
ChoicesReal == PickingReal /\ LateChoice
=============================================================================
