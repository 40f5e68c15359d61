--------------------------- MODULE MCSurfaceTree ---------------------------
(***************************************************************************)
(* An instance of SurfaceTree: a strip of tabs, a box and a path field,    *)
(* which lies in the strip, beside the box, in the box or nowhere.         *)
(***************************************************************************)
EXTENDS SurfaceTree

CONSTANTS strip, box, path

Given(kids, v) == [kids |-> kids, value |-> v]

MCOffers == [n \in Nodes |->
    CASE n = strip -> {Given(<<>>, 2), Given(<<path>>, 1), Given(<<box, path>>, 2), Given(<<box>>, 1)}
      [] n = box -> {Given(<<>>, 1), Given(<<path>>, 1)}
      [] OTHER -> {}]

\* The commands of one node surround that of another.
MCCommanded == <<path, box, path>>

MCGives == [n \in Nodes |-> IF n = path THEN {1} ELSE {}]
=============================================================================
