----------------------------- MODULE MCFrameLoop -----------------------------
(* A small instance of FrameLoop: a worker, and a window with two places.    *)
EXTENDS FrameLoop, TLC

CONSTANTS w1, here, there
MCWorkers == {w1}
MCPlaces == {here, there}
=============================================================================
