--------------------------- MODULE ResourceLedger ---------------------------
(***************************************************************************)
(* What a scope of resources promises its plugin (docs/plugins.md, "Owned  *)
(* resource scopes"): every resource that was opened for it is closed      *)
(* once, and the scope is over only when nothing is left open.             *)
(***************************************************************************)
CONSTANT Resources

VARIABLES
    taken,   \* the resources that were opened
    given,   \* those whose closing function was called
    back,    \* those whose closing function answered
    over     \* whether the closing of the scope was answered

vars == <<taken, given, back, over>>

Init == taken = {} /\ given = {} /\ back = {} /\ over = FALSE

Take(r) ==
    /\ ~over /\ r \notin taken
    /\ taken' = taken \cup {r}
    /\ UNCHANGED <<given, back, over>>

Give(some) ==
    /\ some # {} /\ some \subseteq taken \ given
    /\ given' = given \cup some
    /\ UNCHANGED <<taken, back, over>>

Return(r) ==
    /\ r \in given \ back
    /\ back' = back \cup {r}
    /\ UNCHANGED <<taken, given, over>>

End ==
    /\ ~over /\ back = taken
    /\ over' = TRUE
    /\ UNCHANGED <<taken, given, back>>

Next ==
    \/ \E r \in Resources : Take(r) \/ Return(r)
    \/ \E some \in SUBSET Resources : Give(some)
    \/ End

Spec == Init /\ [][Next]_vars
=============================================================================
