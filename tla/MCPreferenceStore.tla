------------------------- MODULE MCPreferenceStore -------------------------
(***************************************************************************)
(* A small instance of SdkPreferences: a plugin with two documents, whose *)
(* writes and whose erase overlap.                                         *)
(***************************************************************************)
EXTENDS SdkPreferences, TLC

CONSTANTS r1, r2, r3, plugin, first, further, old, new

MCWork == {r1, r2, r3}
MCPlugins == {plugin}
MCOwners == {first, further}
MCPluginOf == [o \in MCOwners |-> plugin]
MCDocuments == {old, new}
Alike == Permutations(MCWork) \cup Permutations(MCOwners) \cup Permutations(MCDocuments)
=============================================================================
