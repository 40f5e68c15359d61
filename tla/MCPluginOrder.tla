--------------------------- MODULE MCPluginOrder ---------------------------
(***************************************************************************)
(* Every graph of dependencies of three plugins, with lists of at most two *)
(* in any order, unreadable plugins and a dependency nobody installed.     *)
(***************************************************************************)
EXTENDS PluginGraphs

CONSTANTS a, b, c, absent

MCPlugins == {a, b, c}
MCDiscovered == <<a, b, c>>

\* A manifest never names its own plugin (PluginRegistry refuses it), but the
\* order is computed before the registry sees the manifest.
MCLists == {s \in UNION {[1..n -> MCPlugins \cup {absent}] : n \in 0..2} :
              \A i, j \in DOMAIN s : s[i] = s[j] => i = j}
=============================================================================
