------------------------- MODULE MCPluginLifecycle -------------------------
(***************************************************************************)
(* Instances of PluginLifecycle: base, mid (which needs base) and top,     *)
(* found in the order top, mid, base so the order of starting matters.     *)
(***************************************************************************)
EXTENDS PluginLifecycle

CONSTANTS base, mid, top, click1, click2, absent

MCPlugins == {base, mid, top}
MCDiscovered == <<top, mid, base>>

On(b, m, t) == [p \in MCPlugins |-> CASE p = base -> b [] p = mid -> m [] p = top -> t]

\* A chain: top needs mid, which needs base.
Chain == On(<<>>, <<base>>, <<mid>>)
\* The author breaks mid and mends it again.
BrokenMid == On({}, {Unreadable, <<base>>}, {})
\* The author makes mid need top, which needs it, or a plugin nobody installed.
Rewired == On({}, {<<top>>, <<absent>>}, {})
\* top names a plugin nobody installed, until its author names mid instead.
Stray == On(<<>>, <<base>>, <<absent>>)
MendedTop == On({}, {}, {<<mid>>})

MCClicks == {click1, click2}
=============================================================================
