----------------------------- MODULE MCHttpHost -----------------------------
(***************************************************************************)
(* Instances of HttpHost: two servers of two plugins.                      *)
(***************************************************************************)
EXTENDS HttpHost

CONSTANTS server1, server2, plugin1, plugin2

OwnerOfEach == (server1 :> plugin1) @@ (server2 :> plugin2)

\* The first is asked twice, so that requests share a batch or follow one.
AskedOfEach == (server1 :> 2) @@ (server2 :> 0)
=============================================================================
