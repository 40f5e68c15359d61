--------------------------- MODULE SdkPreferences ---------------------------
(***************************************************************************)
(* The preferences a plugin holds (lua/workpane/preferences.lua) over the  *)
(* PreferenceStore of the host.  The SDK keeps a copy of each document,    *)
(* with a revision of its own, and commits or takes back a write when the  *)
(* answer of the host reaches it, later than the host did.  Rules, the     *)
(* keys of a document and its watchers are left out: set, update and reset *)
(* each write the whole document.                                          *)
(***************************************************************************)
EXTENDS PreferenceStore

VARIABLES
    copies,   \* the state of the store a plugin holds of an owner, or None
    replies   \* answers of the host on their way to Lua

sdk == <<copies, replies>>
sdkVars == <<storeVars, sdk>>

Copy == [values : Documents \cup {Empty}, committed : Documents \cup {Empty}, revision : Nat,
         asked : [Work -> Nat], raced : BOOLEAN]

ASSUME CopyAssumption == None \notin Copy

SdkInit == StoreInit /\ copies = [o \in Owners |-> None] /\ replies = <<>>

\* preferences.define: the document the host shows is taken for the committed one, also
\* while a write of the plugin before its restart is not answered (raced, for the properties).
Define(o) ==
    /\ Serving
    /\ PluginOf[o] \in registered /\ copies[o] = None
    /\ copies' = [copies EXCEPT ![o] = [values |-> EntryOf(o).current, committed |-> EntryOf(o).current,
                                        revision |-> 0, asked |-> [w \in Work |-> 0], raced |-> Open(o) # {}]]
    /\ UNCHANGED <<storeVars, replies>>

\* The copy takes the document and counts the write.
Changed(copy, w, document) ==
    LET revision == copy.revision + 1
    IN  [copy EXCEPT !.values = document, !.revision = revision, !.asked[w] = revision]

\* Store:set, update and reset: the copy changes and the host is asked at once.
Set(w, o, document) ==
    /\ copies[o] # None /\ document # copies[o].values
    /\ Write(w, o, document)
    /\ copies' = [copies EXCEPT ![o] = Changed(@, w, document)]
    /\ UNCHANGED replies

\* preferences.forget: the plugin is gone, and what it was still to be answered ends nowhere.
Forget(p) ==
    /\ Withdraw(p)
    /\ copies' = [o \in Owners |-> IF PluginOf[o] = p THEN None ELSE copies[o]]
    /\ UNCHANGED replies

\* The host completes a write and posts its answer.
Complete ==
    /\ DeliverRequest
    /\ replies' = IF request[Head(ready).work].kind = "write" THEN Append(replies, Head(ready)) ELSE replies
    /\ UNCHANGED copies

\* Mutant of Heard: every failure takes the copy back.
HeardTakesBack(copy, w, succeeded) ==
    IF succeeded THEN [copy EXCEPT !.committed = request[w].document, !.raced = FALSE]
    ELSE [copy EXCEPT !.values = copy.committed]

\* persist(): the answer commits what was written, or takes it back if nothing was written since.
Heard(copy, w, succeeded) ==
    CASE succeeded -> [copy EXCEPT !.committed = request[w].document, !.raced = FALSE]
      [] ~succeeded /\ copy.asked[w] = copy.revision -> [copy EXCEPT !.values = copy.committed]
      [] OTHER -> copy

Hear ==
    /\ Serving /\ replies # <<>>
    /\ replies' = Tail(replies)
    /\ LET w == Head(replies).work
           o == request[w].owner
       IN  copies' = IF copies[o] = None \/ copies[o].asked[w] = 0 THEN copies
                     ELSE [copies EXCEPT ![o] = Heard(@, w, Head(replies).outcome = "success")]
    /\ UNCHANGED storeVars

\* What the SDK has no part in: the documents of the core are written without it.
Elsewhere ==
    /\ \/ \E w \in Work, o \in Owners, document \in Documents : PluginOf[o] = CoreOwner /\ Write(w, o, document)
       \/ \E w \in Work, p \in Plugins : Erase(w, p)
       \/ \E p \in Plugins : Register(p)
       \/ \E outcome \in Outcomes : FinishRequest(outcome)
       \/ Carry
    /\ UNCHANGED sdk

SdkNext ==
    \/ \E o \in Owners : Define(o)
    \/ \E w \in Work, o \in Owners, document \in Documents : Set(w, o, document)
    \/ \E p \in Plugins : Forget(p)
    \/ Complete \/ Hear \/ Elsewhere

SdkSpec == SdkInit /\ [][SdkNext]_sdkVars

-----------------------------------------------------------------------------
(* Properties.                                                             *)

SdkTypeOK ==
    /\ StoreTypeOK
    /\ copies \in [Owners -> Copy \cup {None}]
    /\ replies \in Seq(Answers)

Coming(o) == {i \in DOMAIN replies : request[replies[i].work].owner = o}

\* "Only the failure of the latest revision puts the committed document back, as the host
\* does": a plugin reads what the host would answer and goes back to what the host would go
\* back to, except for answers on their way, however writes, answers and restarts overlap;
\* only a store defined over an open write may differ until its next write succeeds.
CopyFollows ==
    \A o \in Owners : copies[o] # None /\ ~copies[o].raced /\ Coming(o) = {} =>
        /\ copies[o].values = EntryOf(o).current
        /\ copies[o].committed = EntryOf(o).committed

\* Memory, database and the copies of the plugins agree once all is answered and heard.
AllSettle == SdkTypeOK /\ Settles /\ CopyFollows
=============================================================================
