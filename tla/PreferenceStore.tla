-------------------------- MODULE PreferenceStore --------------------------
(***************************************************************************)
(* The preference documents:  persistence/PreferenceStore and the part of  *)
(* scripting/StorageHost that writes and erases them, composed with the    *)
(* DatabaseExecutor.  A write is shown to every reader at once and stored  *)
(* in the background; its completion commits it in memory, or takes it     *)
(* back.  Each step of this module is a step of the executor, or leaves    *)
(* the executor alone.                                                     *)
(*                                                                         *)
(* An owner is one document: that of the core, the first document of a     *)
(* plugin or a further one.                                                *)
(***************************************************************************)
EXTENDS DatabaseExecutor

CONSTANTS
    Owners, Plugins, CoreOwner,
    PluginOf,     \* the plugin, or CoreOwner, each owner belongs to
    Documents,    \* what is written
    Empty         \* the empty document, which an owner without a row has

ASSUME StoreAssumption ==
    /\ CoreOwner \notin Plugins
    /\ PluginOf \in [Owners -> Plugins \cup {CoreOwner}]
    /\ Empty \notin Documents
    /\ None \notin Plugins \cup Documents \cup {CoreOwner, Empty}

VARIABLES
    request,     \* what each work does on the worker and when it is answered
    table,       \* the rows of core_settings, None where there is none
    entries,     \* m_entries, None where there is no entry
    registered,  \* the plugins the registry holds
    changing     \* the plugin whose data the change in progress erases, or None

store == <<request, table, entries, registered, changing>>
storeVars == <<vars, store>>

Entry == [current : Documents \cup {Empty}, committed : Documents \cup {Empty}, revision : Nat]
Requests == [kind : {"write"}, owner : Owners, document : Documents, revision : Nat]
                \cup [kind : {"erase"}, plugin : Plugins]

ASSUME EntryAssumption == None \notin Entry

NewEntry == [current |-> Empty, committed |-> Empty, revision |-> 0]
EntryOf(o) == IF entries[o] = None THEN NewEntry ELSE entries[o]
Stored(o) == IF table[o] = None THEN Empty ELSE table[o]

\* load(): every row becomes an entry.
StoreInit ==
    /\ Init
    /\ request = [w \in Work |-> None]
    /\ table \in [Owners -> Documents \cup {None}]
    /\ entries = [o \in Owners |-> IF table[o] = None THEN None
                                   ELSE [current |-> table[o], committed |-> table[o], revision |-> 0]]
    /\ registered = {} /\ changing = None

\* The interface thread serves calls of Lua between two drains.
Serving == stopper = "serving" /\ ready = <<>>

-----------------------------------------------------------------------------
(* The host calls.                                                         *)

\* writePreferences and write(): an owner whose plugin is not registered is
\* refused.
Write(w, o, document) ==
    /\ Serving
    /\ PluginOf[o] \in registered \cup {CoreOwner}
    /\ Submit(w)
    /\ LET revision == EntryOf(o).revision + 1
       IN  /\ entries' = [entries EXCEPT ![o] = [current |-> document, revision |-> revision,
                                                 committed |-> EntryOf(o).committed]]
           /\ request' = [request EXCEPT ![w] = [kind |-> "write", owner |-> o,
                                                 document |-> document, revision |-> revision]]
    /\ UNCHANGED <<table, registered, changing>>

\* Mutant of Erase: the documents are forgotten before the database answers.
EraseAtOnce(w, p) ==
    /\ Serving
    /\ changing = None /\ p \notin registered
    /\ Submit(w)
    /\ changing' = p
    /\ request' = [request EXCEPT ![w] = [kind |-> "erase", plugin |-> p]]
    /\ entries' = [o \in Owners |-> IF PluginOf[o] = p THEN None ELSE entries[o]]
    /\ UNCHANGED <<table, registered>>

\* erasePluginData, which only the change of the plugins in progress asks for.
Erase(w, p) ==
    /\ Serving
    /\ changing = None /\ p \notin registered
    /\ Submit(w)
    /\ changing' = p
    /\ request' = [request EXCEPT ![w] = [kind |-> "erase", plugin |-> p]]
    /\ UNCHANGED <<table, entries, registered>>

\* A plugin starts or is withdrawn, each a change of its own.
Register(p) ==
    /\ Serving
    /\ changing = None /\ p \notin registered
    /\ registered' = registered \cup {p}
    /\ UNCHANGED <<vars, request, table, entries, changing>>

Withdraw(p) ==
    /\ Serving
    /\ changing = None /\ p \in registered
    /\ registered' = registered \ {p}
    /\ UNCHANGED <<vars, request, table, entries, changing>>

-----------------------------------------------------------------------------
(* The work on the worker: store() and PluginDatabase::erase are each one  *)
(* transaction, so a failure leaves the rows as they were.                 *)

Rows(asked) ==
    [o \in Owners |->
        CASE asked.kind = "write" /\ asked.owner = o -> asked.document
          [] asked.kind = "erase" /\ asked.plugin = PluginOf[o] -> None
          [] OTHER -> table[o]]

\* The worker ends the work it holds.
FinishRequest(outcome) ==
    /\ Finish(outcome)
    /\ table' = IF outcome = "success" THEN Rows(request[held]) ELSE table
    /\ UNCHANGED <<request, entries, registered, changing>>

-----------------------------------------------------------------------------
(* The completions, on the interface thread.                               *)

\* Mutant of Written: every failure takes the document back.
WrittenTakesBack(asked, succeeded) ==
    LET entry == EntryOf(asked.owner)
    IN  [entries EXCEPT ![asked.owner] =
            IF succeeded THEN [entry EXCEPT !.committed = asked.document]
            ELSE [entry EXCEPT !.current = entry.committed]]

\* Mutant of Written: only the latest write is committed.
WrittenLatest(asked, succeeded) ==
    LET entry == EntryOf(asked.owner)
    IN  [entries EXCEPT ![asked.owner] =
            CASE asked.revision # entry.revision -> entry
              [] asked.revision = entry.revision /\ succeeded -> [entry EXCEPT !.committed = asked.document]
              [] asked.revision = entry.revision /\ ~succeeded -> [entry EXCEPT !.current = entry.committed]]

\* The document is committed, or the committed one comes back if this is still
\* the latest write.
Written(asked, succeeded) ==
    LET entry == EntryOf(asked.owner)
    IN  [entries EXCEPT ![asked.owner] =
            CASE succeeded -> [entry EXCEPT !.committed = asked.document]
              [] ~succeeded /\ asked.revision = entry.revision -> [entry EXCEPT !.current = entry.committed]
              [] ~succeeded /\ asked.revision # entry.revision -> entry]

\* discard(): what belongs to the plugin is forgotten.
Discarded(p) == [o \in Owners |-> IF PluginOf[o] = p THEN None ELSE entries[o]]

\* discard(), after an erase that succeeded.
Erased(p, succeeded) == IF succeeded THEN Discarded(p) ELSE entries

DeliverRequest ==
    /\ Deliver
    /\ LET asked == request[Head(ready).work]
           succeeded == Head(ready).outcome = "success"
       IN  IF asked.kind = "write"
           THEN /\ entries' = Written(asked, succeeded)
                /\ UNCHANGED changing
           ELSE /\ entries' = Erased(asked.plugin, succeeded)
                /\ changing' = None
    /\ UNCHANGED <<request, table, registered>>

\* The steps of the executor that touch no document.
Carry ==
    /\ Take \/ Leave \/ Drain \/ BeginShutdown \/ Drained \/ Interrupt \/ Close \/ LastDrain
    /\ UNCHANGED store

StoreNext ==
    \/ \E w \in Work, o \in Owners, document \in Documents : Write(w, o, document)
    \/ \E w \in Work, p \in Plugins : Erase(w, p)
    \/ \E p \in Plugins : Register(p) \/ Withdraw(p)
    \/ \E outcome \in Outcomes : FinishRequest(outcome)
    \/ DeliverRequest
    \/ Carry

StoreSpec == StoreInit /\ [][StoreNext]_storeVars

-----------------------------------------------------------------------------
(* Properties.                                                             *)

\* Every variable of the store has its type.
StoreTypeOK ==
    /\ request \in [Work -> Requests \cup {None}]
    /\ table \in [Owners -> Documents \cup {None}]
    /\ entries \in [Owners -> Entry \cup {None}]
    /\ registered \in SUBSET Plugins
    /\ changing \in Plugins \cup {None}

Concerns(w, o) ==
    \/ request[w].kind = "write" /\ request[w].owner = o
    \/ request[w].kind = "erase" /\ request[w].plugin = PluginOf[o]

\* The accepted requests that concern an owner, and those not answered yet.
Asked(o) == {i \in 1..Len(accepted) : Concerns(accepted[i], o)}
Open(o) == {i \in Asked(o) : i > Len(answered)}

\* A reader sees what was written last from the moment it is written, whatever
\* becomes of the writes before it: as long as the latest write of an owner is
\* not answered, its document is the current one.
LatestShown ==
    \A o \in Owners : \A i \in Open(o) :
        (request[accepted[i]].kind = "write" /\ \A j \in Open(o) : j <= i)
            => EntryOf(o).current = request[accepted[i]].document

\* Once every request of an owner is answered, memory and database agree: what
\* readers see, what was committed and what the next start loads are one.
Settles ==
    \A o \in Owners : Open(o) = {} =>
        EntryOf(o).current = Stored(o) /\ EntryOf(o).committed = Stored(o)

Undelivered == ready \o posted
Effects(o) == {i \in 1..Len(Undelivered) :
                 Undelivered[i].outcome = "success" /\ Concerns(Undelivered[i].work, o)}

\* What a crash at any moment leaves: the row of an owner is the committed
\* document, or the effect of the newest success not delivered yet.  So a
\* write that was answered with success survives every crash that follows.
RowsExplained ==
    \A o \in Owners :
        /\ Effects(o) = {} => Stored(o) = EntryOf(o).committed
        /\ \A i \in Effects(o) : (\A j \in Effects(o) : j <= i) =>
              LET asked == request[Undelivered[i].work]
              IN  Stored(o) = IF asked.kind = "write" THEN asked.document ELSE Empty
=============================================================================
