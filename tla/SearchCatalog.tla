---------------------------- MODULE SearchCatalog ----------------------------
(***************************************************************************)
(* What ingestion promises to those who search, with no trace of tables,   *)
(* index files, generations, crashes or rebuilds.  A workspace has a set   *)
(* of published documents that grows by one whole document at a time and   *)
(* never shrinks.  Whenever the server answers searches at all, the text   *)
(* index and the graph of a workspace have every chunk of its published    *)
(* documents, the vector index those that were embedded under the profile  *)
(* the server runs with, and none has a chunk of another document.  The    *)
(* promise is to workspaces whose joined ids are their own.                *)
(***************************************************************************)
CONSTANTS Documents, Scopes

VARIABLES
  published,  \* published[s]: the documents a search of s is about
  online,     \* whether searches are being answered
  found,      \* found[s]: documents of which a search of s can return a chunk
  complete    \* complete[s]: those of which no index lacks a chunk that is to be in it

catalogVars == <<published, online, found, complete>>

Nothing == [s \in Scopes |-> {}]

CatalogInit ==
  /\ published = Nothing
  /\ online = TRUE
  /\ found = Nothing
  /\ complete = Nothing

\* A document is published while no search is being answered.
Publish(s, d) ==
  /\ ~online
  /\ \A t \in Scopes : d \notin published[t]
  /\ published' = [published EXCEPT ![s] = @ \cup {d}]
  /\ UNCHANGED <<online, found, complete>>

GoOffline ==
  /\ online
  /\ online' = FALSE
  /\ found' = Nothing
  /\ complete' = Nothing
  /\ UNCHANGED published

GoOnline ==
  /\ ~online
  /\ online' = TRUE
  /\ found' = published
  /\ complete' = published
  /\ UNCHANGED published

CatalogNext ==
  \/ \E s \in Scopes, d \in Documents : Publish(s, d)
  \/ GoOffline
  \/ GoOnline

\* Searches are answered again and again, whatever interrupts them.
CatalogSpec == CatalogInit /\ [][CatalogNext]_catalogVars /\ []<>online
==============================================================================
