---------------------------- MODULE GraphRetrieval ----------------------------
(***************************************************************************)
(* The keyword graph of canonical.redb and the search over it.             *)
(*                                                                         *)
(* A text is abstracted to the terms the extractor finds in it.  Terms of  *)
(* one chunk co-occur: the pair is an edge of the workspace, and the chunk *)
(* is evidence of it.  Edges are named by the ordered pair of their terms, *)
(* so here by a set of two.                                                *)
(*                                                                         *)
(* A search holds the mutex from end to end, so the tables do not change   *)
(* under it; it is taken edge by edge because its budgets are.  Edges are  *)
(* met in the order of their identifiers, which are hashes: in any order.  *)
(***************************************************************************)
EXTENDS Naturals, FiniteSets, SequencesExt

CONSTANTS
  Workspaces,  \* no two have the same joined ids (see Materialized in Ingestion)
  NoWorkspace,
  Chunks,
  Terms,
  MaxTerms,   \* MAX_ENTITIES_PER_CHUNK
  MaxHops,    \* GRAPH_MAX_HOPS
  MaxEdges,   \* GRAPH_MAX_TRAVERSED_EDGES
  MaxLimit    \* the largest number of results asked for

ASSUME WorkspacesAssumption == NoWorkspace \notin Workspaces
\* A database holds finitely many chunks; terms are parts of texts, whose
\* length is limited.
ASSUME FinitenessAssumption == IsFiniteSet(Chunks) /\ IsFiniteSet(Terms)
ASSUME BudgetsAssumption == {MaxTerms, MaxHops, MaxEdges, MaxLimit} \subseteq Nat \ {0}

VARIABLES
  chunks,     \* rows of CHUNKS and GRAPH_MANIFESTS, by chunk
  entities,   \* GRAPH_ENTITIES: <<workspace, term>>
  edges,      \* GRAPH_EDGES: <<workspace, pair of terms>>
  evidence,   \* GRAPH_EDGE_EVIDENCE: <<edge, chunk>>
  search,     \* the search that holds the mutex, or the last one
  frontier,   \* entities still to expand, with their hops
  here,       \* the entity being expanded
  left,       \* its edges that are still to follow
  visited,    \* hops of the entities met
  best,       \* least hops of the chunks met
  traversed   \* edges followed

tables == <<chunks, entities, edges, evidence>>
traversal == <<frontier, here, left, visited, best, traversed>>
vars == <<chunks, entities, edges, evidence, search, frontier, here, left, visited, best, traversed>>

Texts == {terms \in SUBSET Terms : Cardinality(terms) <= MaxTerms}
Pairs == {pair \in SUBSET Terms : Cardinality(pair) = 2}
Chunk == [state : {"none", "pending", "ready"}, workspace : Workspaces \cup {NoWorkspace}, terms : Texts]
Blank == [state |-> "none", workspace |-> NoWorkspace, terms |-> {}]

Idle == [phase |-> "idle", workspace |-> NoWorkspace, terms |-> {}, hops |-> 1, limit |-> 1, found |-> {}]
Nowhere == [entity |-> <<>>, hops |-> 0]
None == [x \in {} |-> 0]

ClearedTraversal ==
  /\ frontier' = <<>>
  /\ left' = {}
  /\ here' = Nowhere
  /\ visited' = None
  /\ best' = None
  /\ traversed' = 0

Init ==
  /\ chunks = [c \in Chunks |-> Blank]
  /\ entities = {}
  /\ edges = {}
  /\ evidence = {}
  /\ search = Idle
  /\ frontier = <<>>
  /\ left = {}
  /\ here = Nowhere
  /\ visited = None
  /\ best = None
  /\ traversed = 0

Unlocked == search.phase = "idle"

-----------------------------------------------------------------------------
\* The first transaction of a run: chunk and manifest, which is pending.  A
\* later run of the document writes them again.
PrepareChunk(c, w, terms) ==
  /\ Unlocked
  /\ chunks[c] = Blank
  /\ chunks' = [chunks EXCEPT ![c] = [state |-> "pending", workspace |-> w, terms |-> terms]]
  /\ UNCHANGED <<entities, edges, evidence, search, traversal>>

\* extract: every two terms of a text are related.
RelationsOf(c) == {<<chunks[c].workspace, pair>> : pair \in (SUBSET chunks[c].terms) \cap Pairs}
EntitiesOf(c) == {<<chunks[c].workspace, term>> : term \in chunks[c].terms}

Bug_EvidenceOfNewEdges(set, known) ==
  {x \in ((UNION {RelationsOf(c) : c \in set}) \ known) \X set : x[1] \in RelationsOf(x[2])}

\* Each chunk is evidence of all its edges, those that exist already included.
EvidenceOf(set, known) ==
  {x \in (UNION {RelationsOf(c) : c \in set}) \X set : x[1] \in RelationsOf(x[2])}

\* materialize_graph_chunks after the tables keep what is given.
Materialize(set, keptEntities, keptEdges, keptEvidence) ==
  /\ entities' = keptEntities \cup UNION {EntitiesOf(c) : c \in set}
  /\ edges' = keptEdges \cup UNION {RelationsOf(c) : c \in set}
  /\ evidence' = keptEvidence \cup EvidenceOf(set, keptEdges)

\* The second transaction of a run: the graph and the visibility of the chunk.
PublishChunk(c) ==
  /\ Unlocked
  /\ chunks[c].state = "pending"
  /\ chunks' = [chunks EXCEPT ![c].state = "ready"]
  /\ Materialize({c}, entities, edges, evidence)
  /\ UNCHANGED <<search, traversal>>

ReadyGraphChunks(w) == {c \in Chunks : chunks[c].workspace = w /\ chunks[c].state = "ready"}

\* rebuild_graph_workspace: clear_graph_workspace and materialize, in one
\* transaction, at boot or for an owner.
RebuildGraph(w) ==
  /\ Unlocked
  /\ Materialize(ReadyGraphChunks(w),
       {e \in entities : e[1] # w}, {e \in edges : e[1] # w}, {x \in evidence : x[1][1] # w})
  /\ UNCHANGED <<chunks, search, traversal>>

-----------------------------------------------------------------------------
Clamp(hops) == IF hops < 1 THEN 1 ELSE IF hops > MaxHops THEN MaxHops ELSE hops

Seeds(w, terms) == {e \in entities : e[1] = w /\ e[2] \in terms}

\* A search starts from the entities its query names, in some order.
RetrieveGraph(w, terms, limit, hops) ==
  /\ Unlocked
  /\ terms # {}
  /\ search' = [phase |-> "walking", workspace |-> w, terms |-> terms,
                hops |-> Clamp(hops), limit |-> limit, found |-> {}]
  /\ \E seeds \in SetToSeqs(Seeds(w, terms)) :
       frontier' = [i \in DOMAIN seeds |-> [entity |-> seeds[i], hops |-> 0]]
  /\ visited' = [e \in Seeds(w, terms) |-> 0]
  /\ UNCHANGED <<tables, here, left, best, traversed>>

Bug_OneHopMore(hops) == hops <= search.hops /\ traversed < MaxEdges

\* An entity at the last hop, or after the last edge, is not expanded.
Expands(hops) == hops < search.hops /\ traversed < MaxEdges

PopFrontier ==
  /\ search.phase = "walking"
  /\ left = {} /\ frontier # <<>>
  /\ here' = Head(frontier)
  /\ frontier' = Tail(frontier)
  /\ left' = IF Expands(Head(frontier).hops)
             THEN {e \in edges : e[1] = search.workspace /\ Head(frontier).entity[2] \in e[2]}
             ELSE {}
  /\ UNCHANGED <<tables, search, visited, best, traversed>>

\* An entity is expanded again only when it is met by a shorter way.
Improves(entity, hops) == entity \in DOMAIN visited => hops < visited[entity]

Closer(c, hops) == c \in DOMAIN best => hops < best[c]

OtherEnd(e) == CHOOSE x \in entities : x[1] = e[1] /\ x[2] \in e[2] /\ x # here.entity

FollowEdge(e) ==
  LET next == OtherEnd(e)
      hops == here.hops + 1
      met == {c \in Chunks : <<e, c>> \in evidence /\ Closer(c, hops)}
  IN
  /\ search.phase = "walking"
  /\ e \in left
  /\ traversed' = traversed + 1
  /\ IF Improves(next, hops)
     THEN /\ visited' = [x \in DOMAIN visited \cup {next} |-> IF x = next THEN hops ELSE visited[x]]
          /\ frontier' = Append(frontier, [entity |-> next, hops |-> hops])
     ELSE UNCHANGED <<visited, frontier>>
  /\ best' = [c \in DOMAIN best \cup met |-> IF c \in met THEN hops ELSE best[c]]
  /\ left' = IF traversed + 1 >= MaxEdges THEN {} ELSE left \ {e}
  /\ UNCHANGED <<tables, search, here>>

\* The least n of a set of chunks by hops; ties fall by identifier: any way.
AreNearest(few, set, n) ==
  /\ few \subseteq set
  /\ Cardinality(few) = IF Cardinality(set) < n THEN Cardinality(set) ELSE n
  /\ \A c \in few, x \in set \ few : best[c] <= best[x]

\* Candidates by score, which is a constant over the hops, the ready ones
\* among the first 4 * limit, and of those the first limit.
Answer ==
  /\ search.phase = "walking"
  /\ left = {} /\ frontier = <<>>
  /\ \E candidates \in SUBSET DOMAIN best :
       /\ AreNearest(candidates, DOMAIN best, 4 * search.limit)
       /\ \E results \in SUBSET (candidates \cap ReadyGraphChunks(search.workspace)) :
            /\ AreNearest(results, candidates \cap ReadyGraphChunks(search.workspace), search.limit)
            /\ search' = [search EXCEPT !.phase = "answered",
                                        !.found = {<<c, best[c]>> : c \in results}]
  /\ UNCHANGED <<tables, traversal>>

Return ==
  /\ search.phase = "answered"
  /\ search' = Idle
  /\ ClearedTraversal
  /\ UNCHANGED tables

Next ==
  \/ \E c \in Chunks, w \in Workspaces, terms \in Texts : PrepareChunk(c, w, terms)
  \/ \E c \in Chunks : PublishChunk(c)
  \/ \E w \in Workspaces : RebuildGraph(w)
  \/ \E w \in Workspaces, terms \in Texts, limit \in 1..MaxLimit, hops \in 0..(MaxHops + 1) :
       RetrieveGraph(w, terms, limit, hops)
  \/ PopFrontier
  \/ \E e \in edges : FollowEdge(e)
  \/ Answer
  \/ Return

Spec == Init /\ [][Next]_vars

-----------------------------------------------------------------------------
TypeOK ==
  /\ chunks \in [Chunks -> Chunk]
  /\ entities \subseteq Workspaces \X Terms
  /\ edges \subseteq Workspaces \X Pairs
  /\ evidence \subseteq (Workspaces \X Pairs) \X Chunks
  /\ search \in [phase : {"idle", "walking", "answered"}, workspace : Workspaces \cup {NoWorkspace},
                 terms : Texts, hops : 1..MaxHops, limit : Nat \ {0}, found : SUBSET (Chunks \X Nat)]
  /\ DOMAIN visited \subseteq entities
  /\ visited \in [DOMAIN visited -> Nat]
  /\ DOMAIN best \subseteq Chunks
  /\ best \in [DOMAIN best -> Nat]
  /\ left \subseteq edges
  /\ traversed \in 0..MaxEdges

\* The tables are what the ready chunks say: every entity, every edge, and
\* every chunk of every edge, of every workspace, however often rebuilt.
GraphFollowsChunks ==
  LET ready == {c \in Chunks : chunks[c].state = "ready"} IN
  /\ entities = UNION {EntitiesOf(c) : c \in ready}
  /\ edges = UNION {RelationsOf(c) : c \in ready}
  /\ evidence = {x \in edges \X ready : x[1] \in RelationsOf(x[2])}

GraphInv == TypeOK /\ GraphFollowsChunks

\* What a search should find, from the texts alone: terms within some hops of
\* the query, and the hops of a chunk, which are one more than those of the
\* nearest of its terms.
ReadyTexts(w) == {chunks[c].terms : c \in ReadyGraphChunks(w)}

Around(texts, terms) ==
  LET Reach[n \in Nat] ==
        IF n = 0 THEN terms
        ELSE Reach[n - 1] \cup UNION {t \in texts : t \cap Reach[n - 1] # {}}
  IN Reach

TermsWithin(w, terms) == Around(ReadyTexts(w), terms)

FoundAt(c, n) ==
  /\ Cardinality(chunks[c].terms) > 1
  /\ chunks[c].terms \cap TermsWithin(search.workspace, search.terms)[n - 1] # {}

IsHops(c, n) ==
  /\ c \in ReadyGraphChunks(search.workspace)
  /\ FoundAt(c, n)
  /\ n = 1 \/ ~FoundAt(c, n - 1)

\* A search answers with the nearest chunks of its workspace and with their
\* true distances.  What the edge budget cuts off is never nearer than what is
\* answered; without the cut, the answer is full.
AnswersAreNearest ==
  search.phase = "answered" =>
    LET inRange == {c \in Chunks : \E n \in 1..search.hops : IsHops(c, n)}
        found == {r[1] : r \in search.found}
    IN
    /\ \A r \in search.found : r[1] \in inRange /\ IsHops(r[1], r[2])
    /\ \A r \in search.found, c \in inRange \ found, n \in 1..search.hops :
         IsHops(c, n) => r[2] <= n
    /\ traversed < MaxEdges =>
         Cardinality(found) = Min({Cardinality(inRange), search.limit})

\* Cycles cost nothing: an edge is followed at most once from each end, so
\* searches end, and the edge budget goes to edges that are new.
EdgesAreFollowedTwice ==
  traversed <= 2 * Cardinality({e \in edges : e[1] = search.workspace})

-----------------------------------------------------------------------------
\* What the proofs add: why a walk finds what is nearest.

\* Between searches nothing is left of the last one.
IdleIsClear ==
  search.phase = "idle" =>
    /\ search = Idle /\ frontier = <<>> /\ left = {} /\ here = Nowhere
    /\ visited = None /\ best = None /\ traversed = 0

ChunksHaveWorkspaces == \A c \in Chunks : chunks[c].state # "none" => chunks[c].workspace \in Workspaces

EdgesHere == {e \in edges : e[1] = search.workspace}
Near(n) == TermsWithin(search.workspace, search.terms)[n]
IsAway(term, n) == term \in Near(n) /\ (n > 0 => term \notin Near(n - 1))

Waiting == {frontier[i].entity : i \in DOMAIN frontier}

\* The entities that were taken from the frontier, with the edges followed
\* from each: all it has, but for those still left here.
Expanded == DOMAIN visited \ Waiting
Followed(e, x) == e[1] = search.workspace /\ x[2] \in e[2] /\ ~(x = here.entity /\ e \in left)
Follows == {p \in edges \X Expanded : Followed(p[1], p[2])}

\* The frontier is a queue of entities by hops, each there once and none nearer
\* than the one being expanded or more than a hop farther.
FrontierIsOrdered ==
  /\ frontier \in Seq([entity : DOMAIN visited, hops : Nat])
  /\ here.hops \in Nat
  /\ \A i \in DOMAIN frontier :
       /\ frontier[i].hops = visited[frontier[i].entity]
       /\ here.hops <= frontier[i].hops /\ frontier[i].hops <= here.hops + 1
       /\ \A k \in DOMAIN frontier : i < k =>
            frontier[i].hops <= frontier[k].hops /\ frontier[i].entity # frontier[k].entity
  /\ here = Nowhere \/ (here.entity \in Expanded /\ visited[here.entity] = here.hops)
  /\ \A e \in left :
       /\ e \in EdgesHere /\ here.entity[2] \in e[2]
       /\ here # Nowhere /\ Expands(here.hops)

\* Entities are met at their distance, and all of them up to that of the one
\* being expanded, as long as there are edges to spend.
DistancesAreTrue ==
  /\ \A x \in DOMAIN visited :
       x[1] = search.workspace /\ visited[x] <= search.hops /\ IsAway(x[2], visited[x])
  /\ traversed < MaxEdges =>
       \A x \in entities : x[1] = search.workspace /\ x[2] \in Near(here.hops) => x \in DOMAIN visited

\* An entity below the last hop passes on, when it is expanded, to the other
\* ends of its edges and to their chunks.
ExpandedIsPassedOn ==
  traversed < MaxEdges =>
    \A x \in Expanded, e \in edges : visited[x] < search.hops /\ Followed(e, x) =>
      /\ \A y \in entities : y[1] = e[1] /\ y[2] \in e[2] => y \in DOMAIN visited
      /\ \A c \in Chunks : <<e, c>> \in evidence => c \in DOMAIN best

\* Chunks are met at their distance, and the nearest first.
ChunksAreNearest ==
  /\ \A c \in DOMAIN best : IsHops(c, best[c]) /\ best[c] <= here.hops + 1 /\ best[c] \in 1..search.hops
  /\ \A c \in DOMAIN best, x \in Chunks \ DOMAIN best, n \in 1..search.hops :
       IsHops(x, n) => best[c] <= n

EdgesArePaired == traversed <= Cardinality(Follows)

WalkInv ==
  search.phase = "walking" =>
    /\ search.workspace \in Workspaces
    /\ FrontierIsOrdered
    /\ DistancesAreTrue
    /\ ExpandedIsPassedOn
    /\ ChunksAreNearest
    /\ EdgesArePaired

\* The inductive invariant.
RetrievalInv ==
  /\ GraphInv
  /\ IdleIsClear
  /\ ChunksHaveWorkspaces
  /\ WalkInv
  /\ EdgesAreFollowedTwice
  /\ AnswersAreNearest
=============================================================================
