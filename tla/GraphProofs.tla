----------------------------- MODULE GraphProofs -----------------------------
(***************************************************************************)
(* A search over the keyword graph finds what is nearest, for any number   *)
(* of workspaces, chunks and terms and for all budgets: RetrievalInv is    *)
(* inductive.  The distances are those of the recursive function Around,   *)
(* which is shown to be the terms at the ends of paths through texts.      *)
(***************************************************************************)
EXTENDS GraphRetrieval, FiniteSetTheorems, TLAPS

-----------------------------------------------------------------------------
(* Distances.                                                              *)

\* A set of numbers that is not empty has a least one.
LEMMA LeastNumber ==
  ASSUME NEW Bad \in SUBSET Nat, Bad # {}
  PROVE  \E n \in Bad : \A m \in Bad : n <= m
<1>1. PICK n \in Bad : \A m \in Bad : ~(<<m, n>> \in OpToRel(<, Nat))
  BY NatLessThanWellFounded, WFMin
<1>2. ASSUME NEW m \in Bad PROVE n <= m
  <2>1. ~(m < n)
    BY <1>1 DEF OpToRel
  <2> QED  BY <2>1
<1> QED  BY <1>2

\* The recursion of Around, which has a solution: the ends of paths of some
\* length that start in terms and whose every two neighbours share a text.
LEMMA AroundUnfolds ==
  ASSUME NEW texts \in SUBSET SUBSET Terms, NEW terms \in SUBSET Terms
  PROVE  /\ Around(texts, terms)[0] = terms
         /\ \A n \in Nat : Around(texts, terms)[n + 1] =
              Around(texts, terms)[n] \cup UNION {t \in texts : t \cap Around(texts, terms)[n] # {}}
<1> DEFINE Next1(u, v) == u = v \/ \E t \in texts : u \in t /\ v \in t
           Path(n, s) == s[0] \in terms /\ \A i \in 0..(n - 1) : Next1(s[i], s[i + 1])
           f == [n \in Nat |-> {v \in Terms : \E s \in [0..n -> Terms] : Path(n, s) /\ s[n] = v}]
           Solves(g) == g = [n \in Nat |-> IF n = 0 THEN terms
                               ELSE g[n - 1] \cup UNION {t \in texts : t \cap g[n - 1] # {}}]
<1>1. f[0] = terms
  <2>1. ASSUME NEW v \in terms PROVE v \in f[0]
    <3> DEFINE s == [i \in 0..0 |-> v]
    <3>1. s \in [0..0 -> Terms] /\ s[0] = v
      OBVIOUS
    <3> HIDE DEF s
    <3>2. Path(0, s)
      BY <3>1
    <3> QED  BY <3>1, <3>2
  <2>2. ASSUME NEW v \in f[0] PROVE v \in terms
    OBVIOUS
  <2> QED  BY <2>1, <2>2
<1>2. ASSUME NEW n \in Nat
      PROVE  f[n + 1] = f[n] \cup UNION {t \in texts : t \cap f[n] # {}}
  <2>1. ASSUME NEW u \in f[n], NEW v \in Terms, Next1(u, v) PROVE v \in f[n + 1]
    <3>1. PICK s \in [0..n -> Terms] : Path(n, s) /\ s[n] = u
      OBVIOUS
    <3> DEFINE r == [i \in 0..(n + 1) |-> IF i = n + 1 THEN v ELSE s[i]]
    <3>2. r \in [0..(n + 1) -> Terms] /\ r[n + 1] = v
      OBVIOUS
    <3>3. \A i \in 0..n : r[i] = s[i]
      OBVIOUS
    <3> HIDE DEF r
    <3>4. r[0] \in terms
      BY <3>1, <3>3
    <3>5. ASSUME NEW i \in 0..n PROVE Next1(r[i], r[i + 1])
      <4>1. CASE i = n
        BY <2>1, <3>1, <3>2, <3>3, <4>1
      <4>2. CASE i \in 0..(n - 1)
        <5> HIDE DEF Next1
        <5>1. r[i] = s[i] /\ r[i + 1] = s[i + 1]
          BY <3>3, <4>2
        <5>2. Next1(s[i], s[i + 1])
          BY <3>1, <4>2
        <5> QED  BY <5>1, <5>2
      <4> QED  BY <4>1, <4>2
    <3>6. Path(n + 1, r)
      BY <3>4, <3>5
    <3> HIDE DEF Path
    <3> QED  BY <3>2, <3>6
  <2>2. ASSUME NEW v \in f[n + 1] PROVE \E u \in f[n] : Next1(u, v)
    <3>1. PICK s \in [0..(n + 1) -> Terms] : Path(n + 1, s) /\ s[n + 1] = v
      OBVIOUS
    <3> DEFINE r == [i \in 0..n |-> s[i]]
    <3>2. r \in [0..n -> Terms] /\ \A i \in 0..n : r[i] = s[i]
      OBVIOUS
    <3> HIDE DEF r
    <3>3. Path(n, r)
      <4>1. r[0] \in terms
        BY <3>1, <3>2
      <4>2. ASSUME NEW i \in 0..(n - 1) PROVE Next1(r[i], r[i + 1])
        <5> HIDE DEF Next1
        <5>1. i \in 0..n /\ i + 1 \in 0..n /\ i \in 0..(n + 1 - 1)
          OBVIOUS
        <5>2. Next1(s[i], s[i + 1])
          BY <3>1, <5>1
        <5>3. r[i] = s[i] /\ r[i + 1] = s[i + 1]
          BY <3>2, <5>1
        <5> QED  BY <5>2, <5>3
      <4> QED  BY <4>1, <4>2
    <3>4. r[n] \in f[n]
      <4> HIDE DEF Path
      <4> QED  BY <3>2, <3>3
    <3>5. Next1(r[n], v)
      BY <3>1, <3>2
    <3> QED  BY <3>4, <3>5
  <2>3. f[n] \subseteq Terms /\ f[n + 1] \subseteq Terms
    OBVIOUS
  <2> HIDE DEF f
  <2>4. ASSUME NEW v \in f[n] \cup UNION {t \in texts : t \cap f[n] # {}}
        PROVE  v \in f[n + 1]
    BY <2>1, <2>3
  <2>5. ASSUME NEW v \in f[n + 1]
        PROVE  v \in f[n] \cup UNION {t \in texts : t \cap f[n] # {}}
    BY <2>2
  <2> QED  BY <2>4, <2>5
<1>3. Solves(f)
  <2>1. f = [n \in Nat |-> f[n]]
    OBVIOUS
  <2>2. ASSUME NEW n \in Nat
        PROVE  f[n] = IF n = 0 THEN terms
                      ELSE f[n - 1] \cup UNION {t \in texts : t \cap f[n - 1] # {}}
    <3> HIDE DEF f
    <3>1. CASE n = 0
      BY <1>1, <3>1
    <3>2. CASE n # 0
      <4>1. n - 1 \in Nat /\ (n - 1) + 1 = n
        BY <3>2
      <4> QED  BY <1>2, <3>2, <4>1
    <3> QED  BY <3>1, <3>2
  <2> HIDE DEF f
  <2> QED  BY <2>1, <2>2
<1> HIDE DEF f
<1>4. Around(texts, terms) = CHOOSE g : Solves(g)
  BY DEF Around
<1>5. Solves(Around(texts, terms))
  <2> HIDE DEF Solves
  <2> QED  BY <1>3, <1>4
<1> DEFINE a == Around(texts, terms)
<1>6. a = [n \in Nat |-> IF n = 0 THEN terms ELSE a[n - 1] \cup UNION {t \in texts : t \cap a[n - 1] # {}}]
  BY <1>5
<1> HIDE DEF a
<1>7. a[0] = terms
  BY <1>6
<1>8. ASSUME NEW n \in Nat PROVE a[n + 1] = a[n] \cup UNION {t \in texts : t \cap a[n] # {}}
  <2>1. n + 1 \in Nat /\ n + 1 # 0 /\ (n + 1) - 1 = n
    OBVIOUS
  <2> QED  BY <1>6, <2>1
<1> QED  BY <1>7, <1>8 DEF a

\* More hops reach more.
LEMMA AroundGrows ==
  ASSUME NEW texts \in SUBSET SUBSET Terms, NEW terms \in SUBSET Terms
  PROVE  \A m, n \in Nat : m <= n => Around(texts, terms)[m] \subseteq Around(texts, terms)[n]
<1> DEFINE a == Around(texts, terms)
           Bad == {n \in Nat : \E m \in Nat : m <= n /\ ~(a[m] \subseteq a[n])}
<1>1. ASSUME Bad # {} PROVE FALSE
  <2>1. PICK n \in Bad : \A m \in Bad : n <= m
    <3>1. Bad \in SUBSET Nat
      OBVIOUS
    <3> HIDE DEF Bad
    <3> QED  BY <1>1, <3>1, LeastNumber
  <2>2. PICK m \in Nat : m <= n /\ ~(a[m] \subseteq a[n])
    BY <2>1
  <2>3. n # m /\ n \in Nat /\ n - 1 \in Nat /\ m <= n - 1
    BY <2>2
  <2>4. a[n - 1] \subseteq a[n]
    <3>1. \A k \in Nat : a[k + 1] = a[k] \cup UNION {t \in texts : t \cap a[k] # {}}
      BY AroundUnfolds, Zenon
    <3> HIDE DEF a
    <3>2. \A k \in Nat : a[k] \subseteq a[k + 1]
      BY <3>1
    <3>3. (n - 1) + 1 = n
      BY <2>3
    <3> QED  BY <2>3, <3>2, <3>3
  <2>5. n - 1 \notin Bad
    <3> HIDE DEF Bad
    <3> QED  BY <2>1, <2>3
  <2> QED  BY <2>2, <2>3, <2>4, <2>5
<1> QED  BY <1>1

\* The same in terms of the chunks a search may use.
LEMMA NearFacts ==
  ASSUME TypeOK
  PROVE  /\ Near(0) = search.terms
         /\ \A n \in Nat : \A t : t \in Near(n + 1) <=>
              \/ t \in Near(n)
              \/ \E c \in ReadyGraphChunks(search.workspace) :
                   t \in chunks[c].terms /\ \E u \in chunks[c].terms : u \in Near(n)
         /\ \A m, n \in Nat : m <= n => Near(m) \subseteq Near(n)
<1> DEFINE texts == ReadyTexts(search.workspace)
           a == Around(texts, search.terms)
<1>1. texts \in SUBSET SUBSET Terms /\ search.terms \in SUBSET Terms
  BY DEF TypeOK, ReadyTexts, ReadyGraphChunks, Chunk, Texts
<1>2. /\ a[0] = search.terms
      /\ \A n \in Nat : a[n + 1] = a[n] \cup UNION {t \in texts : t \cap a[n] # {}}
  <2> HIDE DEF texts
  <2> QED  BY <1>1, AroundUnfolds, Zenon
<1>3. \A m, n \in Nat : m <= n => a[m] \subseteq a[n]
  <2> HIDE DEF texts
  <2> QED  BY <1>1, AroundGrows, Zenon
<1>4. \A n : Near(n) = a[n]
  BY DEF Near, TermsWithin
<1> HIDE DEF a
<1>5. \A t : t \in texts <=> \E c \in ReadyGraphChunks(search.workspace) : t = chunks[c].terms
  BY DEF ReadyTexts
<1> HIDE DEF texts
<1>6. ASSUME NEW n \in Nat, NEW t
      PROVE  t \in Near(n + 1) <=>
               \/ t \in Near(n)
               \/ \E c \in ReadyGraphChunks(search.workspace) :
                    t \in chunks[c].terms /\ \E u \in chunks[c].terms : u \in Near(n)
  <2>1. t \in Near(n + 1) <=> t \in Near(n) \/ \E x \in texts : t \in x /\ \E u \in x : u \in Near(n)
    BY <1>2, <1>4
  <2> QED  BY <2>1, <1>5
<1> QED  BY <1>2, <1>3, <1>4, <1>6

\* A distance is the least number of hops that reaches the term.
LEMMA AwayIsLeast ==
  ASSUME TypeOK, NEW t, NEW n \in Nat, IsAway(t, n), NEW m \in Nat, t \in Near(m)
  PROVE  n <= m
<1>1. SUFFICES ASSUME m < n PROVE FALSE
  OBVIOUS
<1>2. n - 1 \in Nat /\ m <= n - 1 /\ n > 0
  BY <1>1
<1>3. Near(m) \subseteq Near(n - 1)
  BY <1>2, NearFacts
<1> QED  BY <1>2, <1>3 DEF IsAway

\* A chunk that is found at some hops is found at more, and its hops are the
\* least of them.
LEMMA HopsIsLeast ==
  ASSUME TypeOK, NEW c \in Chunks, NEW n \in Nat \ {0}, NEW m \in Nat \ {0}
  PROVE  /\ m <= n /\ FoundAt(c, m) => FoundAt(c, n)
         /\ IsHops(c, n) /\ FoundAt(c, m) => n <= m
<1>1. ASSUME NEW i \in Nat \ {0}, NEW k \in Nat \ {0}, i <= k, FoundAt(c, i) PROVE FoundAt(c, k)
  <2>1. i - 1 \in Nat /\ k - 1 \in Nat /\ i - 1 <= k - 1
    BY <1>1
  <2>2. Near(i - 1) \subseteq Near(k - 1)
    BY <2>1, NearFacts
  <2> QED  BY <1>1, <2>2 DEF FoundAt, Near
<1>2. ASSUME IsHops(c, n), FoundAt(c, m), m < n PROVE FALSE
  <2>1. n - 1 \in Nat \ {0} /\ m <= n - 1 /\ n # 1
    BY <1>2
  <2>2. FoundAt(c, n - 1)
    BY <1>1, <1>2, <2>1
  <2> QED  BY <1>2, <2>1, <2>2 DEF IsHops
<1> QED  BY <1>1, <1>2

\* So a chunk has one number of hops.
LEMMA HopsAreUnique ==
  ASSUME TypeOK, NEW c \in Chunks, NEW n \in Nat \ {0}, NEW m \in Nat \ {0},
         IsHops(c, n), IsHops(c, m)
  PROVE  n = m
<1>1. FoundAt(c, n) /\ FoundAt(c, m)
  BY DEF IsHops
<1> QED  BY <1>1, HopsIsLeast

-----------------------------------------------------------------------------
(* The tables.                                                             *)

\* Pairs are pairs.
LEMMA PairsOfTwo ==
  /\ \A pair \in Pairs : \E t, u \in Terms : t # u /\ pair = {t, u}
  /\ \A t, u \in Terms : t # u => {t, u} \in Pairs
<1>1. ASSUME NEW pair \in Pairs PROVE \E t, u \in Terms : t # u /\ pair = {t, u}
  <2>1. IsFiniteSet(pair) /\ Cardinality(pair) = 2 /\ pair \subseteq Terms
    BY FinitenessAssumption, FS_Subset DEF FinitenessAssumption, Pairs
  <2>2. PICK t \in pair : TRUE
    BY <2>1, FS_EmptySet
  <2>3. IsFiniteSet(pair \ {t}) /\ Cardinality(pair \ {t}) = 1
    BY <2>1, <2>2, FS_RemoveElement
  <2>4. PICK u : pair \ {t} = {u}
    BY <2>3, FS_Singleton
  <2> QED  BY <2>1, <2>2, <2>4
<1>2. ASSUME NEW t \in Terms, NEW u \in Terms, t # u PROVE {t, u} \in Pairs
  <2>1. IsFiniteSet({t}) /\ Cardinality({t}) = 1
    BY FS_Singleton
  <2>2. Cardinality({t} \cup {u}) = 2
    BY <1>2, <2>1, FS_AddElement
  <2>3. {t} \cup {u} = {t, u}
    OBVIOUS
  <2> QED  BY <2>2, <2>3 DEF Pairs
<1> QED  BY <1>1, <1>2

\* What the graph says of the texts of ready chunks, and the texts of it.
LEMMA TableFacts ==
  ASSUME GraphInv, ChunksHaveWorkspaces
  PROVE  /\ \A e \in edges : /\ e[1] \in Workspaces
                             /\ \E t, u \in Terms : /\ t # u /\ e[2] = {t, u} /\ e = <<e[1], {t, u}>>
                                                    /\ <<e[1], t>> \in entities /\ <<e[1], u>> \in entities
                             /\ \E c \in ReadyGraphChunks(e[1]) : e[2] \subseteq chunks[c].terms
         /\ \A e \in edges, c \in Chunks : <<e, c>> \in evidence =>
              c \in ReadyGraphChunks(e[1]) /\ e[2] \subseteq chunks[c].terms
         /\ \A w \in Workspaces : \A c \in ReadyGraphChunks(w) :
              /\ \A t \in chunks[c].terms : <<w, t>> \in entities
              /\ \A t, u \in chunks[c].terms : t # u =>
                   <<w, {t, u}>> \in edges /\ <<<<w, {t, u}>>, c>> \in evidence
<1> DEFINE ready == {c \in Chunks : chunks[c].state = "ready"}
<1>1. /\ entities = UNION {EntitiesOf(c) : c \in ready}
      /\ edges = UNION {RelationsOf(c) : c \in ready}
      /\ evidence = {x \in edges \X ready : x[1] \in RelationsOf(x[2])}
  BY DEF GraphInv, GraphFollowsChunks
<1>2. \A c \in ready : /\ chunks[c].workspace \in Workspaces
                       /\ chunks[c].terms \subseteq Terms
  BY DEF GraphInv, TypeOK, ChunksHaveWorkspaces, Chunk, Texts
<1>3. \A w : ReadyGraphChunks(w) = {c \in ready : chunks[c].workspace = w}
  BY DEF ReadyGraphChunks
<1> HIDE DEF ready
<1>4. ASSUME NEW c \in ready, NEW e \in RelationsOf(c)
      PROVE  /\ e[1] = chunks[c].workspace /\ e[1] \in Workspaces
             /\ e[2] \subseteq chunks[c].terms
             /\ \E t, u \in Terms : /\ t # u /\ e[2] = {t, u} /\ e = <<e[1], {t, u}>>
                                    /\ <<e[1], t>> \in entities /\ <<e[1], u>> \in entities
  <2>1. PICK pair \in Pairs : e = <<chunks[c].workspace, pair>> /\ pair \subseteq chunks[c].terms
    BY <1>4 DEF RelationsOf
  <2>2. PICK t \in Terms, u \in Terms : t # u /\ pair = {t, u}
    BY PairsOfTwo
  <2>3. \A v \in chunks[c].terms : <<chunks[c].workspace, v>> \in entities
    BY <1>1 DEF EntitiesOf
  <2> QED  BY <1>2, <2>1, <2>2, <2>3
<1>5. ASSUME NEW e \in edges
      PROVE  /\ e[1] \in Workspaces
             /\ \E t, u \in Terms : /\ t # u /\ e[2] = {t, u} /\ e = <<e[1], {t, u}>>
                                    /\ <<e[1], t>> \in entities /\ <<e[1], u>> \in entities
             /\ \E c \in ReadyGraphChunks(e[1]) : e[2] \subseteq chunks[c].terms
  <2>1. PICK c \in ready : e \in RelationsOf(c)
    BY <1>1
  <2> QED  BY <2>1, <1>3, <1>4, ZenonT(60)
<1>6. ASSUME NEW e \in edges, NEW c \in Chunks, <<e, c>> \in evidence
      PROVE  c \in ReadyGraphChunks(e[1]) /\ e[2] \subseteq chunks[c].terms
  BY <1>1, <1>3, <1>4, <1>6
<1>7. ASSUME NEW w \in Workspaces, NEW c \in ReadyGraphChunks(w)
      PROVE  /\ \A t \in chunks[c].terms : <<w, t>> \in entities
             /\ \A t, u \in chunks[c].terms : t # u =>
                  <<w, {t, u}>> \in edges /\ <<<<w, {t, u}>>, c>> \in evidence
  <2>1. c \in ready /\ chunks[c].workspace = w
    BY <1>3
  <2>2. \A t \in chunks[c].terms : <<w, t>> \in entities
    BY <1>1, <2>1 DEF EntitiesOf
  <2>3. ASSUME NEW t \in chunks[c].terms, NEW u \in chunks[c].terms, t # u
        PROVE  <<w, {t, u}>> \in edges /\ <<<<w, {t, u}>>, c>> \in evidence
    <3>1. {t, u} \in Pairs /\ {t, u} \in SUBSET chunks[c].terms
      BY <1>2, <2>1, <2>3, PairsOfTwo
    <3>2. <<w, {t, u}>> \in RelationsOf(c)
      BY <2>1, <3>1 DEF RelationsOf
    <3> QED  BY <1>1, <2>1, <3>2
  <2> QED  BY <2>2, <2>3
<1> QED  BY <1>5, <1>6, <1>7

\* A workspace has finitely many edges and entities.
LEMMA WorkspacesAreFinite ==
  ASSUME TypeOK, NEW w
  PROVE  /\ IsFiniteSet({e \in edges : e[1] = w}) /\ Cardinality({e \in edges : e[1] = w}) \in Nat
         /\ IsFiniteSet({e \in entities : e[1] = w})
<1>1. IsFiniteSet(Pairs) /\ IsFiniteSet(Terms)
  <2>1. IsFiniteSet(SUBSET Terms) /\ IsFiniteSet(Terms)
    BY FinitenessAssumption, FS_SUBSET DEF FinitenessAssumption
  <2>2. Pairs \in SUBSET SUBSET Terms
    BY DEF Pairs
  <2> QED  BY <2>1, <2>2, FS_Subset
<1>2. IsFiniteSet({w} \X Pairs) /\ IsFiniteSet({w} \X Terms)
  BY <1>1, FS_Singleton, FS_Product
<1>3. /\ {e \in edges : e[1] = w} \in SUBSET ({w} \X Pairs)
      /\ {e \in entities : e[1] = w} \in SUBSET ({w} \X Terms)
  BY DEF TypeOK
<1>4. IsFiniteSet({e \in edges : e[1] = w}) /\ IsFiniteSet({e \in entities : e[1] = w})
  BY <1>2, <1>3, FS_Subset
<1> QED  BY <1>4, FS_CardinalityType

\* A process that is not searching.
LEMMA IdleIsTyped ==
  Idle \in [phase : {"idle", "walking", "answered"}, workspace : Workspaces \cup {NoWorkspace},
            terms : Texts, hops : 1..MaxHops, limit : Nat \ {0}, found : SUBSET (Chunks \X Nat)]
<1>1. {} \in Texts
  BY FS_EmptySet, BudgetsAssumption DEF Texts, BudgetsAssumption
<1>2. 1 \in 1..MaxHops
  BY BudgetsAssumption DEF BudgetsAssumption
<1> QED  BY <1>1, <1>2 DEF Idle

\* Nothing is under way between searches, so there only the tables count.
LEMMA TablesSuffice ==
  ASSUME search' = Idle, ClearedTraversal,
         chunks' \in [Chunks -> Chunk], ChunksHaveWorkspaces', GraphFollowsChunks'
  PROVE  RetrievalInv'
<1>1. /\ search' = Idle /\ frontier' = <<>> /\ left' = {} /\ here' = Nowhere
      /\ visited' = None /\ best' = None /\ traversed' = 0
  BY DEF ClearedTraversal
<1>2. IdleIsClear'
  BY <1>1 DEF IdleIsClear
<1>3. search'.phase = "idle"
  BY <1>1 DEF Idle
<1>4. WalkInv' /\ AnswersAreNearest'
  BY <1>3 DEF WalkInv, AnswersAreNearest
<1>5. entities' \subseteq Workspaces \X Terms
  <2>1. ASSUME NEW c \in Chunks, chunks'[c].state = "ready"
        PROVE  EntitiesOf(c)' \subseteq Workspaces \X Terms
    <3>1. chunks'[c].workspace \in Workspaces /\ chunks'[c].terms \subseteq Terms
      BY <2>1 DEF ChunksHaveWorkspaces, Chunk, Texts
    <3> QED  BY <3>1 DEF EntitiesOf
  <2> QED  BY <2>1 DEF GraphFollowsChunks
<1>6. edges' \subseteq Workspaces \X Pairs
  <2>1. ASSUME NEW c \in Chunks, chunks'[c].state = "ready"
        PROVE  RelationsOf(c)' \subseteq Workspaces \X Pairs
    <3>1. chunks'[c].workspace \in Workspaces
      BY <2>1 DEF ChunksHaveWorkspaces
    <3> QED  BY <3>1 DEF RelationsOf
  <2> QED  BY <2>1 DEF GraphFollowsChunks
<1>7. evidence' \subseteq (Workspaces \X Pairs) \X Chunks
  BY <1>6 DEF GraphFollowsChunks
<1>8. TypeOK'
  <2>1. /\ DOMAIN visited' = {} /\ visited' \in [{} -> Nat]
        /\ DOMAIN best' = {} /\ best' \in [{} -> Nat]
    BY <1>1 DEF None
  <2>2. traversed' \in 0..MaxEdges
    BY <1>1, BudgetsAssumption DEF BudgetsAssumption
  <2>3. left' \subseteq edges'
    BY <1>1
  <2> QED
    BY <1>1, <1>5, <1>6, <1>7, <2>1, <2>2, <2>3, IdleIsTyped DEF TypeOK
<1>9. EdgesAreFollowedTwice'
  <2>1. edges' \subseteq Workspaces \X Pairs /\ search'.workspace = NoWorkspace
    BY <1>1, <1>6 DEF Idle
  <2>2. {e \in edges' : e[1] = search'.workspace} = {}
    BY <2>1, WorkspacesAssumption DEF WorkspacesAssumption
  <2>3. Cardinality({e \in edges' : e[1] = search'.workspace}) = 0
    BY <2>2, FS_EmptySet
  <2> QED  BY <1>1, <2>3 DEF EdgesAreFollowedTwice
<1> QED
  BY <1>2, <1>4, <1>8, <1>9 DEF RetrievalInv, GraphInv

\* The operations that wait for a search to end leave nothing of it.
LEMMA UnlockedIsClear ==
  ASSUME RetrievalInv, Unlocked, UNCHANGED <<search, traversal>>
  PROVE  search' = Idle /\ ClearedTraversal
BY DEF RetrievalInv, IdleIsClear, Unlocked, ClearedTraversal, traversal

\* A chunk is prepared: it is not ready, so the tables need not know it.
LEMMA PrepareKeepsRetrievalInv ==
  ASSUME RetrievalInv, NEW c \in Chunks, NEW w \in Workspaces, NEW terms \in Texts,
         PrepareChunk(c, w, terms)
  PROVE  RetrievalInv'
<1> DEFINE ready == {d \in Chunks : chunks[d].state = "ready"}
<1>1. chunks \in [Chunks -> Chunk] /\ ChunksHaveWorkspaces /\ GraphFollowsChunks
  BY DEF RetrievalInv, GraphInv, TypeOK
<1>2. /\ Unlocked /\ UNCHANGED <<search, traversal, entities, edges, evidence>>
      /\ chunks[c].state = "none"
      /\ chunks' = [chunks EXCEPT ![c] = [state |-> "pending", workspace |-> w, terms |-> terms]]
  BY DEF PrepareChunk, Blank
<1>3. chunks' \in [Chunks -> Chunk] /\ ChunksHaveWorkspaces'
  BY <1>1, <1>2 DEF Chunk, ChunksHaveWorkspaces
<1>4. ready' = ready /\ \A d \in ready : chunks'[d] = chunks[d]
  BY <1>1, <1>2
<1>5. \A d \in ready : EntitiesOf(d)' = EntitiesOf(d) /\ RelationsOf(d)' = RelationsOf(d)
  BY <1>4 DEF EntitiesOf, RelationsOf
<1> HIDE DEF ready
<1>6. GraphFollowsChunks'
  <2>1. /\ entities = UNION {EntitiesOf(d) : d \in ready}
        /\ edges = UNION {RelationsOf(d) : d \in ready}
        /\ evidence = {x \in edges \X ready : x[1] \in RelationsOf(x[2])}
    BY <1>1 DEF GraphFollowsChunks, ready
  <2>2. /\ entities' = UNION {EntitiesOf(d)' : d \in ready'}
        /\ edges' = UNION {RelationsOf(d)' : d \in ready'}
    BY <1>2, <1>4, <1>5, <2>1
  <2>3. evidence' = {x \in edges' \X ready' : x[1] \in RelationsOf(x[2])'}
    BY <1>2, <1>4, <1>5, <2>1
  <2> QED  BY <2>2, <2>3 DEF GraphFollowsChunks, ready
<1> QED  BY <1>2, <1>3, <1>6, UnlockedIsClear, TablesSuffice

\* Materializing a set of chunks, next to the rows of all other ready chunks.
LEMMA MaterializeFollows ==
  ASSUME NEW set \in SUBSET Chunks, NEW others \in SUBSET Chunks,
         NEW keptEntities, NEW keptEdges, NEW keptEvidence,
         Materialize(set, keptEntities, keptEdges, keptEvidence),
         keptEntities = UNION {EntitiesOf(d) : d \in others},
         keptEdges = UNION {RelationsOf(d) : d \in others},
         keptEvidence = {x \in keptEdges \X others : x[1] \in RelationsOf(x[2])},
         {d \in Chunks : chunks'[d].state = "ready"} = set \cup others,
         \A d \in set \cup others :
           chunks'[d].terms = chunks[d].terms /\ chunks'[d].workspace = chunks[d].workspace
  PROVE  GraphFollowsChunks'
<1> DEFINE ready == {d \in Chunks : chunks[d].state = "ready"}
<1>1. \A d \in set \cup others : EntitiesOf(d)' = EntitiesOf(d) /\ RelationsOf(d)' = RelationsOf(d)
  BY DEF EntitiesOf, RelationsOf
<1>2. ready' = set \cup others
  OBVIOUS
<1> HIDE DEF ready
<1>3. entities' = UNION {EntitiesOf(d)' : d \in ready'}
  <2>1. entities' = UNION {EntitiesOf(d) : d \in set \cup others}
    BY DEF Materialize
  <2> QED  BY <1>1, <1>2, <2>1
<1>4. edges' = UNION {RelationsOf(d)' : d \in ready'}
  <2>1. edges' = UNION {RelationsOf(d) : d \in set \cup others}
    BY DEF Materialize
  <2> QED  BY <1>1, <1>2, <2>1
<1>5. evidence' = {x \in edges' \X ready' : x[1] \in RelationsOf(x[2])'}
  <2>1. evidence' = keptEvidence
          \cup {x \in (UNION {RelationsOf(d) : d \in set}) \X set : x[1] \in RelationsOf(x[2])}
    BY DEF Materialize, EvidenceOf
  <2>2. ASSUME NEW x \in evidence' PROVE x \in edges' \X ready' /\ x[1] \in RelationsOf(x[2])'
    BY <1>1, <1>2, <1>4, <2>1, <2>2
  <2>3. ASSUME NEW x \in edges' \X ready', x[1] \in RelationsOf(x[2])' PROVE x \in evidence'
    <3>1. x = <<x[1], x[2]>> /\ x[2] \in set \cup others /\ x[1] \in RelationsOf(x[2])
      BY <1>1, <1>2, <2>3
    <3> QED  BY <2>1, <3>1
  <2> QED  BY <2>2, <2>3
<1> QED  BY <1>3, <1>4, <1>5 DEF GraphFollowsChunks, ready

\* A chunk is published next to those that are ready.
LEMMA PublishKeepsRetrievalInv ==
  ASSUME RetrievalInv, NEW c \in Chunks, PublishChunk(c)
  PROVE  RetrievalInv'
<1> DEFINE ready == {d \in Chunks : chunks[d].state = "ready"}
<1>1. chunks \in [Chunks -> Chunk] /\ ChunksHaveWorkspaces /\ GraphFollowsChunks
  BY DEF RetrievalInv, GraphInv, TypeOK
<1>2. /\ Unlocked /\ UNCHANGED <<search, traversal>>
      /\ chunks[c].state = "pending"
      /\ chunks' = [chunks EXCEPT ![c].state = "ready"]
      /\ Materialize({c}, entities, edges, evidence)
  BY DEF PublishChunk
<1>3. /\ chunks' \in [Chunks -> Chunk]
      /\ chunks'[c].state = "ready"
      /\ \A d \in Chunks : /\ d # c => chunks'[d] = chunks[d]
                           /\ chunks'[d].terms = chunks[d].terms
                           /\ chunks'[d].workspace = chunks[d].workspace
  BY <1>1, <1>2 DEF Chunk
<1>4. ChunksHaveWorkspaces'
  <2>1. ASSUME NEW d \in Chunks, chunks'[d].state # "none" PROVE chunks'[d].workspace \in Workspaces
    <3>1. chunks[d].state # "none"
      BY <1>2, <1>3, <2>1
    <3> QED  BY <1>1, <1>3, <3>1 DEF ChunksHaveWorkspaces
  <2> QED  BY <2>1 DEF ChunksHaveWorkspaces
<1>5. ready' = {c} \cup ready
  BY <1>3
<1>6. /\ entities = UNION {EntitiesOf(d) : d \in ready}
      /\ edges = UNION {RelationsOf(d) : d \in ready}
      /\ evidence = {x \in edges \X ready : x[1] \in RelationsOf(x[2])}
  BY <1>1 DEF GraphFollowsChunks
<1>7. {d \in Chunks : chunks'[d].state = "ready"} = {c} \cup ready
  BY <1>5
<1>8. ready \subseteq Chunks
  OBVIOUS
<1> HIDE DEF ready
<1>9. GraphFollowsChunks'
  BY <1>2, <1>3, <1>6, <1>7, <1>8, MaterializeFollows
<1> QED  BY <1>2, <1>3, <1>4, <1>9, UnlockedIsClear, TablesSuffice

\* A workspace is rebuilt: the rows of other workspaces are those of their
\* chunks, and its own are written again.
LEMMA RebuildKeepsRetrievalInv ==
  ASSUME RetrievalInv, NEW w \in Workspaces, RebuildGraph(w)
  PROVE  RetrievalInv'
<1> DEFINE ready == {d \in Chunks : chunks[d].state = "ready"}
           others == {d \in ready : chunks[d].workspace # w}
           keptEntities == {e \in entities : e[1] # w}
           keptEdges == {e \in edges : e[1] # w}
           keptEvidence == {x \in evidence : x[1][1] # w}
<1>1. chunks \in [Chunks -> Chunk] /\ ChunksHaveWorkspaces /\ GraphFollowsChunks
  BY DEF RetrievalInv, GraphInv, TypeOK
<1>2. /\ Unlocked /\ UNCHANGED <<search, traversal, chunks>>
      /\ Materialize(ReadyGraphChunks(w), keptEntities, keptEdges, keptEvidence)
  BY DEF RebuildGraph
<1>3. /\ entities = UNION {EntitiesOf(d) : d \in ready}
      /\ edges = UNION {RelationsOf(d) : d \in ready}
      /\ evidence = {x \in edges \X ready : x[1] \in RelationsOf(x[2])}
  BY <1>1 DEF GraphFollowsChunks
<1>4. /\ \A d \in ready : \A e \in EntitiesOf(d) : e[1] = chunks[d].workspace
      /\ \A d \in ready : \A e \in RelationsOf(d) : e[1] = chunks[d].workspace
  BY DEF EntitiesOf, RelationsOf
<1>5. keptEntities = UNION {EntitiesOf(d) : d \in others}
  <2> HIDE DEF ready
  <2> QED  BY <1>3, <1>4
<1>6. keptEdges = UNION {RelationsOf(d) : d \in others}
  <2> HIDE DEF ready
  <2> QED  BY <1>3, <1>4
<1>7. keptEvidence = {x \in keptEdges \X others : x[1] \in RelationsOf(x[2])}
  <2> HIDE DEF ready
  <2>1. ASSUME NEW x \in keptEvidence PROVE x \in keptEdges \X others /\ x[1] \in RelationsOf(x[2])
    BY <1>3, <1>4
  <2>2. ASSUME NEW x \in keptEdges \X others, x[1] \in RelationsOf(x[2]) PROVE x \in keptEvidence
    BY <1>3, <2>2
  <2> QED  BY <2>1, <2>2
<1>8. /\ {d \in Chunks : chunks'[d].state = "ready"} = ReadyGraphChunks(w) \cup others
      /\ ReadyGraphChunks(w) \subseteq Chunks /\ others \subseteq Chunks
  BY <1>2 DEF ReadyGraphChunks
<1> HIDE DEF ready, others, keptEntities, keptEdges, keptEvidence
<1>9. GraphFollowsChunks'
  BY <1>2, <1>5, <1>6, <1>7, <1>8, MaterializeFollows
<1> QED
  BY <1>1, <1>2, <1>9, UnlockedIsClear, TablesSuffice DEF ChunksHaveWorkspaces

-----------------------------------------------------------------------------
(* A search reads tables that do not change under it.                      *)

\* Distances are those of the tables and the query.
LEMMA SameDistances ==
  ASSUME UNCHANGED tables, search'.workspace = search.workspace, search'.terms = search.terms
  PROVE  /\ \A n : Near(n)' = Near(n)
         /\ \A t, n : IsAway(t, n)' <=> IsAway(t, n)
         /\ \A c, n : IsHops(c, n)' <=> IsHops(c, n)
         /\ EdgesHere' = EdgesHere
<1>1. ReadyTexts(search.workspace)' = ReadyTexts(search.workspace)
  BY DEF ReadyTexts, ReadyGraphChunks, tables
<1>2. \A n : Near(n)' = Near(n)
  BY <1>1 DEF Near, TermsWithin
<1>3. \A t, n : IsAway(t, n)' <=> IsAway(t, n)
  BY <1>2 DEF IsAway
<1>4. \A c, n : FoundAt(c, n)' <=> FoundAt(c, n)
  BY <1>2 DEF FoundAt, Near, tables
<1>5. \A c, n : IsHops(c, n)' <=> IsHops(c, n)
  BY <1>4 DEF IsHops, ReadyGraphChunks, tables
<1>6. EdgesHere' = EdgesHere
  BY DEF EdgesHere, tables
<1> QED  BY <1>2, <1>3, <1>5, <1>6

\* The tables stay consistent.
LEMMA SameTables ==
  ASSUME GraphInv, ChunksHaveWorkspaces, UNCHANGED tables, TypeOK'
  PROVE  GraphInv' /\ ChunksHaveWorkspaces'
BY DEF GraphInv, GraphFollowsChunks, ChunksHaveWorkspaces, tables, EntitiesOf, RelationsOf

\* The seeds of a search are queued in some order, each once.
LEMMA OrderOfSeeds ==
  ASSUME NEW S, IsFiniteSet(S), NEW seeds \in SetToSeqs(S)
  PROVE  /\ DOMAIN seeds = 1..Cardinality(S) /\ Cardinality(S) \in Nat
         /\ {seeds[i] : i \in DOMAIN seeds} = S
         /\ \A i, k \in DOMAIN seeds : i # k => seeds[i] # seeds[k]
<1> DEFINE D == 1..Cardinality(S)
<1>1. /\ seeds \in [D -> S]
      /\ \A i, k \in D : i # k => seeds[i] # seeds[k]
  BY DEF SetToSeqs
<1>2. Cardinality(S) \in Nat
  BY FS_CardinalityType
<1>3. IsFiniteSet(D) /\ Cardinality(D) = Cardinality(S)
  BY <1>2, FS_Interval
<1>4. seeds \in Injection(D, S)
  BY <1>1 DEF Injection, IsInjective
<1>5. seeds \in Surjection(D, S)
  BY <1>3, <1>4, FS_Injection
<1>6. \A x \in S : \E i \in D : seeds[i] = x
  BY <1>5 DEF Surjection
<1> QED  BY <1>1, <1>2, <1>6

\* A search begins.
LEMMA RetrieveKeepsRetrievalInv ==
  ASSUME RetrievalInv, NEW w \in Workspaces, NEW terms \in Texts,
         NEW limit \in 1..MaxLimit, NEW hops \in 0..(MaxHops + 1),
         RetrieveGraph(w, terms, limit, hops)
  PROVE  RetrievalInv'
<1> DEFINE S == Seeds(w, terms)
<1>1. TypeOK /\ GraphInv /\ ChunksHaveWorkspaces
  BY DEF RetrievalInv, GraphInv
<1>2. /\ here = Nowhere /\ left = {} /\ best = None /\ traversed = 0
  BY DEF RetrievalInv, IdleIsClear, RetrieveGraph, Unlocked
<1>3. /\ search' = [phase |-> "walking", workspace |-> w, terms |-> terms,
                    hops |-> Clamp(hops), limit |-> limit, found |-> {}]
      /\ visited' = [e \in S |-> 0]
      /\ UNCHANGED <<tables, here, left, best, traversed>>
  BY DEF RetrieveGraph
<1>4. PICK seeds \in SetToSeqs(S) : frontier' = [i \in DOMAIN seeds |-> [entity |-> seeds[i], hops |-> 0]]
  BY DEF RetrieveGraph
<1>5. S = {e \in entities : e[1] = w /\ e[2] \in terms}
  BY DEF Seeds
<1>6. IsFiniteSet(S)
  <2>1. S \in SUBSET {e \in entities : e[1] = w}
    BY <1>5
  <2> QED  BY <1>1, <2>1, WorkspacesAreFinite, FS_Subset
<1> HIDE DEF S
<1>7. /\ DOMAIN frontier' = 1..Cardinality(S) /\ Cardinality(S) \in Nat
      /\ \A i \in DOMAIN frontier' : frontier'[i] = [entity |-> seeds[i], hops |-> 0] /\ seeds[i] \in S
      /\ {seeds[i] : i \in DOMAIN frontier'} = S
      /\ \A i, k \in DOMAIN frontier' : i # k => seeds[i] # seeds[k]
  BY <1>4, <1>6, OrderOfSeeds
<1>8. /\ DOMAIN visited' = S /\ \A x \in S : visited'[x] = 0
      /\ visited' \in [DOMAIN visited' -> Nat]
  BY <1>3
<1>9. TypeOK'
  <2>1. Clamp(hops) \in 1..MaxHops
    BY BudgetsAssumption DEF Clamp, BudgetsAssumption
  <2>2. search' \in [phase : {"idle", "walking", "answered"}, workspace : Workspaces \cup {NoWorkspace},
                 terms : Texts, hops : 1..MaxHops, limit : Nat \ {0}, found : SUBSET (Chunks \X Nat)]
    BY <1>3, <2>1, BudgetsAssumption DEF BudgetsAssumption
  <2>3. S \subseteq entities
    BY <1>5
  <2> QED  BY <1>1, <1>3, <1>8, <2>2, <2>3 DEF TypeOK, tables
<1>10. Waiting' = S /\ Expanded' = {}
  <2>1. Waiting' = S
    BY <1>7 DEF Waiting
  <2> QED  BY <1>8, <2>1 DEF Expanded
<1>11. FrontierIsOrdered'
  <2>1. frontier' \in Seq([entity : DOMAIN visited', hops : Nat])
    <3>1. frontier' = [i \in 1..Cardinality(S) |-> frontier'[i]]
      BY <1>4, <1>7
    <3>2. \A i \in 1..Cardinality(S) : frontier'[i] \in [entity : DOMAIN visited', hops : Nat]
      BY <1>7, <1>8
    <3> DEFINE T == [entity : DOMAIN visited', hops : Nat]
    <3> HIDE DEF T
    <3>3. frontier' \in [1..Cardinality(S) -> T]
      BY <3>1, <3>2 DEF T
    <3>4. frontier' \in Seq(T)
      BY <1>7, <3>3
    <3> QED  BY <3>4 DEF T
  <2>2. here' = Nowhere /\ left' = {} /\ here'.hops = 0
    BY <1>2, <1>3 DEF Nowhere
  <2>3. \A i \in DOMAIN frontier' : frontier'[i].entity = seeds[i] /\ frontier'[i].hops = 0 /\ seeds[i] \in S
    BY <1>7
  <2>4. DOMAIN frontier' \subseteq Nat
    BY <1>7
  <2> QED  BY <1>7, <1>8, <2>1, <2>2, <2>3, <2>4 DEF FrontierIsOrdered
<1>12. \A n : Near(n)' = Around(ReadyTexts(w), terms)[n]
  BY <1>3 DEF Near, TermsWithin, ReadyTexts, ReadyGraphChunks, tables
<1>13. Near(0)' = terms
  <2>1. ReadyTexts(w) \in SUBSET SUBSET Terms /\ terms \in SUBSET Terms
    BY <1>1 DEF TypeOK, ReadyTexts, ReadyGraphChunks, Chunk, Texts
  <2> QED  BY <1>12, <2>1, AroundUnfolds
<1>14. DistancesAreTrue'
  <2>1. \A x \in S : x[1] = search'.workspace /\ 0 <= search'.hops /\ IsAway(x[2], 0)'
    BY <1>3, <1>5, <1>9, <1>13, BudgetsAssumption DEF IsAway, TypeOK, BudgetsAssumption
  <2>2. \A x \in entities : x[1] = search'.workspace /\ x[2] \in Near(0)' => x \in S
    BY <1>3, <1>5, <1>13
  <2>3. here'.hops = 0 /\ entities' = entities
    BY <1>2, <1>3 DEF Nowhere, tables
  <2> QED  BY <1>8, <2>1, <2>2, <2>3 DEF DistancesAreTrue
<1>15. ExpandedIsPassedOn'
  BY <1>10 DEF ExpandedIsPassedOn
<1>16. ChunksAreNearest'
  <2>1. DOMAIN best' = {}
    BY <1>2, <1>3 DEF None
  <2> QED  BY <2>1 DEF ChunksAreNearest
<1>17. EdgesArePaired'
  <2>1. Follows' = {}
    BY <1>10 DEF Follows
  <2> QED  BY <1>2, <1>3, <2>1, FS_EmptySet DEF EdgesArePaired
<1>18. WalkInv'
  BY <1>3, <1>11, <1>14, <1>15, <1>16, <1>17 DEF WalkInv
<1>19. EdgesAreFollowedTwice'
  <2>1. edges' = edges /\ traversed' = 0
    BY <1>2, <1>3 DEF tables
  <2>2. Cardinality({e \in edges' : e[1] = search'.workspace}) \in Nat
    BY <1>1, <2>1, WorkspacesAreFinite
  <2> QED  BY <2>1, <2>2 DEF EdgesAreFollowedTwice
<1>20. IdleIsClear' /\ AnswersAreNearest'
  BY <1>3 DEF IdleIsClear, AnswersAreNearest
<1>21. GraphInv' /\ ChunksHaveWorkspaces'
  BY <1>1, <1>3, <1>9, SameTables
<1> QED
  BY <1>18, <1>19, <1>20, <1>21 DEF RetrievalInv

-----------------------------------------------------------------------------
(* The walk.                                                               *)

\* No pair is the entity of Nowhere.
LEMMA PairsAreNotEmpty == ASSUME NEW t, NEW u PROVE <<t, u>> # <<>>
<1>1. Len(<<t, u>>) = 2
  OBVIOUS
<1>2. Len(<<>>) = 0
  OBVIOUS
<1> QED  BY <1>1, <1>2, Zenon

\* Sets of pairs of edges and entities of a workspace are finite.
LEMMA EdgesWithEndsAreFinite ==
  ASSUME TypeOK, NEW w,
         NEW F \in SUBSET ({e \in edges : e[1] = w} \X {x \in entities : x[1] = w})
  PROVE  IsFiniteSet(F)
<1> DEFINE E == {e \in edges : e[1] = w}
           X == {x \in entities : x[1] = w}
<1>1. IsFiniteSet(E) /\ IsFiniteSet(X)
  BY WorkspacesAreFinite
<1> HIDE DEF E, X
<1>2. IsFiniteSet(E \X X)
  BY <1>1, FS_Product
<1>3. F \in SUBSET (E \X X)
  BY DEF E, X
<1> QED  BY <1>2, <1>3, FS_Subset

\* What a step of the walk starts from.
LEMMA WalkFacts ==
  ASSUME RetrievalInv, search.phase = "walking"
  PROVE  /\ TypeOK /\ GraphInv /\ ChunksHaveWorkspaces
         /\ search.workspace \in Workspaces
         /\ FrontierIsOrdered /\ DistancesAreTrue /\ ExpandedIsPassedOn
         /\ ChunksAreNearest /\ EdgesArePaired
         /\ search.hops \in Nat /\ MaxEdges \in Nat /\ traversed \in Nat /\ here.hops \in Nat
         /\ \A x \in DOMAIN visited : /\ visited[x] \in Nat
                                      /\ x \in entities /\ x[1] = search.workspace /\ x # <<>>
                                      /\ x = <<search.workspace, x[2]>>
<1>1. /\ TypeOK /\ GraphInv /\ ChunksHaveWorkspaces
      /\ search.workspace \in Workspaces
      /\ FrontierIsOrdered /\ DistancesAreTrue /\ ExpandedIsPassedOn
      /\ ChunksAreNearest /\ EdgesArePaired
  BY DEF RetrievalInv, GraphInv, WalkInv
<1>2. search.hops \in Nat /\ MaxEdges \in Nat /\ traversed \in Nat /\ here.hops \in Nat
  BY <1>1, BudgetsAssumption DEF TypeOK, BudgetsAssumption, FrontierIsOrdered
<1>3. ASSUME NEW x \in DOMAIN visited
      PROVE  /\ visited[x] \in Nat
             /\ x \in entities /\ x[1] = search.workspace /\ x # <<>>
             /\ x = <<search.workspace, x[2]>>
  <2>1. x \in entities /\ x \in Workspaces \X Terms /\ visited[x] \in Nat
    BY <1>1 DEF TypeOK
  <2>2. x[1] = search.workspace
    BY <1>1 DEF DistancesAreTrue
  <2>3. x = <<x[1], x[2]>>
    BY <2>1
  <2>4. x # <<>>
    <3>1. <<x[1], x[2]>> # <<>>
      BY PairsAreNotEmpty
    <3> QED  BY <2>3, <3>1, Zenon
  <2> QED  BY <2>1, <2>2, <2>3, <2>4
<1> QED  BY <1>1, <1>2, <1>3

\* An entity that is near and was expanded below the last hop makes the terms
\* of its texts near: they were met, with their chunks, while there were edges.
LEMMA NeighborsAreMet ==
  ASSUME RetrievalInv, search.phase = "walking", traversed < MaxEdges,
         NEW c \in ReadyGraphChunks(search.workspace),
         NEW u \in chunks[c].terms, NEW t \in chunks[c].terms, u # t,
         left = {} \/ <<search.workspace, u>> # here.entity,
         <<search.workspace, u>> \in Expanded, visited[<<search.workspace, u>>] < search.hops
  PROVE  <<search.workspace, t>> \in DOMAIN visited /\ c \in DOMAIN best
<1> DEFINE x == <<search.workspace, u>>
           y == <<search.workspace, t>>
           e == <<search.workspace, {u, t}>>
<1>1. e \in edges /\ <<e, c>> \in evidence /\ y \in entities
  BY WalkFacts, TableFacts
<1>2. e[1] = search.workspace /\ u \in e[2] /\ t \in e[2] /\ x[2] = u /\ y[1] = e[1] /\ y[2] = t
  OBVIOUS
<1>3. c \in Chunks
  BY DEF ReadyGraphChunks
<1>4. Followed(e, x)
  <2>1. left = {} \/ x # here.entity
    OBVIOUS
  <2> HIDE DEF x, y, e
  <2> QED  BY <1>2, <2>1 DEF Followed
<1> HIDE DEF x, y, e
<1>5. ExpandedIsPassedOn /\ x \in Expanded /\ visited[x] < search.hops
  BY WalkFacts DEF x
<1>6. y \in DOMAIN visited /\ c \in DOMAIN best
  BY <1>1, <1>2, <1>3, <1>4, <1>5 DEF ExpandedIsPassedOn
<1> QED  BY <1>6 DEF y


\* The next entity is taken from the frontier.
LEMMA PopKeepsRetrievalInv ==
  ASSUME RetrievalInv, PopFrontier
  PROVE  RetrievalInv'
<1> DEFINE first == frontier[1]
           x1 == first.entity
           w == search.workspace
<1>1. /\ search.phase = "walking"
      /\ left = {} /\ frontier # <<>>
      /\ here' = Head(frontier) /\ frontier' = Tail(frontier)
      /\ left' = IF Expands(Head(frontier).hops)
                 THEN {e \in edges : e[1] = w /\ Head(frontier).entity[2] \in e[2]} ELSE {}
      /\ UNCHANGED <<tables, search, visited, best, traversed>>
  BY DEF PopFrontier
<1>2. /\ TypeOK /\ GraphInv /\ ChunksHaveWorkspaces
      /\ w \in Workspaces
      /\ FrontierIsOrdered /\ DistancesAreTrue /\ ExpandedIsPassedOn
      /\ ChunksAreNearest /\ EdgesArePaired
      /\ search.hops \in Nat /\ MaxEdges \in Nat /\ traversed \in Nat /\ here.hops \in Nat
      /\ \A x \in DOMAIN visited : /\ visited[x] \in Nat
                                   /\ x \in entities /\ x[1] = w /\ x # <<>>
                                   /\ x = <<w, x[2]>>
  BY <1>1, WalkFacts
<1>3. /\ UNCHANGED <<entities, edges, evidence, chunks, search, visited, best, traversed>>
      /\ \A k : Near(k)' = Near(k)
      /\ \A t, k : IsAway(t, k)' <=> IsAway(t, k)
      /\ \A c, k : IsHops(c, k)' <=> IsHops(c, k)
      /\ EdgesHere' = EdgesHere
  BY <1>1, SameDistances DEF tables
<1>4. /\ frontier \in Seq([entity : DOMAIN visited, hops : Nat])
      /\ \A i \in DOMAIN frontier :
           /\ frontier[i].entity \in DOMAIN visited
           /\ frontier[i].hops \in Nat
           /\ frontier[i].hops = visited[frontier[i].entity]
           /\ here.hops <= frontier[i].hops /\ frontier[i].hops <= here.hops + 1
           /\ \A k \in DOMAIN frontier : i < k =>
                frontier[i].hops <= frontier[k].hops /\ frontier[i].entity # frontier[k].entity
  <2>1. frontier \in Seq([entity : DOMAIN visited, hops : Nat])
    BY <1>2 DEF FrontierIsOrdered
  <2>2. \A i \in DOMAIN frontier : frontier[i] \in [entity : DOMAIN visited, hops : Nat]
    <3> DEFINE T == [entity : DOMAIN visited, hops : Nat]
    <3> HIDE DEF T
    <3>1. frontier \in Seq(T)
      BY <2>1 DEF T
    <3>2. \A i \in DOMAIN frontier : frontier[i] \in T
      BY <3>1
    <3> QED  BY <3>2 DEF T
  <2>3. \A i \in DOMAIN frontier : frontier[i].entity \in DOMAIN visited /\ frontier[i].hops \in Nat
    BY <2>2
  <2> QED  BY <1>2, <2>1, <2>3 DEF FrontierIsOrdered
<1>5. /\ 1 \in DOMAIN frontier
      /\ here' = first
      /\ DOMAIN frontier = 1..Len(frontier) /\ Len(frontier) \in Nat
      /\ DOMAIN frontier' = 1..(Len(frontier) - 1)
      /\ \A i \in DOMAIN frontier' : i + 1 \in DOMAIN frontier /\ frontier'[i] = frontier[i + 1]
      /\ frontier' \in Seq([entity : DOMAIN visited, hops : Nat])
  BY <1>1, <1>4
<1>6. /\ x1 \in DOMAIN visited /\ visited[x1] = first.hops
      /\ here.hops <= first.hops /\ first.hops <= here.hops + 1 /\ first.hops \in Nat
      /\ \A i \in DOMAIN frontier : first.hops <= frontier[i].hops
  <2>1. \A i \in DOMAIN frontier : i = 1 \/ 1 < i
    BY <1>5
  <2>2. \A i \in DOMAIN frontier : 1 < i => frontier[1].hops <= frontier[i].hops
    BY <1>4, <1>5
  <2>3. \A i \in DOMAIN frontier : frontier[1].hops <= frontier[i].hops
    BY <1>4, <2>1, <2>2
  <2> QED  BY <1>4, <1>5, <2>3
<1>7. /\ Waiting' = Waiting \ {x1}
      /\ x1 \in Waiting
  <2>1. x1 \in Waiting
    BY <1>5 DEF Waiting
  <2>2. ASSUME NEW y \in Waiting' PROVE y \in Waiting /\ y # x1
    <3>1. PICK i \in DOMAIN frontier' : y = frontier'[i].entity
      BY DEF Waiting
    <3>2. i + 1 \in DOMAIN frontier /\ 1 < i + 1 /\ y = frontier[i + 1].entity
      BY <1>5, <3>1
    <3> QED  BY <1>4, <1>5, <3>2 DEF Waiting
  <2>3. ASSUME NEW y \in Waiting, y # x1 PROVE y \in Waiting'
    <3>1. PICK i \in DOMAIN frontier : y = frontier[i].entity
      BY DEF Waiting
    <3>2. i # 1 /\ i - 1 \in DOMAIN frontier' /\ (i - 1) + 1 = i
      BY <1>5, <2>3, <3>1
    <3>3. frontier'[i - 1] = frontier[i]
      BY <1>5, <3>2
    <3> QED  BY <3>1, <3>2, <3>3 DEF Waiting
  <2> QED  BY <2>1, <2>2, <2>3
<1>8. Expanded' = Expanded \cup {x1} /\ x1 \notin Expanded
  BY <1>3, <1>6, <1>7 DEF Expanded
<1>9. FrontierIsOrdered'
  <2>1. \A e \in left' : /\ e \in EdgesHere /\ here'.entity[2] \in e[2]
                         /\ Expands(here'.hops)
    BY <1>1, <1>5 DEF EdgesHere
  <2>2. here'.entity \in Expanded' /\ visited'[here'.entity] = here'.hops /\ here' # Nowhere
    <3>1. here'.entity # <<>>
      BY <1>2, <1>5, <1>6
    <3> QED  BY <1>3, <1>5, <1>6, <1>8, <3>1 DEF Nowhere
  <2>3. ASSUME NEW i \in DOMAIN frontier'
        PROVE  /\ frontier'[i].hops = visited'[frontier'[i].entity]
               /\ here'.hops <= frontier'[i].hops /\ frontier'[i].hops <= here'.hops + 1
    <3>1. /\ i + 1 \in DOMAIN frontier /\ frontier'[i] = frontier[i + 1]
          /\ here'.hops = first.hops
      BY <1>5
    <3>2. /\ frontier[i + 1].hops \in Nat
          /\ frontier[i + 1].hops = visited[frontier[i + 1].entity]
          /\ frontier[i + 1].hops <= here.hops + 1
          /\ first.hops <= frontier[i + 1].hops
      BY <1>4, <1>6, <3>1
    <3> HIDE DEF first
    <3> QED  BY <1>2, <1>3, <1>6, <3>1, <3>2
  <2>4. ASSUME NEW i \in DOMAIN frontier', NEW k \in DOMAIN frontier', i < k
        PROVE  frontier'[i].hops <= frontier'[k].hops /\ frontier'[i].entity # frontier'[k].entity
    <3>1. /\ i + 1 \in DOMAIN frontier /\ frontier'[i] = frontier[i + 1]
          /\ k + 1 \in DOMAIN frontier /\ frontier'[k] = frontier[k + 1]
          /\ i + 1 < k + 1
      BY <1>5, <2>4
    <3> QED  BY <1>4, <3>1
  <2>5. \A k : Expands(k)' <=> Expands(k)
    BY <1>3 DEF Expands
  <2>6. frontier' \in Seq([entity : DOMAIN visited', hops : Nat]) /\ here'.hops \in Nat
    BY <1>3, <1>5, <1>6
  <2> QED  BY <1>3, <2>1, <2>2, <2>3, <2>4, <2>5, <2>6 DEF FrontierIsOrdered
<1>10. ASSUME traversed < MaxEdges, first.hops # here.hops,
              NEW x \in entities, x[1] = w, x[2] \in Near(first.hops)
       PROVE  x \in DOMAIN visited
  <2> DEFINE h == here.hops
             t == x[2]
  <2>1. first.hops = h + 1 /\ h \in Nat
    BY <1>2, <1>6, <1>10
  <2>2. CASE t \in Near(h)
    BY <1>2, <1>10, <2>2 DEF DistancesAreTrue
  <2>3. CASE t \notin Near(h)
    <3>1. PICK c \in ReadyGraphChunks(w) : t \in chunks[c].terms /\ \E u \in chunks[c].terms : u \in Near(h)
      BY <1>2, <1>10, <2>1, <2>3, NearFacts, SMTT(30)
    <3>2. PICK u \in chunks[c].terms : u \in Near(h)
      BY <3>1
    <3>3. u # t
      BY <2>3, <3>2
    <3> DEFINE y == <<w, u>>
    <3>4. y \in entities /\ y[1] = w /\ y[2] = u
      BY <1>2, TableFacts
    <3>5. y \in DOMAIN visited
      <4> HIDE DEF y
      <4> QED  BY <1>2, <1>10, <3>2, <3>4 DEF DistancesAreTrue
    <3>6. visited[y] <= h
      <4>1. IsAway(u, visited[y]) /\ visited[y] \in Nat
        BY <1>2, <3>4, <3>5 DEF DistancesAreTrue
      <4> QED  BY <1>2, <2>1, <3>2, <4>1, AwayIsLeast
    <3>7. y \in Expanded
      <4>1. \A i \in DOMAIN frontier : visited[y] < visited[frontier[i].entity]
        <5> HIDE DEF y
        <5> QED  BY <1>2, <1>4, <1>6, <2>1, <3>5, <3>6, SMTT(30)
      <4>2. visited[y] \in Nat
        BY <1>2, <3>5
      <4>3. y \notin Waiting
        BY <4>1, <4>2 DEF Waiting
      <4> QED  BY <3>5, <4>3 DEF Expanded
    <3>8. visited[y] < search.hops
      <4>1. first.hops <= search.hops
        BY <1>2, <1>6 DEF DistancesAreTrue
      <4> QED  BY <1>2, <2>1, <3>5, <3>6, <4>1
    <3>9. <<w, t>> \in DOMAIN visited
      BY <1>1, <1>10, <3>1, <3>3, <3>7, <3>8, NeighborsAreMet
    <3>10. x = <<w, t>>
      BY <1>2, <1>10 DEF TypeOK
    <3> QED  BY <3>9, <3>10
  <2> QED  BY <2>2, <2>3
<1>11. DistancesAreTrue'
  <2>1. traversed < MaxEdges =>
          \A x \in entities : x[1] = w /\ x[2] \in Near(first.hops) => x \in DOMAIN visited
    BY <1>2, <1>10 DEF DistancesAreTrue
  <2> QED  BY <1>2, <1>3, <1>5, <2>1 DEF DistancesAreTrue
<1>12. ExpandedIsPassedOn'
  <2>1. ASSUME traversed < MaxEdges, NEW x \in Expanded', NEW e \in edges,
               visited[x] < search.hops, Followed(e, x)'
        PROVE  x \in Expanded /\ Followed(e, x)
    <3>1. e[1] = w /\ x[2] \in e[2] /\ ~(x = x1 /\ e \in left')
      BY <1>3, <1>5, <2>1 DEF Followed
    <3>2. x # x1
      BY <1>1, <1>5, <1>6, <2>1, <3>1 DEF Expands
    <3> QED  BY <1>1, <1>8, <3>1, <3>2 DEF Followed
  <2> QED  BY <1>2, <1>3, <2>1 DEF ExpandedIsPassedOn
<1>13. ChunksAreNearest'
  <2>1. \A c \in DOMAIN best : best[c] <= here'.hops + 1
    <3>1. \A c \in DOMAIN best : best[c] \in Nat /\ best[c] <= here.hops + 1
      BY <1>2 DEF ChunksAreNearest, TypeOK
    <3> QED  BY <1>2, <1>5, <1>6, <3>1
  <2> QED  BY <1>2, <1>3, <2>1 DEF ChunksAreNearest
<1>14. EdgesArePaired'
  <2>1. Follows \subseteq Follows'
    <3>1. ASSUME NEW p \in Follows PROVE p \in Follows'
      <4>1. /\ p \in edges \X Expanded
            /\ p[1][1] = w /\ p[2][2] \in p[1][2] /\ p[2] # x1
        BY <1>8 DEF Follows, Followed
      <4>2. Followed(p[1], p[2])'
        BY <1>3, <1>5, <4>1 DEF Followed
      <4>3. p \in (edges \X Expanded)'
        BY <1>3, <1>8, <4>1
      <4> QED  BY <4>2, <4>3 DEF Follows
    <3> QED  BY <3>1
  <2>2. Follows' \subseteq {e \in edges : e[1] = w} \X {x \in entities : x[1] = w}
    BY <1>2, <1>3, <1>6, <1>8 DEF Follows, Followed, Expanded
  <2>3. IsFiniteSet(Follows')
    BY <1>2, <2>2, EdgesWithEndsAreFinite
  <2>4. Cardinality(Follows) <= Cardinality(Follows') /\ Cardinality(Follows) \in Nat /\ Cardinality(Follows') \in Nat
    BY <2>1, <2>3, FS_Subset, FS_CardinalityType
  <2> QED  BY <1>2, <1>3, <2>4 DEF EdgesArePaired
<1>15. TypeOK'
  <2>1. left' \subseteq edges
    BY <1>1
  <2> QED  BY <1>2, <1>3, <2>1 DEF TypeOK
<1>16. GraphInv' /\ ChunksHaveWorkspaces'
  BY <1>1, <1>2, <1>15, SameTables
<1>17. WalkInv'
  BY <1>2, <1>3, <1>9, <1>11, <1>12, <1>13, <1>14 DEF WalkInv
<1>18. IdleIsClear' /\ AnswersAreNearest'
  BY <1>1, <1>3 DEF IdleIsClear, AnswersAreNearest
<1>19. EdgesAreFollowedTwice'
  BY <1>3 DEF RetrievalInv, EdgesAreFollowedTwice
<1> QED
  BY <1>16, <1>17, <1>18, <1>19 DEF RetrievalInv

\* A text with two terms.
LEMMA ManyTerms ==
  ASSUME NEW terms \in SUBSET Terms
  PROVE  /\ \A t, u \in terms : t # u => Cardinality(terms) > 1
         /\ Cardinality(terms) > 1 => \A t \in terms : \E u \in terms : u # t
<1>1. IsFiniteSet(terms) /\ Cardinality(terms) \in Nat
  BY FinitenessAssumption, FS_Subset, FS_CardinalityType DEF FinitenessAssumption
<1>2. ASSUME NEW t \in terms, NEW u \in terms, t # u PROVE Cardinality(terms) > 1
  <2>1. IsFiniteSet(terms \ {t}) /\ Cardinality(terms \ {t}) = Cardinality(terms) - 1
    BY <1>1, FS_RemoveElement
  <2>2. Cardinality(terms \ {t}) # 0
    BY <1>2, <2>1, FS_EmptySet
  <2>3. Cardinality(terms) # 0
    BY <1>1, FS_EmptySet
  <2> QED  BY <1>1, <2>1, <2>2, <2>3
<1>3. ASSUME Cardinality(terms) > 1, NEW t \in terms, \A u \in terms : u = t PROVE FALSE
  <2>1. terms = {t}
    BY <1>3
  <2>2. Cardinality({t}) = 1
    BY FS_Singleton
  <2> QED  BY <1>3, <2>1, <2>2
<1> QED  BY <1>2, <1>3

\* Chunks nearer than what the expansion of here meets have been met.
LEMMA NearerChunksAreMet ==
  ASSUME RetrievalInv, search.phase = "walking", traversed < MaxEdges,
         NEW c \in ReadyGraphChunks(search.workspace),
         here.hops # 0, FoundAt(c, here.hops)
  PROVE  c \in DOMAIN best
<1> DEFINE w == search.workspace
           h == here.hops
<1>1. /\ TypeOK /\ GraphInv /\ ChunksHaveWorkspaces
      /\ w \in Workspaces
      /\ FrontierIsOrdered /\ DistancesAreTrue
      /\ search.hops \in Nat /\ h \in Nat
      /\ \A x \in DOMAIN visited : visited[x] \in Nat
  BY WalkFacts
<1>2. /\ chunks[c].terms \in SUBSET Terms
      /\ Cardinality(chunks[c].terms) > 1
  BY <1>1 DEF TypeOK, ReadyGraphChunks, Chunk, Texts, FoundAt
<1>3. PICK t \in chunks[c].terms : t \in Near(h - 1)
  BY DEF FoundAt, Near
<1>4. PICK u \in chunks[c].terms : u # t
  BY <1>2, <1>3, ManyTerms
<1> DEFINE x == <<w, t>>
<1>5. x \in entities /\ x[1] = w /\ x[2] = t
  BY <1>1, TableFacts
<1>6. h - 1 \in Nat /\ h - 1 <= h
  BY <1>1
<1>7. t \in Near(h)
  <2>1. Near(h - 1) \subseteq Near(h)
    BY <1>1, <1>6, NearFacts
  <2> QED  BY <1>3, <2>1
<1> HIDE DEF x
<1>8. x \in DOMAIN visited
  BY <1>1, <1>5, <1>7 DEF DistancesAreTrue
<1>9. visited[x] <= h - 1
  <2>1. IsAway(t, visited[x]) /\ visited[x] \in Nat
    BY <1>1, <1>5, <1>8 DEF DistancesAreTrue
  <2> QED  BY <1>1, <1>3, <1>6, <2>1, AwayIsLeast
<1>10. x \in Expanded
  <2>1. \A i \in DOMAIN frontier : h <= visited[frontier[i].entity]
    BY <1>1 DEF FrontierIsOrdered
  <2>2. x \notin Waiting
    BY <1>1, <1>8, <1>9, <2>1 DEF Waiting
  <2> QED  BY <1>8, <2>2 DEF Expanded
<1>11. /\ here.entity \in DOMAIN visited /\ visited[here.entity] = h
  BY <1>1 DEF FrontierIsOrdered, Nowhere, Expanded
<1>12. x # here.entity
  BY <1>1, <1>9, <1>11
<1>13. visited[x] < search.hops
  <2>1. h <= search.hops
    BY <1>1, <1>11 DEF DistancesAreTrue
  <2> QED  BY <1>1, <1>8, <1>9, <2>1
<1> QED  BY <1>4, <1>10, <1>12, <1>13, NeighborsAreMet DEF x

\* Every edge has two ends to be followed from.
LEMMA TwoEndsPerEdge ==
  ASSUME GraphInv, ChunksHaveWorkspaces, NEW w,
         NEW F \in SUBSET ({e \in edges : e[1] = w} \X {x \in entities : x[1] = w}),
         \A p \in F : p[2][2] \in p[1][2]
  PROVE  Cardinality(F) <= 2 * Cardinality({e \in edges : e[1] = w})
<1> DEFINE E == {e \in edges : e[1] = w}
           X == {x \in entities : x[1] = w}
           One(e) == CHOOSE t \in e[2] : TRUE
           g == [p \in F |-> <<p[1], IF p[2][2] = One(p[1]) THEN 1 ELSE 2>>]
<1>1. IsFiniteSet(E) /\ Cardinality(E) \in Nat
  BY WorkspacesAreFinite DEF GraphInv
<1>2. IsFiniteSet(1..2) /\ Cardinality(1..2) = 2
  <2>1. /\ IsFiniteSet(1..2)
        /\ Cardinality(1..2) = IF 1 > 2 THEN 0 ELSE 2 - 1 + 1
    BY FS_Interval, 1 \in Int, 2 \in Int
  <2> QED  BY <2>1
<1>3. \A e \in E : \E t, u : e[2] = {t, u}
  <2>1. \A e \in edges : \E t, u \in Terms : e[2] = {t, u}
    BY TableFacts
  <2> QED  BY <2>1
<1>4. \A x \in X : x = <<w, x[2]>>
  BY DEF GraphInv, TypeOK
<1>5. \A p \in F : p[1] \in E /\ p[2] \in X /\ p = <<p[1], p[2]>>
  OBVIOUS
<1> HIDE DEF E, X
<1>6. IsFiniteSet(E \X (1..2)) /\ Cardinality(E \X (1..2)) = Cardinality(E) * 2
  BY <1>1, <1>2, FS_Product
<1>7. g \in [F -> E \X (1..2)]
  BY <1>5
<1>8. ASSUME NEW p \in F, NEW q \in F, g[p] = g[q] PROVE p = q
  <2>1. p[1] = q[1] /\ (p[2][2] = One(p[1]) <=> q[2][2] = One(q[1]))
    BY <1>8
  <2>2. PICK t, u : p[1][2] = {t, u}
    BY <1>3, <1>5
  <2>3. One(p[1]) \in {t, u}
    BY <2>2
  <2>4. p[2][2] \in {t, u} /\ q[2][2] \in {t, u}
    BY <2>1, <2>2
  <2> HIDE DEF One
  <2>5. p[2][2] = q[2][2]
    BY <2>1, <2>3, <2>4
  <2>6. p[2] = q[2]
    BY <1>4, <1>5, <2>5
  <2> QED  BY <1>5, <2>1, <2>6
<1> HIDE DEF g
<1>9. g \in Injection(F, E \X (1..2))
  BY <1>7, <1>8 DEF Injection, IsInjective
<1>10. Cardinality(F) <= Cardinality(E \X (1..2))
  BY <1>6, <1>9, FS_Injection
<1> QED  BY <1>1, <1>6, <1>10 DEF E

\* The other end of an edge is an entity one hop on, met already exactly when
\* it is no farther than that; so it is never met by a shorter way later.
LEMMA OtherEndIsNext ==
  ASSUME RetrievalInv, search.phase = "walking", NEW e \in left
  PROVE  /\ e \in edges /\ e[1] = search.workspace
         /\ traversed < MaxEdges /\ here.hops < search.hops
         /\ here.entity \in Expanded /\ visited[here.entity] = here.hops
         /\ here.entity[2] \in e[2] /\ here.entity[2] \in Near(here.hops)
         /\ OtherEnd(e) \in entities /\ OtherEnd(e)[1] = search.workspace
         /\ OtherEnd(e)[2] \in e[2] /\ OtherEnd(e)[2] \in Near(here.hops + 1)
         /\ \A x \in entities : x[1] = e[1] /\ x[2] \in e[2] => x = here.entity \/ x = OtherEnd(e)
         /\ Improves(OtherEnd(e), here.hops + 1) <=> OtherEnd(e) \notin DOMAIN visited
         /\ OtherEnd(e) \notin DOMAIN visited => IsAway(OtherEnd(e)[2], here.hops + 1)
<1> DEFINE w == search.workspace
           h == here.hops
           a == here.entity
           b == OtherEnd(e)
<1>1. /\ TypeOK /\ GraphInv /\ ChunksHaveWorkspaces
      /\ w \in Workspaces
      /\ FrontierIsOrdered /\ DistancesAreTrue
      /\ search.hops \in Nat /\ h \in Nat
      /\ \A x \in DOMAIN visited : /\ visited[x] \in Nat
                                   /\ x \in entities /\ x[1] = w /\ x = <<w, x[2]>>
  BY WalkFacts
<1>2. /\ e \in edges /\ e[1] = w /\ a[2] \in e[2]
      /\ traversed < MaxEdges /\ h < search.hops
      /\ a \in Expanded /\ visited[a] = h
  BY <1>1 DEF FrontierIsOrdered, EdgesHere, Expands
<1>3. /\ a \in entities /\ a = <<w, a[2]>> /\ a[1] = w /\ a[2] \in Near(h)
  BY <1>1, <1>2 DEF Expanded, DistancesAreTrue, IsAway
<1>4. PICK t \in Terms, u \in Terms : t # u /\ e[2] = {t, u} /\ <<w, t>> \in entities /\ <<w, u>> \in entities
  <2>1. \E t, u \in Terms : t # u /\ e[2] = {t, u} /\ <<e[1], t>> \in entities /\ <<e[1], u>> \in entities
    BY <1>1, <1>2, TableFacts
  <2> QED  BY <1>2, <2>1
<1>5. \A x \in entities : x[1] = w => x = <<w, x[2]>>
  BY <1>1 DEF TypeOK
<1>6. \E x \in entities : x[1] = e[1] /\ x[2] \in e[2] /\ x # a
  <2>1. \A v : <<w, v>>[1] = w /\ <<w, v>>[2] = v
    OBVIOUS
  <2>2. CASE a[2] = t
    <3>1. <<w, u>> # a
      BY <1>3, <1>4, <2>1, <2>2
    <3> QED  BY <1>2, <1>4, <2>1, <3>1
  <2>3. CASE a[2] = u
    <3>1. <<w, t>> # a
      BY <1>3, <1>4, <2>1, <2>3
    <3> QED  BY <1>2, <1>4, <2>1, <3>1
  <2> QED  BY <1>2, <1>4, <2>2, <2>3
<1>7. b \in entities /\ b[1] = e[1] /\ b[2] \in e[2] /\ b # a
  BY <1>6 DEF OtherEnd
<1> HIDE DEF a, b
<1>8. b[2] # a[2]
  BY <1>2, <1>3, <1>5, <1>7
<1>9. e[2] = {a[2], b[2]}
  BY <1>2, <1>4, <1>7, <1>8
<1>10. \A x \in entities : x[1] = e[1] /\ x[2] \in e[2] => x = a \/ x = b
  BY <1>2, <1>3, <1>5, <1>7, <1>9
<1>11. b[2] \in Near(h + 1)
  <2>1. PICK c \in ReadyGraphChunks(e[1]) : e[2] \subseteq chunks[c].terms
    BY <1>1, <1>2, TableFacts
  <2>2. c \in ReadyGraphChunks(w) /\ a[2] \in chunks[c].terms /\ b[2] \in chunks[c].terms
    BY <1>2, <1>7, <2>1
  <2> QED  BY <1>1, <1>3, <2>2, NearFacts
<1>12. b \in DOMAIN visited => ~(h + 1 < visited[b])
  <2>1. SUFFICES ASSUME b \in DOMAIN visited PROVE visited[b] <= h + 1
    BY <1>1
  <2>2. IsAway(b[2], visited[b]) /\ visited[b] \in Nat
    BY <1>1, <2>1 DEF DistancesAreTrue
  <2> QED  BY <1>1, <1>11, <2>2, AwayIsLeast
<1>13. Improves(b, h + 1) <=> b \notin DOMAIN visited
  BY <1>12 DEF Improves
<1>14. b \notin DOMAIN visited => IsAway(b[2], h + 1)
  <2>1. SUFFICES ASSUME b \notin DOMAIN visited PROVE b[2] \notin Near(h)
    BY <1>1, <1>11 DEF IsAway
  <2> QED  BY <1>1, <1>2, <1>7, <2>1 DEF DistancesAreTrue
<1> QED  BY <1>2, <1>3, <1>7, <1>10, <1>11, <1>13, <1>14 DEF a, b

\* A chunk of the edge that was not met before is that many hops away, and one
\* that was is not farther.
LEMMA ChunksOfEdge ==
  ASSUME RetrievalInv, search.phase = "walking", NEW e \in left, NEW c \in Chunks, <<e, c>> \in evidence
  PROVE  /\ Closer(c, here.hops + 1) <=> c \notin DOMAIN best
         /\ c \notin DOMAIN best => IsHops(c, here.hops + 1)
<1> DEFINE h == here.hops
           u == here.entity[2]
           v == OtherEnd(e)[2]
<1>1. /\ TypeOK /\ GraphInv /\ ChunksHaveWorkspaces /\ ChunksAreNearest
      /\ search.hops \in Nat /\ h \in Nat
  BY WalkFacts
<1>2. /\ e \in edges /\ e[1] = search.workspace /\ traversed < MaxEdges
      /\ u \in e[2] /\ u \in Near(h)
  BY OtherEndIsNext
<1>3. c \in ReadyGraphChunks(search.workspace) /\ e[2] \subseteq chunks[c].terms
  BY <1>1, <1>2, TableFacts
<1>4. FoundAt(c, h + 1)
  <2>1. chunks[c].terms \in SUBSET Terms
    BY <1>1 DEF TypeOK, Chunk, Texts
  <2>2. \E t, w \in e[2] : t # w
    <3>1. \E t, w \in Terms : t # w /\ e[2] = {t, w}
      BY <1>1, <1>2, TableFacts
    <3> QED  BY <3>1
  <2>3. Cardinality(chunks[c].terms) > 1
    BY <1>3, <2>1, <2>2, ManyTerms
  <2>4. (h + 1) - 1 = h
    BY <1>1
  <2> QED  BY <1>2, <1>3, <2>3, <2>4 DEF FoundAt, Near
<1>5. ASSUME c \in DOMAIN best PROVE ~(h + 1 < best[c])
  <2>1. IsHops(c, best[c]) /\ best[c] \in Nat \ {0}
    BY <1>1, <1>5 DEF ChunksAreNearest
  <2>2. best[c] <= h + 1
    BY <1>1, <1>4, <2>1, HopsIsLeast
  <2> QED  BY <1>1, <2>1, <2>2
<1>6. ASSUME c \notin DOMAIN best PROVE IsHops(c, h + 1)
  <2>1. ASSUME h + 1 # 1, FoundAt(c, h) PROVE FALSE
    BY <1>1, <1>2, <1>3, <1>6, <2>1, NearerChunksAreMet
  <2>2. (h + 1) - 1 = h
    BY <1>1
  <2> QED  BY <1>3, <1>4, <2>1, <2>2 DEF IsHops
<1> QED  BY <1>5, <1>6 DEF Closer

\* A sequence with one more item.
LEMMA AppendFacts ==
  ASSUME NEW T, NEW s \in Seq(T), NEW x
  PROVE  /\ DOMAIN Append(s, x) = DOMAIN s \cup {Len(s) + 1}
         /\ DOMAIN s = 1..Len(s) /\ Len(s) \in Nat
         /\ \A i \in DOMAIN s : s[i] \in T /\ Append(s, x)[i] = s[i]
         /\ Append(s, x)[Len(s) + 1] = x
<1>1. DOMAIN s = 1..Len(s) /\ Len(s) \in Nat /\ \A i \in DOMAIN s : s[i] \in T
  OBVIOUS
<1>2. s \in Seq(T \cup {x})
  BY <1>1
<1>3. DOMAIN Append(s, x) = 1..(Len(s) + 1)
  BY <1>2
<1>4. \A i \in DOMAIN s : Append(s, x)[i] = s[i]
  BY <1>1, <1>2
<1>5. Append(s, x)[Len(s) + 1] = x
  BY <1>1, <1>2
<1> QED  BY <1>1, <1>3, <1>4, <1>5

\* An edge is followed: its other end is queued if it is new, its chunks are
\* met if they are new.
LEMMA FollowKeepsRetrievalInv ==
  ASSUME RetrievalInv, NEW e \in edges, FollowEdge(e)
  PROVE  RetrievalInv'
<1> DEFINE w == search.workspace
           h == here.hops
           a == here.entity
           b == OtherEnd(e)
           met == {c \in Chunks : <<e, c>> \in evidence /\ Closer(c, h + 1)}
           new == b \notin DOMAIN visited
           item == [entity |-> b, hops |-> h + 1]
<1>1. /\ search.phase = "walking"
      /\ e \in left
      /\ traversed' = traversed + 1
      /\ IF Improves(b, h + 1)
         THEN /\ visited' = [x \in DOMAIN visited \cup {b} |-> IF x = b THEN h + 1 ELSE visited[x]]
              /\ frontier' = Append(frontier, item)
         ELSE UNCHANGED <<visited, frontier>>
      /\ best' = [c \in DOMAIN best \cup met |-> IF c \in met THEN h + 1 ELSE best[c]]
      /\ left' = IF traversed + 1 >= MaxEdges THEN {} ELSE left \ {e}
      /\ UNCHANGED <<tables, search, here>>
  BY DEF FollowEdge
<1>2. /\ TypeOK /\ GraphInv /\ ChunksHaveWorkspaces
      /\ w \in Workspaces
      /\ FrontierIsOrdered /\ DistancesAreTrue /\ ExpandedIsPassedOn
      /\ ChunksAreNearest /\ EdgesArePaired
      /\ search.hops \in Nat /\ MaxEdges \in Nat /\ traversed \in Nat /\ h \in Nat
      /\ \A x \in DOMAIN visited : visited[x] \in Nat /\ x \in entities /\ x[1] = w
  BY <1>1, WalkFacts
<1>3. /\ UNCHANGED <<entities, edges, evidence, chunks, search, here>>
      /\ \A k : Near(k)' = Near(k)
      /\ \A t, k : IsAway(t, k)' <=> IsAway(t, k)
      /\ \A c, k : IsHops(c, k)' <=> IsHops(c, k)
      /\ EdgesHere' = EdgesHere
  BY <1>1, SameDistances DEF tables
<1>4. /\ e[1] = w /\ traversed < MaxEdges /\ h < search.hops
      /\ a \in Expanded /\ visited[a] = h /\ a[2] \in e[2]
      /\ b \in entities /\ b[1] = w
      /\ \A x \in entities : x[1] = e[1] /\ x[2] \in e[2] => x = a \/ x = b
      /\ Improves(b, h + 1) <=> new
      /\ new => IsAway(b[2], h + 1)
  BY <1>1, OtherEndIsNext
<1>5. \A c \in Chunks : <<e, c>> \in evidence =>
        /\ Closer(c, h + 1) <=> c \notin DOMAIN best
        /\ c \notin DOMAIN best => IsHops(c, h + 1)
  BY <1>1, ChunksOfEdge
<1> HIDE DEF b
<1>6. /\ met \subseteq Chunks
      /\ \A c \in met : c \notin DOMAIN best /\ IsHops(c, h + 1)
      /\ \A c \in Chunks : <<e, c>> \in evidence => c \in DOMAIN best \cup met
  BY <1>5
<1> HIDE DEF met
<1>7. /\ new => /\ DOMAIN visited' = DOMAIN visited \cup {b}
                /\ visited'[b] = h + 1
                /\ frontier' = Append(frontier, item)
      /\ ~new => DOMAIN visited' = DOMAIN visited /\ frontier' = frontier
      /\ \A x \in DOMAIN visited : visited'[x] = visited[x] /\ x \in DOMAIN visited'
      /\ b \in DOMAIN visited'
      /\ visited' \in [DOMAIN visited' -> Nat]
  BY <1>1, <1>2, <1>4, SMTT(30) DEF TypeOK
<1>8. /\ DOMAIN best' = DOMAIN best \cup met
      /\ \A c \in met : best'[c] = h + 1
      /\ \A c \in DOMAIN best : best'[c] = best[c]
      /\ best' \in [DOMAIN best' -> Nat]
  BY <1>1, <1>2, <1>6 DEF TypeOK
<1>9. Waiting' = IF new THEN Waiting \cup {b} ELSE Waiting
  <2>1. CASE new
    <3>1. frontier \in Seq([entity : DOMAIN visited, hops : Nat])
      BY <1>2 DEF FrontierIsOrdered
    <3>2. /\ DOMAIN frontier' = DOMAIN frontier \cup {Len(frontier) + 1}
          /\ \A i \in DOMAIN frontier : frontier'[i] = frontier[i]
          /\ frontier'[Len(frontier) + 1] = item
      <4> DEFINE T == [entity : DOMAIN visited, hops : Nat]
      <4> HIDE DEF T, new, item
      <4>1. frontier \in Seq(T)
        BY <3>1 DEF T
      <4> QED  BY <1>7, <2>1, <4>1, AppendFacts
    <3> HIDE DEF new
    <3>3. item.entity = b
      OBVIOUS
    <3> HIDE DEF item
    <3>4. \A y : y \in Waiting' <=> y \in Waiting \/ y = b
      BY <3>2, <3>3 DEF Waiting
    <3> QED  BY <2>1, <3>4
  <2>2. CASE ~new
    BY <1>7, <2>2 DEF Waiting
  <2> QED  BY <2>1, <2>2
<1>10. Expanded' = Expanded
  BY <1>7, <1>9 DEF Expanded, Waiting
<1>11. left' \subseteq left \ {e} /\ (left' # {} => traversed' < MaxEdges)
  BY <1>1, <1>2
<1>12. FrontierIsOrdered'
  <2>1. \A k \in left' : /\ k \in EdgesHere' /\ here'.entity[2] \in k[2]
                         /\ here' # Nowhere /\ Expands(here.hops)'
    <3>1. \A k \in left : /\ k \in EdgesHere /\ here.entity[2] \in k[2]
                          /\ here # Nowhere /\ h < search.hops
      BY <1>2 DEF FrontierIsOrdered, Expands
    <3> QED  BY <1>3, <1>11, <3>1 DEF Expands
  <2>2. here' = Nowhere \/ (here'.entity \in Expanded' /\ visited'[here'.entity] = here'.hops)
    BY <1>3, <1>4, <1>7, <1>10 DEF Expanded
  <2>3. /\ frontier \in Seq([entity : DOMAIN visited, hops : Nat])
        /\ \A i \in DOMAIN frontier :
             /\ frontier[i].entity \in DOMAIN visited /\ frontier[i].hops \in Nat
             /\ frontier[i].hops = visited[frontier[i].entity]
             /\ h <= frontier[i].hops /\ frontier[i].hops <= h + 1
             /\ \A k \in DOMAIN frontier : i < k =>
                  frontier[i].hops <= frontier[k].hops /\ frontier[i].entity # frontier[k].entity
    <3> DEFINE T == [entity : DOMAIN visited, hops : Nat]
    <3>1. frontier \in Seq(T)
      BY <1>2 DEF FrontierIsOrdered
    <3>2. \A i \in DOMAIN frontier : frontier[i] \in T
      <4> HIDE DEF T
      <4> QED  BY <3>1
    <3>3. \A i \in DOMAIN frontier : frontier[i].entity \in DOMAIN visited /\ frontier[i].hops \in Nat
      BY <3>2
    <3> QED  BY <1>2, <3>1, <3>3 DEF FrontierIsOrdered
  <2>4. CASE ~new
    <3>1. DOMAIN visited' = DOMAIN visited /\ frontier' = frontier
      BY <1>7, <2>4
    <3>2. \A i \in DOMAIN frontier : visited'[frontier[i].entity] = visited[frontier[i].entity]
      BY <1>7, <2>3
    <3> QED  BY <1>2, <1>3, <2>1, <2>2, <2>3, <3>1, <3>2 DEF FrontierIsOrdered
  <2>5. CASE new
    <3>1. /\ DOMAIN frontier' = DOMAIN frontier \cup {Len(frontier) + 1}
          /\ DOMAIN frontier = 1..Len(frontier) /\ Len(frontier) \in Nat
          /\ \A i \in DOMAIN frontier : frontier'[i] = frontier[i]
          /\ frontier'[Len(frontier) + 1] = item
      <4> DEFINE T == [entity : DOMAIN visited, hops : Nat]
      <4> HIDE DEF T, new, item
      <4>1. frontier \in Seq(T)
        BY <2>3 DEF T
      <4> QED  BY <1>7, <2>5, <4>1, AppendFacts
    <3>2. frontier' \in Seq([entity : DOMAIN visited', hops : Nat])
      <4> DEFINE T == [entity : DOMAIN visited', hops : Nat]
      <4>1. \A i \in DOMAIN frontier : frontier[i] \in T
        <5> DEFINE U == [entity : DOMAIN visited, hops : Nat]
        <5>1. frontier \in Seq(U)
          BY <2>3
        <5>2. \A i \in DOMAIN frontier : frontier[i] \in U
          <6> HIDE DEF U
          <6> QED  BY <5>1
        <5> QED  BY <1>7, <2>5, <5>2
      <4>2. item \in T
        BY <1>2, <1>7
      <4> HIDE DEF T, new, item
      <4>3. frontier \in Seq(T)
        BY <2>3, <3>1, <4>1, SMTT(30)
      <4>4. frontier' \in Seq(T)
        BY <1>7, <2>5, <4>2, <4>3
      <4> QED  BY <4>4 DEF T
    <3>3. item.entity = b /\ item.hops = h + 1
      OBVIOUS
    <3> HIDE DEF item
    <3>4. ASSUME NEW i \in DOMAIN frontier'
          PROVE  /\ frontier'[i].hops = visited'[frontier'[i].entity]
                 /\ here'.hops <= frontier'[i].hops /\ frontier'[i].hops <= here'.hops + 1
      <4>1. CASE i \in DOMAIN frontier
        BY <1>3, <1>7, <2>3, <3>1, <4>1
      <4>2. CASE i = Len(frontier) + 1
        BY <1>2, <1>3, <1>7, <2>5, <3>1, <3>3, <4>2
      <4> QED  BY <3>1, <4>1, <4>2
    <3>5. ASSUME NEW i \in DOMAIN frontier', NEW k \in DOMAIN frontier', i < k
          PROVE  frontier'[i].hops <= frontier'[k].hops /\ frontier'[i].entity # frontier'[k].entity
      <4>1. i \in DOMAIN frontier
        BY <3>1, <3>5
      <4>2. CASE k \in DOMAIN frontier
        BY <2>3, <3>1, <3>5, <4>1, <4>2
      <4>3. CASE k = Len(frontier) + 1
        <5>1. frontier[i].hops <= h + 1 /\ frontier[i].entity \in DOMAIN visited
          BY <2>3, <4>1
        <5> QED  BY <2>5, <3>1, <3>3, <4>1, <4>3, <5>1
      <4> QED  BY <3>1, <4>2, <4>3
    <3>6. here'.hops \in Nat
      BY <1>2, <1>3
    <3> QED  BY <2>1, <2>2, <3>2, <3>4, <3>5, <3>6 DEF FrontierIsOrdered
  <2> QED  BY <2>4, <2>5
<1>13. DistancesAreTrue'
  <2>1. ASSUME NEW x \in DOMAIN visited'
        PROVE  x[1] = w /\ visited'[x] <= search.hops /\ IsAway(x[2], visited'[x])
    <3>1. CASE x \in DOMAIN visited
      BY <1>2, <1>7, <3>1 DEF DistancesAreTrue
    <3>2. CASE x = b /\ new
      BY <1>2, <1>4, <1>7, <3>2
    <3> QED  BY <1>7, <3>1, <3>2
  <2>2. ASSUME traversed' < MaxEdges, NEW x \in entities, x[1] = w, x[2] \in Near(h)
        PROVE  x \in DOMAIN visited'
    BY <1>2, <1>4, <1>7, <2>2 DEF DistancesAreTrue
  <2> QED  BY <1>3, <2>1, <2>2 DEF DistancesAreTrue
<1>14. ExpandedIsPassedOn'
  <2>1. ASSUME traversed' < MaxEdges, NEW x \in Expanded, NEW k \in edges,
               visited'[x] < search.hops, Followed(k, x)'
        PROVE  /\ \A y \in entities : y[1] = k[1] /\ y[2] \in k[2] => y \in DOMAIN visited'
               /\ \A c \in Chunks : <<k, c>> \in evidence => c \in DOMAIN best'
    <3>1. visited[x] < search.hops
      BY <1>7, <2>1 DEF Expanded
    <3>2. CASE Followed(k, x)
      BY <1>2, <1>4, <1>7, <1>8, <2>1, <3>1, <3>2 DEF ExpandedIsPassedOn
    <3>3. CASE ~Followed(k, x)
      <4>1. k \in left /\ k \notin left'
        BY <1>3, <2>1, <3>3 DEF Followed
      <4>2. k = e
        BY <1>1, <1>2, <2>1, <4>1
      <4>3. a \in DOMAIN visited'
        BY <1>4, <1>7 DEF Expanded
      <4> QED  BY <1>4, <1>6, <1>7, <1>8, <4>2, <4>3
    <3> QED  BY <3>2, <3>3
  <2> QED  BY <1>3, <1>10, <2>1 DEF ExpandedIsPassedOn
<1>15. ChunksAreNearest'
  <2>1. ASSUME NEW c \in DOMAIN best'
        PROVE  IsHops(c, best'[c]) /\ best'[c] <= h + 1 /\ best'[c] \in 1..search.hops
    <3>1. CASE c \in met
      BY <1>2, <1>4, <1>6, <1>8, <3>1
    <3>2. CASE c \in DOMAIN best
      BY <1>2, <1>8, <3>2 DEF ChunksAreNearest
    <3> QED  BY <1>8, <3>1, <3>2
  <2>2. ASSUME NEW x \in Chunks \ DOMAIN best', NEW n \in 1..search.hops, IsHops(x, n), n <= h
        PROVE  FALSE
    <3>1. FoundAt(x, n) /\ x \in ReadyGraphChunks(w)
      BY <2>2 DEF IsHops
    <3>2. n \in Nat \ {0} /\ h \in Nat \ {0}
      BY <1>2, <2>2
    <3>3. FoundAt(x, h)
      BY <1>2, <2>2, <3>1, <3>2, HopsIsLeast
    <3>4. x \in DOMAIN best
      BY <1>1, <1>4, <3>1, <3>2, <3>3, NearerChunksAreMet
    <3> QED  BY <1>8, <2>2, <3>4
  <2>3. ASSUME NEW c \in DOMAIN best', NEW x \in Chunks \ DOMAIN best', NEW n \in 1..search.hops, IsHops(x, n)
        PROVE  best'[c] <= n
    <3>1. best'[c] \in Nat /\ best'[c] <= h + 1 /\ ~(n <= h)
      BY <1>2, <2>1, <2>2, <2>3
    <3> QED  BY <1>2, <3>1
  <2> QED  BY <1>3, <2>1, <2>3 DEF ChunksAreNearest
<1>16. /\ Follows' \in SUBSET ({k \in edges : k[1] = w} \X {x \in entities : x[1] = w})
       /\ \A p \in Follows' : p[2][2] \in p[1][2]
  BY <1>2, <1>3, <1>10 DEF Follows, Followed, Expanded
<1>17. EdgesArePaired'
  <2> DEFINE p == <<e, a>>
  <2>1. p \notin Follows
    BY <1>1 DEF Follows, Followed
  <2>2. p \in Follows'
    <3>1. e \notin left'
      BY <1>11
    <3> QED  BY <1>3, <1>4, <1>10, <3>1 DEF Follows, Followed
  <2>3. ASSUME NEW q \in Follows PROVE q \in Follows'
    <3>1. Followed(q[1], q[2])'
      BY <1>3, <1>11 DEF Follows, Followed
    <3> QED  BY <1>3, <1>10, <3>1 DEF Follows
  <2> HIDE DEF p
  <2>4. IsFiniteSet(Follows')
    BY <1>2, <1>16, EdgesWithEndsAreFinite
  <2>5. Follows \cup {p} \in SUBSET Follows' /\ Follows \in SUBSET Follows'
    BY <2>2, <2>3
  <2>6. IsFiniteSet(Follows) /\ IsFiniteSet(Follows \cup {p})
    BY <2>4, <2>5, FS_Subset
  <2>7. /\ Cardinality(Follows \cup {p}) = Cardinality(Follows) + 1
        /\ Cardinality(Follows \cup {p}) <= Cardinality(Follows')
        /\ Cardinality(Follows) \in Nat /\ Cardinality(Follows') \in Nat
    BY <2>1, <2>4, <2>5, <2>6, FS_AddElement, FS_Subset, FS_CardinalityType
  <2>8. traversed <= Cardinality(Follows)
    BY <1>2 DEF EdgesArePaired
  <2> QED  BY <1>1, <1>2, <2>7, <2>8 DEF EdgesArePaired
<1>18. TypeOK'
  <2>1. left' \subseteq edges
    BY <1>2, <1>11 DEF TypeOK
  <2>2. DOMAIN visited' \subseteq entities
    BY <1>2, <1>4, <1>7
  <2>3. DOMAIN best' \subseteq Chunks
    BY <1>2, <1>6, <1>8 DEF TypeOK
  <2>4. traversed' \in 0..MaxEdges
    BY <1>1, <1>2, <1>4
  <2> QED  BY <1>2, <1>3, <1>7, <1>8, <2>1, <2>2, <2>3, <2>4 DEF TypeOK
<1>19. GraphInv' /\ ChunksHaveWorkspaces'
  BY <1>1, <1>2, <1>18, SameTables
<1>20. WalkInv'
  BY <1>2, <1>3, <1>12, <1>13, <1>14, <1>15, <1>17 DEF WalkInv
<1>21. IdleIsClear' /\ AnswersAreNearest'
  BY <1>1, <1>3 DEF IdleIsClear, AnswersAreNearest
<1>22. EdgesAreFollowedTwice'
  <2>1. Cardinality(Follows') <= 2 * Cardinality({k \in edges : k[1] = w})
    BY <1>2, <1>16, TwoEndsPerEdge
  <2>2. IsFiniteSet(Follows') /\ Cardinality({k \in edges : k[1] = w}) \in Nat
    BY <1>2, <1>16, EdgesWithEndsAreFinite, WorkspacesAreFinite
  <2>3. Cardinality(Follows') \in Nat
    BY <2>2, FS_CardinalityType
  <2>4. traversed' <= 2 * Cardinality({k \in edges : k[1] = w})
    BY <1>1, <1>2, <1>17, <2>1, <2>2, <2>3 DEF EdgesArePaired
  <2> QED  BY <1>3, <2>4 DEF EdgesAreFollowedTwice
<1> QED
  BY <1>19, <1>20, <1>21, <1>22 DEF RetrievalInv

-----------------------------------------------------------------------------
(* The answer.                                                             *)

\* A walk that ends with edges to spare has met every term below its last hop.
LEMMA TermsAreMet ==
  ASSUME RetrievalInv, search.phase = "walking", traversed < MaxEdges, left = {}, frontier = <<>>
  PROVE  \A n \in Nat : n < search.hops =>
           \A x \in entities : x[1] = search.workspace /\ x[2] \in Near(n) =>
             x \in Expanded /\ visited[x] <= n
<1> DEFINE w == search.workspace
           h == here.hops
           Bad == {n \in Nat : n < search.hops /\
                     \E x \in entities : x[1] = w /\ x[2] \in Near(n) /\ x \notin DOMAIN visited}
<1>1. /\ TypeOK /\ GraphInv /\ ChunksHaveWorkspaces
      /\ w \in Workspaces /\ DistancesAreTrue
      /\ search.hops \in Nat /\ h \in Nat
      /\ \A x \in DOMAIN visited : visited[x] \in Nat /\ x \in entities /\ x[1] = w
  BY WalkFacts
<1>2. Expanded = DOMAIN visited
  <2>1. DOMAIN frontier = {}
    OBVIOUS
  <2>2. Waiting = {}
    BY <2>1 DEF Waiting
  <2> QED  BY <2>2 DEF Expanded
<1>3. ASSUME NEW n \in Nat, NEW x \in DOMAIN visited, x[2] \in Near(n) PROVE visited[x] <= n
  <2>1. IsAway(x[2], visited[x]) /\ visited[x] \in Nat
    BY <1>1 DEF DistancesAreTrue
  <2> QED  BY <1>1, <1>3, <2>1, AwayIsLeast
<1>4. ASSUME Bad # {} PROVE FALSE
  <2>1. PICK n \in Bad : \A m \in Bad : n <= m
    <3>1. Bad \in SUBSET Nat
      OBVIOUS
    <3> HIDE DEF Bad
    <3> QED  BY <1>4, <3>1, LeastNumber
  <2>2. PICK x \in entities : x[1] = w /\ x[2] \in Near(n) /\ x \notin DOMAIN visited
    BY <2>1
  <2>3. n \in Nat /\ n < search.hops
    BY <2>1
  <2>4. ~(n <= h)
    <3>1. SUFFICES ASSUME n <= h PROVE x[2] \in Near(h)
      BY <1>1, <2>2 DEF DistancesAreTrue
    <3> QED  BY <1>1, <2>2, <2>3, <3>1, NearFacts
  <2> DEFINE m == n - 1
  <2>5. m \in Nat /\ m < search.hops /\ m + 1 = n /\ ~(n <= m)
    BY <1>1, <2>3, <2>4
  <2>6. \A y \in entities : y[1] = w /\ y[2] \in Near(m) => y \in DOMAIN visited
    <3>1. m \notin Bad
      <4> HIDE DEF Bad, m
      <4> QED  BY <2>1, <2>5
    <3> HIDE DEF m
    <3> QED  BY <2>5, <3>1
  <2> HIDE DEF Bad, m
  <2>7. x[2] \notin Near(m)
    BY <2>2, <2>6
  <2>8. PICK c \in ReadyGraphChunks(w) : x[2] \in chunks[c].terms /\ \E u \in chunks[c].terms : u \in Near(m)
    BY <1>1, <2>2, <2>5, <2>7, NearFacts, SMTT(30)
  <2>9. PICK u \in chunks[c].terms : u \in Near(m)
    BY <2>8
  <2> DEFINE y == <<w, u>>
  <2>10. y \in entities /\ y[1] = w /\ y[2] = u
    BY <1>1, TableFacts
  <2>11. y \in Expanded /\ visited[y] < search.hops
    <3> HIDE DEF y
    <3>1. y \in DOMAIN visited /\ visited[y] <= m
      BY <1>3, <2>5, <2>6, <2>9, <2>10
    <3> QED  BY <1>1, <1>2, <2>5, <3>1
  <2>12. <<w, x[2]>> \in DOMAIN visited
    BY <2>7, <2>8, <2>9, <2>11, NeighborsAreMet
  <2>13. x = <<w, x[2]>>
    BY <1>1, <2>2 DEF TypeOK
  <2> QED  BY <2>2, <2>12, <2>13
<1> QED
  BY <1>2, <1>3, <1>4

\* And every chunk within its hops.
LEMMA ChunksAreMet ==
  ASSUME RetrievalInv, search.phase = "walking", traversed < MaxEdges, left = {}, frontier = <<>>,
         NEW c \in Chunks, NEW n \in 1..search.hops, IsHops(c, n)
  PROVE  c \in DOMAIN best
<1> DEFINE w == search.workspace
<1>1. /\ TypeOK /\ GraphInv /\ ChunksHaveWorkspaces
      /\ w \in Workspaces
      /\ search.hops \in Nat
      /\ \A x \in DOMAIN visited : visited[x] \in Nat
  BY WalkFacts
<1>2. c \in ReadyGraphChunks(w) /\ FoundAt(c, n)
  BY DEF IsHops
<1>3. /\ chunks[c].terms \in SUBSET Terms
      /\ Cardinality(chunks[c].terms) > 1
  BY <1>1, <1>2 DEF TypeOK, Chunk, Texts, FoundAt
<1>4. PICK t \in chunks[c].terms : t \in Near(n - 1)
  BY <1>2 DEF FoundAt, Near
<1>5. PICK u \in chunks[c].terms : u # t
  BY <1>3, <1>4, ManyTerms
<1> DEFINE x == <<w, t>>
<1>6. x \in entities /\ x[1] = w /\ x[2] = t
  BY <1>1, <1>2, TableFacts
<1>7. n - 1 \in Nat /\ n - 1 < search.hops
  BY <1>1
<1>8. x \in Expanded /\ visited[x] < search.hops
  <2> HIDE DEF x
  <2>1. x \in Expanded /\ visited[x] <= n - 1
    BY <1>4, <1>6, <1>7, TermsAreMet
  <2> QED  BY <1>1, <1>7, <2>1 DEF Expanded
<1> QED  BY <1>2, <1>5, <1>8, NeighborsAreMet

\* The walk ends and its nearest chunks are the answer.
LEMMA AnswerKeepsRetrievalInv ==
  ASSUME RetrievalInv, Answer
  PROVE  RetrievalInv'
<1> DEFINE w == search.workspace
           B == DOMAIN best
           inRange == {c \in Chunks : \E n \in 1..search.hops : IsHops(c, n)}
           L == search.limit
<1>1. /\ search.phase = "walking" /\ left = {} /\ frontier = <<>>
      /\ UNCHANGED <<tables, traversal>>
  BY DEF Answer
<1>2. PICK candidates \in SUBSET B, results \in SUBSET B :
        /\ results \subseteq candidates \cap ReadyGraphChunks(w)
        /\ AreNearest(candidates, B, 4 * L)
        /\ AreNearest(results, candidates \cap ReadyGraphChunks(w), L)
        /\ search' = [search EXCEPT !.phase = "answered", !.found = {<<c, best[c]>> : c \in results}]
  BY DEF Answer
<1>3. /\ TypeOK /\ GraphInv /\ ChunksHaveWorkspaces /\ ChunksAreNearest
      /\ search.hops \in Nat /\ L \in Nat \ {0} /\ traversed \in Nat /\ MaxEdges \in Nat
      /\ B \subseteq Chunks /\ \A c \in B : best[c] \in Nat
  BY <1>1, WalkFacts DEF TypeOK
<1>4. /\ search'.phase = "answered" /\ search'.workspace = w /\ search'.terms = search.terms
      /\ search'.hops = search.hops /\ search'.limit = L
      /\ search'.found = {<<c, best[c]>> : c \in results}
      /\ search' \in [phase : {"idle", "walking", "answered"}, workspace : Workspaces \cup {NoWorkspace},
                 terms : Texts, hops : 1..MaxHops, limit : Nat \ {0}, found : SUBSET (Chunks \X Nat)]
  <2>1. {<<c, best[c]>> : c \in results} \in SUBSET (Chunks \X Nat)
    BY <1>2, <1>3
  <2> QED  BY <1>2, <1>3, <2>1 DEF TypeOK
<1>5. /\ \A c, n : IsHops(c, n)' <=> IsHops(c, n)
      /\ traversed' = traversed
  BY <1>1, <1>4, SameDistances DEF traversal
<1>6. \A c \in B : c \in inRange /\ IsHops(c, best[c]) /\ best[c] \in 1..search.hops
  BY <1>3 DEF ChunksAreNearest
<1>7. candidates \cap ReadyGraphChunks(w) = candidates
  BY <1>6 DEF IsHops
<1>8. /\ results \subseteq candidates /\ candidates \subseteq B
      /\ Cardinality(candidates) = IF Cardinality(B) < 4 * L THEN Cardinality(B) ELSE 4 * L
      /\ Cardinality(results) = IF Cardinality(candidates) < L THEN Cardinality(candidates) ELSE L
      /\ \A c \in candidates, x \in B \ candidates : best[c] <= best[x]
      /\ \A c \in results, x \in candidates \ results : best[c] <= best[x]
  BY <1>2, <1>7 DEF AreNearest
<1>9. ASSUME NEW r \in results, NEW c \in inRange \ results, NEW n \in 1..search.hops, IsHops(c, n)
      PROVE  best[r] <= n
  <2>1. CASE c \in B
    <3>1. n = best[c]
      <4>1. n \in Nat \ {0} /\ best[c] \in Nat \ {0} /\ IsHops(c, best[c]) /\ c \in Chunks
        BY <1>3, <1>6, <2>1
      <4> QED  BY <1>3, <1>9, <4>1, HopsAreUnique
    <3>2. best[r] <= best[c]
      BY <1>8, <1>9, <2>1
    <3> QED  BY <3>1, <3>2
  <2>2. CASE c \notin B
    BY <1>3, <1>8, <1>9, <2>2 DEF ChunksAreNearest
  <2> QED  BY <2>1, <2>2
<1>10. ASSUME traversed < MaxEdges
       PROVE  Cardinality(results) = Min({Cardinality(inRange), L})
  <2>1. inRange = B
    BY <1>1, <1>3, <1>6, <1>10, ChunksAreMet
  <2>2. IsFiniteSet(B)
    BY <1>3, FinitenessAssumption, FS_Subset DEF FinitenessAssumption
  <2>3. Cardinality(B) \in Nat
    BY <2>2, FS_CardinalityType
  <2>4. Cardinality(results) = IF Cardinality(B) < L THEN Cardinality(B) ELSE L
    BY <1>3, <1>8, <2>3
  <2> HIDE DEF B, inRange, L
  <2>5. ASSUME NEW i \in Nat, NEW k \in Nat PROVE Min({i, k}) = IF i < k THEN i ELSE k
    BY DEF Min
  <2> QED  BY <1>3, <2>1, <2>3, <2>4, <2>5
<1>11. AnswersAreNearest'
  <2> DEFINE found == {r[1] : r \in search.found}
  <2>1. found' = results /\ inRange' = inRange
    <3>1. found' = {r[1] : r \in {<<c, best[c]>> : c \in results}}
      BY <1>4
    <3>2. {r[1] : r \in {<<c, best[c]>> : c \in results}} = results
      <4> DEFINE pairs == {<<c, best[c]>> : c \in results}
      <4>1. \A r \in pairs : r[1] \in results
        OBVIOUS
      <4>2. \A c \in results : <<c, best[c]>> \in pairs /\ <<c, best[c]>>[1] = c
        OBVIOUS
      <4> HIDE DEF pairs
      <4>3. {r[1] : r \in pairs} = results
        BY <4>1, <4>2
      <4> QED  BY <4>3 DEF pairs
    <3>3. inRange' = inRange
      BY <1>4, <1>5
    <3> HIDE DEF found, inRange
    <3> QED  BY <3>1, <3>2, <3>3
  <2>2. ASSUME NEW r \in search'.found
        PROVE  r[1] \in inRange /\ r[1] \in results /\ r[2] = best[r[1]] /\ IsHops(r[1], r[2])
    BY <1>4, <1>6, <1>8
  <2> HIDE DEF found, inRange
  <2>3. \A r \in search'.found : r[1] \in inRange' /\ IsHops(r[1], r[2])'
    BY <1>5, <2>1, <2>2
  <2>4. \A r \in search'.found, c \in inRange' \ found', n \in 1..search'.hops : IsHops(c, n)' => r[2] <= n
    BY <1>4, <1>5, <1>9, <2>1, <2>2
  <2>5. traversed' < MaxEdges => Cardinality(found') = Min({Cardinality(inRange'), search'.limit})
    BY <1>4, <1>5, <1>10, <2>1
  <2> QED  BY <2>3, <2>4, <2>5 DEF AnswersAreNearest, found, inRange
<1>12. TypeOK'
  BY <1>1, <1>3, <1>4 DEF TypeOK, tables, traversal
<1>13. GraphInv' /\ ChunksHaveWorkspaces'
  BY <1>1, <1>3, <1>12, SameTables
<1>14. IdleIsClear' /\ WalkInv'
  BY <1>4 DEF IdleIsClear, WalkInv
<1>15. EdgesAreFollowedTwice'
  BY <1>1, <1>4 DEF RetrievalInv, EdgesAreFollowedTwice, tables, traversal
<1> QED  BY <1>11, <1>13, <1>14, <1>15 DEF RetrievalInv

\* The answer is returned.
LEMMA ReturnKeepsRetrievalInv == RetrievalInv /\ Return => RetrievalInv'
<1> SUFFICES ASSUME RetrievalInv, Return PROVE RetrievalInv'
  OBVIOUS
<1>1. TypeOK /\ GraphFollowsChunks /\ ChunksHaveWorkspaces
  BY DEF RetrievalInv, GraphInv
<1>2. search' = Idle /\ ClearedTraversal /\ UNCHANGED tables
  BY DEF Return
<1>3. chunks' \in [Chunks -> Chunk] /\ ChunksHaveWorkspaces'
  BY <1>1, <1>2 DEF TypeOK, ChunksHaveWorkspaces, tables
<1>4. GraphFollowsChunks'
  BY <1>1, <1>2 DEF GraphFollowsChunks, tables, EntitiesOf, RelationsOf
<1> QED  BY <1>2, <1>3, <1>4, TablesSuffice

-----------------------------------------------------------------------------
(* The invariant, and what follows from it.                                *)

LEMMA InitEstablishesRetrievalInv == Init => RetrievalInv
<1> SUFFICES ASSUME Init PROVE RetrievalInv
  OBVIOUS
<1> USE DEF Init
<1>1. chunks \in [Chunks -> Chunk] /\ ChunksHaveWorkspaces
  <2>1. {} \in Texts
    BY FS_EmptySet, BudgetsAssumption DEF Texts, BudgetsAssumption
  <2> QED  BY <2>1 DEF Chunk, Blank, ChunksHaveWorkspaces
<1>2. TypeOK
  BY <1>1, IdleIsTyped, BudgetsAssumption DEF TypeOK, None, BudgetsAssumption
<1>3. GraphFollowsChunks
  <2>1. {c \in Chunks : chunks[c].state = "ready"} = {}
    BY DEF Blank
  <2> QED  BY <2>1 DEF GraphFollowsChunks
<1>4. IdleIsClear /\ WalkInv /\ AnswersAreNearest
  BY DEF IdleIsClear, WalkInv, AnswersAreNearest, Idle
<1>5. EdgesAreFollowedTwice
  <2>1. Cardinality({e \in edges : e[1] = search.workspace}) \in Nat
    BY <1>2, WorkspacesAreFinite
  <2> QED  BY <2>1 DEF EdgesAreFollowedTwice
<1> QED  BY <1>1, <1>2, <1>3, <1>4, <1>5 DEF RetrievalInv, GraphInv

\* No step of a writer or of a search leads out of the invariant.
LEMMA NextKeepsRetrievalInv == RetrievalInv /\ [Next]_vars => RetrievalInv'
<1> SUFFICES ASSUME RetrievalInv, [Next]_vars PROVE RetrievalInv'
  OBVIOUS
<1>1. CASE UNCHANGED vars
  <2>1. UNCHANGED <<tables, chunks, edges, evidence, entities, search, frontier, here, left, visited, best, traversed>>
    BY <1>1 DEF vars, tables
  <2>2. /\ \A k : Near(k)' = Near(k)
        /\ \A t, k : IsAway(t, k)' <=> IsAway(t, k)
        /\ \A c, k : IsHops(c, k)' <=> IsHops(c, k)
        /\ EdgesHere' = EdgesHere
    BY <2>1, SameDistances
  <2>3. TypeOK'
    BY <2>1 DEF RetrievalInv, GraphInv, TypeOK
  <2>4. GraphInv' /\ ChunksHaveWorkspaces'
    BY <2>1, <2>3, SameTables DEF RetrievalInv
  <2>5. IdleIsClear' /\ EdgesAreFollowedTwice'
    BY <2>1 DEF RetrievalInv, IdleIsClear, EdgesAreFollowedTwice
  <2>6. AnswersAreNearest'
    BY <2>1, <2>2 DEF RetrievalInv, AnswersAreNearest
  <2>7. /\ Waiting' = Waiting /\ Expanded' = Expanded /\ Follows' = Follows
        /\ \A e, x : Followed(e, x)' <=> Followed(e, x)
        /\ \A k : Expands(k)' <=> Expands(k)
    BY <2>1 DEF Waiting, Expanded, Follows, Followed, Expands
  <2>8. WalkInv'
    <3>1. SUFFICES ASSUME search.phase = "walking"
          PROVE  /\ FrontierIsOrdered' /\ DistancesAreTrue' /\ ExpandedIsPassedOn'
                 /\ ChunksAreNearest' /\ EdgesArePaired'
      BY <2>1 DEF RetrievalInv, WalkInv
    <3>2. FrontierIsOrdered'
      BY <2>1, <2>2, <2>7, <3>1, WalkFacts DEF FrontierIsOrdered
    <3>3. DistancesAreTrue' /\ ChunksAreNearest'
      BY <2>1, <2>2, <3>1, WalkFacts DEF DistancesAreTrue, ChunksAreNearest
    <3>4. ExpandedIsPassedOn' /\ EdgesArePaired'
      BY <2>1, <2>7, <3>1, WalkFacts DEF ExpandedIsPassedOn, EdgesArePaired
    <3> QED  BY <3>2, <3>3, <3>4
  <2> QED  BY <2>4, <2>5, <2>6, <2>8 DEF RetrievalInv
<1>2. CASE Next
  BY <1>2, PrepareKeepsRetrievalInv, PublishKeepsRetrievalInv, RebuildKeepsRetrievalInv,
     RetrieveKeepsRetrievalInv, PopKeepsRetrievalInv, FollowKeepsRetrievalInv,
     AnswerKeepsRetrievalInv, ReturnKeepsRetrievalInv DEF Next
<1> QED  BY <1>1, <1>2

\* The inductive invariant holds of every behaviour.
THEOREM RetrievalInvariance == Spec => []RetrievalInv
<1> QED  BY InitEstablishesRetrievalInv, NextKeepsRetrievalInv, PTL DEF Spec

\* Entities, edges and their evidence are those of the texts of the ready
\* chunks, after any publications and rebuilds of any workspaces.
THEOREM GraphSafety == Spec => []GraphInv
<1>1. RetrievalInv => GraphInv
  BY DEF RetrievalInv
<1> QED  BY <1>1, RetrievalInvariance, PTL

\* A walk follows no edge more than once from either end.
THEOREM TraversalSafety == Spec => []EdgesAreFollowedTwice
<1>1. RetrievalInv => EdgesAreFollowedTwice
  BY DEF RetrievalInv
<1> QED  BY <1>1, RetrievalInvariance, PTL

\* An answer holds the nearest chunks at their true distances, whatever the
\* budgets cut off, and is full when they cut nothing off.
THEOREM AnswerSafety == Spec => []AnswersAreNearest
<1>1. RetrievalInv => AnswersAreNearest
  BY DEF RetrievalInv
<1> QED  BY <1>1, RetrievalInvariance, PTL
=============================================================================
