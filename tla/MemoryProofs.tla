---------------------------- MODULE MemoryProofs ----------------------------
(***************************************************************************)
(* Proofs about modules DurableMemory and WorkingMemory, for every set of  *)
(* memories, grants, workspaces, subjects, sessions and entries and every  *)
(* value of the limits.                                                    *)
(*                                                                         *)
(* A step does one of three things to a memory and one of three to a       *)
(* grant; the two lemmas that say so (MemorySteps, ShareSteps) carry the   *)
(* case analysis of Next, and each invariant follows from them.  A step of *)
(* WorkingMemory is a step of DurableMemory or leaves its variables alone  *)
(* (DurableSteps), so the lemmas about memories apply to it as they are.   *)
(***************************************************************************)
EXTENDS WorkingMemory, SumTheorems

-----------------------------------------------------------------------------
(* Types *)

LEMMA InitTypes == Init => TypeOK
BY DEF Init, TypeOK, Deadline

LEMMA DeadlinesAreTyped ==
  ASSUME now \in Nat, NEW d \in Deadlines
  PROVE  d \in Deadline
BY MemoryAssumption DEF Deadlines, Deadline, MemoryAssumption

\* Tables keep their columns' types, and only stored records hold values.
LEMMA TypesKept == TypeOK /\ [Next]_vars => TypeOK'
<1> SUFFICES ASSUME TypeOK, [Next]_vars PROVE TypeOK'
  OBVIOUS
<1> USE DEF TypeOK
<1>1. ASSUME NEW m \in Memories, NEW w \in Workspaces, NEW d \in Deadlines, CreateMemory(m, w, d)
      PROVE  TypeOK'
  <2>1. d \in Deadline
    BY DeadlinesAreTyped
  <2>2. w # None
    BY MemoryAssumption DEF MemoryAssumption
  <2> QED
    BY <1>1, <2>1, <2>2 DEF CreateMemory, shareVars, Lifecycles
<1>2. ASSUME NEW m \in Memories, NEW to \in Lifecycles, NEW r \in Memories \cup {None},
             NEW d \in Deadlines, TransitionMemory(m, to, d, r)
      PROVE  TypeOK'
  <2>1. d \in Deadline
    BY DeadlinesAreTyped
  <2>2. Append(memoryEvents[m], to) \in Seq(Lifecycles)
    OBVIOUS
  <2>3. "absent" \notin Lifecycles
    BY DEF Lifecycles
  <2> QED
    BY <1>2, <2>1, <2>2, <2>3 DEF TransitionMemory, Enter, shareVars
<1>3. CASE ExpireDueMemories
  <2>1. \A m \in Memories : Append(memoryEvents[m], "expired") \in Seq(Lifecycles)
    BY DEF Lifecycles
  <2>2. \A m \in Due : lifecycle[m] # "absent"
    BY DEF Due
  <2>3. "expired" \in Lifecycles
    BY DEF Lifecycles
  <2> QED
    BY <1>3, <2>1, <2>2, <2>3 DEF ExpireDueMemories, EnterExpired, shareVars
<1>4. ASSUME NEW s \in Shares, NEW m \in Memories, NEW a \in Audiences, NEW d \in Deadlines,
             ProposeShare(s, m, a, d)
      PROVE  TypeOK'
  <2>1. d \in Deadline
    BY DeadlinesAreTyped
  <2>2. m # None /\ a # None
    BY MemoryAssumption DEF MemoryAssumption
  <2> QED
    BY <1>4, <2>1, <2>2 DEF ProposeShare, memoryVars, ShareStates
<1>5. ASSUME NEW s \in Shares, NEW to \in ShareStates, ReviewShare(s, to)
      PROVE  TypeOK'
  <2>1. Append(shareEvents[s], to) \in Seq(ShareStates)
    OBVIOUS
  <2>2. "absent" \notin ShareStates
    BY DEF ShareStates
  <2> QED
    BY <1>5, <2>1, <2>2 DEF ReviewShare, memoryVars
<1>6. CASE Tick
  BY <1>6 DEF Tick, memoryVars, shareVars
<1>7. CASE UNCHANGED vars
  BY <1>7 DEF vars, memoryVars, shareVars
<1> QED
  BY <1>1, <1>2, <1>3, <1>4, <1>5, <1>6, <1>7 DEF Next

-----------------------------------------------------------------------------
(* What a step does to a memory and to a grant *)

MemoryUnmoved(m) ==
  /\ lifecycle'[m] = lifecycle[m]
  /\ workspace'[m] = workspace[m]
  /\ expiresAt'[m] = expiresAt[m]
  /\ supersededBy'[m] = supersededBy[m]
  /\ version'[m] = version[m]
  /\ memoryEvents'[m] = memoryEvents[m]

MemoryCreated(m) ==
  /\ lifecycle[m] = "absent"
  /\ lifecycle'[m] = "proposed"
  /\ version'[m] = 1
  /\ memoryEvents'[m] = <<"proposed">>

MemoryMoved(m) ==
  /\ ValidTransition(lifecycle[m], lifecycle'[m])
  /\ workspace'[m] = workspace[m]
  /\ version'[m] = version[m] + 1
  /\ memoryEvents'[m] = Append(memoryEvents[m], lifecycle'[m])
  /\ lifecycle'[m] = "superseded" =>
       /\ Replaces(m, supersededBy'[m])
       /\ MemoryUnmoved(supersededBy'[m])
  /\ lifecycle'[m] = "published" =>
       /\ UNCHANGED <<now, shareVars>>
       /\ \A n \in Memories \ {m} : MemoryUnmoved(n)

LEMMA MemorySteps ==
  ASSUME TypeOK, [Next]_vars, NEW m \in Memories
  PROVE  MemoryUnmoved(m) \/ MemoryCreated(m) \/ MemoryMoved(m)
<1> USE DEF TypeOK
<1>1. ASSUME NEW n \in Memories, NEW w \in Workspaces, NEW d \in Deadlines, CreateMemory(n, w, d)
      PROVE  MemoryUnmoved(m) \/ MemoryCreated(m)
  BY <1>1 DEF CreateMemory, MemoryUnmoved, MemoryCreated
<1>2. ASSUME NEW n \in Memories, NEW to \in Lifecycles, NEW r \in Memories \cup {None},
             NEW d \in Deadlines, TransitionMemory(n, to, d, r)
      PROVE  MemoryUnmoved(m) \/ MemoryMoved(m)
  <2>1. \A k \in Memories : k # n => MemoryUnmoved(k)
    BY <1>2 DEF TransitionMemory, Enter, MemoryUnmoved
  <2>2. ASSUME m = n PROVE MemoryMoved(m)
    <3>1. lifecycle'[m] = to /\ supersededBy'[m] = r
      BY <1>2, <2>2 DEF TransitionMemory, Enter
    <3>2. to = "superseded" => Replaces(m, r) /\ MemoryUnmoved(r)
      BY <1>2, <2>1, <2>2 DEF TransitionMemory, Replaces
    <3> QED
      BY <1>2, <2>1, <2>2, <3>1, <3>2 DEF TransitionMemory, Enter, MemoryMoved
  <2> QED
    BY <2>1, <2>2
<1>3. CASE ExpireDueMemories
  <2>1. CASE m \in Due
    BY <1>3, <2>1 DEF ExpireDueMemories, EnterExpired, MemoryMoved, Due, ValidTransition
  <2>2. CASE m \notin Due
    BY <1>3, <2>2 DEF ExpireDueMemories, EnterExpired, MemoryUnmoved
  <2> QED
    BY <2>1, <2>2
<1>4. ASSUME UNCHANGED memoryVars PROVE MemoryUnmoved(m)
  BY <1>4 DEF memoryVars, MemoryUnmoved
<1> QED
  BY <1>1, <1>2, <1>3, <1>4 DEF Next, ProposeShare, ReviewShare, Tick, vars

ShareUnmoved(s) ==
  /\ shareState'[s] = shareState[s]
  /\ sharedMemory'[s] = sharedMemory[s]
  /\ audience'[s] = audience[s]
  /\ shareExpiry'[s] = shareExpiry[s]
  /\ sharedVersion'[s] = sharedVersion[s]
  /\ shareEvents'[s] = shareEvents[s]

ShareProposed(s) ==
  /\ UNCHANGED memoryVars
  /\ shareState[s] = "absent"
  /\ shareState'[s] = "pending"
  /\ sharedMemory'[s] \in Memories
  /\ Retrievable(sharedMemory'[s])
  /\ NoCompetingGrant(sharedMemory'[s], audience'[s])
  /\ sharedVersion'[s] = version[sharedMemory'[s]]
  /\ shareEvents'[s] = <<"pending">>
  /\ \A t \in Shares \ {s} : ShareUnmoved(t)

ShareReviewed(s) ==
  /\ UNCHANGED <<now, memoryVars>>
  /\ CanTransitionTo(shareState[s], shareState'[s])
  /\ sharedMemory'[s] = sharedMemory[s]
  /\ audience'[s] = audience[s]
  /\ shareExpiry'[s] = shareExpiry[s]
  /\ sharedVersion'[s] = sharedVersion[s]
  /\ shareEvents'[s] = Append(shareEvents[s], shareState'[s])
  /\ shareState'[s] = "approved" => Retrievable(sharedMemory[s])
  /\ \A t \in Shares \ {s} : ShareUnmoved(t)

LEMMA ShareSteps ==
  ASSUME TypeOK, [Next]_vars, NEW s \in Shares
  PROVE  ShareUnmoved(s) \/ ShareProposed(s) \/ ShareReviewed(s)
<1> USE DEF TypeOK
<1>1. ASSUME UNCHANGED shareVars PROVE ShareUnmoved(s)
  BY <1>1 DEF shareVars, ShareUnmoved
<1>2. ASSUME NEW t \in Shares, NEW m \in Memories, NEW a \in Audiences, NEW d \in Deadlines,
             ProposeShare(t, m, a, d)
      PROVE  ShareUnmoved(s) \/ ShareProposed(s)
  <2>1. \A k \in Shares \ {t} : ShareUnmoved(k)
    BY <1>2 DEF ProposeShare, ShareUnmoved
  <2>2. ASSUME s = t PROVE ShareProposed(s)
    <3>1. sharedMemory'[s] = m /\ audience'[s] = a
      BY <1>2, <2>2 DEF ProposeShare
    <3> QED
      BY <1>2, <2>1, <2>2, <3>1 DEF ProposeShare, ShareProposed
  <2> QED
    BY <2>1, <2>2
<1>3. ASSUME NEW t \in Shares, NEW to \in ShareStates, ReviewShare(t, to)
      PROVE  ShareUnmoved(s) \/ ShareReviewed(s)
  <2>1. CASE s = t
    <3>1. \A k \in Shares \ {t} : ShareUnmoved(k)
      BY <1>3 DEF ReviewShare, ShareUnmoved
    <3> QED
      BY <1>3, <2>1, <3>1 DEF ReviewShare, ShareReviewed
  <2>2. CASE s # t
    BY <1>3, <2>2 DEF ReviewShare, ShareUnmoved
  <2> QED
    BY <2>1, <2>2
<1> QED
  BY <1>1, <1>2, <1>3
  DEF Next, CreateMemory, TransitionMemory, ExpireDueMemories, Tick, vars

-----------------------------------------------------------------------------
(* The invariant *)

LEMMA InitInv == Init => MemoryInv
<1> SUFFICES ASSUME Init PROVE MemoryInv
  OBVIOUS
<1>1. TypeOK
  BY InitTypes
<1>2. OutboxReplays
  BY DEF Init, OutboxReplays
<1>3. Superseded = {}
  BY DEF Init, Superseded
<1>4. SupersessionEnds /\ ReplacementsWerePublished
  BY <1>3 DEF SupersessionEnds, ReplacementsWerePublished
<1>5. GrantsFollowPublication /\ OneLiveGrant
  BY DEF Init, GrantsFollowPublication, OneLiveGrant
<1> QED
  BY <1>1, <1>2, <1>4, <1>5 DEF MemoryInv

\* Appending the state just entered keeps the announced history legal.
LEMMA OutboxKept == TypeOK /\ OutboxReplays /\ [Next]_vars => OutboxReplays'
<1> SUFFICES ASSUME TypeOK, OutboxReplays, [Next]_vars PROVE OutboxReplays'
  OBVIOUS
<1>1. ASSUME NEW m \in Memories
      PROVE  /\ Len(memoryEvents'[m]) = version'[m]
             /\ lifecycle'[m] # "absent" =>
                  version'[m] > 0 /\ memoryEvents'[m][version'[m]] = lifecycle'[m]
             /\ \A i \in 1..(version'[m] - 1) :
                  ValidTransition(memoryEvents'[m][i], memoryEvents'[m][i + 1])
  <2>1. CASE MemoryUnmoved(m)
    BY <2>1 DEF MemoryUnmoved, OutboxReplays
  <2>2. CASE MemoryCreated(m)
    BY <2>2 DEF MemoryCreated
  <2>3. CASE MemoryMoved(m)
    <3> DEFINE e == memoryEvents[m]
               v == version[m]
               to == lifecycle'[m]
    <3>1. /\ e \in Seq(Lifecycles) /\ v \in Nat
          /\ Len(e) = v /\ v > 0 /\ e[v] = lifecycle[m]
          /\ \A i \in 1..(v - 1) : ValidTransition(e[i], e[i + 1])
      BY <2>3 DEF TypeOK, OutboxReplays, MemoryMoved, ValidTransition
    <3>2. ValidTransition(e[v], to)
      BY <2>3, <3>1 DEF MemoryMoved
    <3>3. memoryEvents'[m] = Append(e, to) /\ version'[m] = v + 1
      BY <2>3 DEF MemoryMoved
    <3> HIDE DEF e, v, to
    <3>4. Len(Append(e, to)) = v + 1 /\ Append(e, to)[v + 1] = to
      BY <3>1
    <3>5. ASSUME NEW i \in 1..v PROVE ValidTransition(Append(e, to)[i], Append(e, to)[i + 1])
      <4>1. Append(e, to)[i] = e[i]
        BY <3>1
      <4>2. CASE i = v
        BY <3>2, <3>4, <4>1, <4>2
      <4>3. CASE i < v
        <5>1. Append(e, to)[i + 1] = e[i + 1] /\ i \in 1..(v - 1)
          BY <3>1, <4>3
        <5> QED
          BY <3>1, <4>1, <5>1
      <4> QED
        BY <3>1, <4>2, <4>3
    <3>6. v + 1 > 0 /\ (v + 1) - 1 = v
      BY <3>1
    <3> QED
      BY <3>3, <3>4, <3>5, <3>6 DEF to
  <2> QED
    BY <2>1, <2>2, <2>3, MemorySteps
<1>2. ASSUME NEW s \in Shares
      PROVE  /\ shareState'[s] # "absent" =>
                  /\ shareEvents'[s] # <<>>
                  /\ shareEvents'[s][Len(shareEvents'[s])] = shareState'[s]
             /\ \A i \in 1..(Len(shareEvents'[s]) - 1) :
                  CanTransitionTo(shareEvents'[s][i], shareEvents'[s][i + 1])
  <2>1. CASE ShareUnmoved(s)
    BY <2>1 DEF ShareUnmoved, OutboxReplays
  <2>2. CASE ShareProposed(s)
    BY <2>2 DEF ShareProposed
  <2>3. CASE ShareReviewed(s)
    <3> DEFINE e == shareEvents[s]
               v == Len(shareEvents[s])
               to == shareState'[s]
    <3>1. /\ e \in Seq(ShareStates) /\ v \in Nat /\ Len(e) = v
          /\ v > 0 /\ e[v] = shareState[s]
          /\ \A i \in 1..(v - 1) : CanTransitionTo(e[i], e[i + 1])
      BY <2>3 DEF TypeOK, OutboxReplays, ShareReviewed, CanTransitionTo
    <3>2. CanTransitionTo(e[v], to)
      BY <2>3, <3>1 DEF ShareReviewed
    <3>3. shareEvents'[s] = Append(e, to)
      BY <2>3 DEF ShareReviewed
    <3> HIDE DEF e, v, to
    <3>4. Len(Append(e, to)) = v + 1 /\ Append(e, to)[v + 1] = to /\ Append(e, to) # <<>>
      BY <3>1
    <3>5. ASSUME NEW i \in 1..v PROVE CanTransitionTo(Append(e, to)[i], Append(e, to)[i + 1])
      <4>1. Append(e, to)[i] = e[i]
        BY <3>1
      <4>2. CASE i = v
        BY <3>2, <3>4, <4>1, <4>2
      <4>3. CASE i < v
        <5>1. Append(e, to)[i + 1] = e[i + 1] /\ i \in 1..(v - 1)
          BY <3>1, <4>3
        <5> QED
          BY <3>1, <4>1, <5>1
      <4> QED
        BY <3>1, <4>2, <4>3
    <3>6. (v + 1) - 1 = v
      BY <3>1
    <3> QED
      BY <3>3, <3>4, <3>5, <3>6 DEF to
  <2> QED
    BY <2>1, <2>2, <2>3, ShareSteps
<1> QED
  BY <1>1, <1>2 DEF OutboxReplays

\* The memory superseded last leads out of any set of superseded memories.
LEMMA SupersessionKept ==
  TypeOK /\ SupersessionEnds /\ [Next]_vars => SupersessionEnds'
<1> SUFFICES ASSUME TypeOK, SupersessionEnds, [Next]_vars,
                    NEW M \in SUBSET Superseded', M # {}
             PROVE  \E m \in M : supersededBy'[m] \notin M
  BY DEF SupersessionEnds
<1>1. \A m \in M : m \in Memories /\ lifecycle'[m] = "superseded"
  BY DEF Superseded
<1>2. CASE M \subseteq Superseded
  <2>1. PICK m \in M : supersededBy[m] \notin M
    BY <1>2 DEF SupersessionEnds
  <2>2. supersededBy'[m] = supersededBy[m]
    BY <1>1, <1>2, MemorySteps
    DEF Superseded, MemoryUnmoved, MemoryCreated, MemoryMoved, ValidTransition
  <2> QED
    BY <2>1, <2>2
<1>3. CASE \E m \in M : m \notin Superseded
  <2>1. PICK m \in M : m \notin Superseded
    BY <1>3
  <2>2. MemoryMoved(m)
    BY <1>1, <2>1, MemorySteps DEF Superseded, MemoryUnmoved, MemoryCreated
  <2>3. lifecycle'[supersededBy'[m]] = "published"
    BY <1>1, <2>2 DEF MemoryMoved, MemoryUnmoved, Replaces, Retrievable
  <2> QED
    BY <1>1, <2>3
<1> QED
  BY <1>2, <1>3

LEMMA ReplacementsKept ==
  /\ TypeOK /\ OutboxReplays /\ ReplacementsWerePublished /\ [Next]_vars
  => ReplacementsWerePublished'
<1> DEFINE WasPublished(r) ==
      /\ lifecycle[r] \in {"published", "superseded", "expired"}
      /\ \E i \in 1..Len(memoryEvents[r]) : memoryEvents[r][i] = "published"
    StillPublished(r) ==
      /\ lifecycle'[r] \in {"published", "superseded", "expired"}
      /\ \E i \in 1..Len(memoryEvents'[r]) : memoryEvents'[r][i] = "published"
<1> SUFFICES ASSUME TypeOK, OutboxReplays, ReplacementsWerePublished, [Next]_vars,
                    NEW m \in Superseded'
             PROVE  LET r == supersededBy'[m] IN
                    /\ r \in Memories \ {m}
                    /\ workspace'[r] = workspace'[m]
                    /\ StillPublished(r)
  BY DEF ReplacementsWerePublished
<1>1. m \in Memories /\ lifecycle'[m] = "superseded"
  BY DEF Superseded
<1>2. ASSUME NEW r \in Memories, WasPublished(r)
      PROVE  StillPublished(r) /\ workspace'[r] = workspace[r]
  <2>1. CASE MemoryUnmoved(r)
    BY <1>2, <2>1 DEF MemoryUnmoved
  <2>2. CASE MemoryMoved(r)
    <3>1. memoryEvents[r] \in Seq(Lifecycles)
      BY DEF TypeOK
    <3>2. PICK i \in 1..Len(memoryEvents[r]) : memoryEvents[r][i] = "published"
      BY <1>2
    <3>3. memoryEvents'[r] = Append(memoryEvents[r], lifecycle'[r])
      BY <2>2 DEF MemoryMoved
    <3>4. i \in 1..Len(memoryEvents'[r]) /\ memoryEvents'[r][i] = "published"
      BY <3>1, <3>2, <3>3
    <3>5. lifecycle'[r] \in {"superseded", "expired"} /\ workspace'[r] = workspace[r]
      BY <1>2, <2>2 DEF MemoryMoved, ValidTransition
    <3> QED
      BY <3>4, <3>5
  <2> QED
    BY <1>2, <2>1, <2>2, MemorySteps DEF MemoryCreated
<1>3. CASE m \in Superseded
  <2>1. MemoryUnmoved(m)
    BY <1>1, <1>3, MemorySteps DEF Superseded, MemoryCreated, MemoryMoved, ValidTransition
  <2>2. LET r == supersededBy[m] IN
        r \in Memories \ {m} /\ workspace[r] = workspace[m] /\ WasPublished(r)
    BY <1>3 DEF ReplacementsWerePublished
  <2> HIDE DEF WasPublished, StillPublished
  <2> QED
    BY <1>2, <2>1, <2>2 DEF MemoryUnmoved
<1>4. CASE m \notin Superseded
  <2>1. MemoryMoved(m)
    BY <1>1, <1>4, MemorySteps DEF Superseded, MemoryUnmoved, MemoryCreated
  <2> DEFINE r == supersededBy'[m]
  <2>2. /\ r \in Memories \ {m} /\ workspace[r] = workspace[m]
        /\ lifecycle[r] = "published" /\ MemoryUnmoved(r)
    BY <1>1, <2>1 DEF MemoryMoved, Replaces, Retrievable
  <2>3. /\ memoryEvents[r] \in Seq(Lifecycles) /\ version[r] \in Nat
        /\ Len(memoryEvents[r]) = version[r]
        /\ version[r] > 0 /\ memoryEvents[r][version[r]] = "published"
    BY <2>2 DEF TypeOK, OutboxReplays
  <2>4. WasPublished(r)
    <3>1. version[r] \in 1..Len(memoryEvents[r])
      BY <2>3
    <3> QED
      BY <2>2, <2>3, <3>1
  <2> HIDE DEF r, WasPublished, StillPublished
  <2>5. r \in Memories \ {m} /\ workspace'[r] = workspace'[m] /\ StillPublished(r)
    BY <1>2, <2>1, <2>2, <2>4 DEF MemoryMoved
  <2> QED
    BY <2>5 DEF r
<1> QED
  BY <1>3, <1>4

\* A memory cannot change and stay published, so its grants need not be touched.
LEMMA GrantsKept ==
  TypeOK /\ GrantsFollowPublication /\ [Next]_vars => GrantsFollowPublication'
<1> SUFFICES ASSUME TypeOK, GrantsFollowPublication, [Next]_vars,
                    NEW s \in Shares, shareState'[s] # "absent"
             PROVE  LET m == sharedMemory'[s] IN
                    /\ lifecycle'[m] \in {"published", "superseded", "expired"}
                    /\ lifecycle'[m] = "published" => version'[m] = sharedVersion'[s]
  BY DEF GrantsFollowPublication
<1>1. CASE ShareUnmoved(s)
  <2> DEFINE m == sharedMemory[s]
  <2>1. /\ m \in Memories
        /\ lifecycle[m] \in {"published", "superseded", "expired"}
        /\ lifecycle[m] = "published" => version[m] = sharedVersion[s]
    BY <1>1 DEF ShareUnmoved, TypeOK, GrantsFollowPublication
  <2>2. /\ lifecycle'[m] \in {"published", "superseded", "expired"}
        /\ lifecycle'[m] = "published" => lifecycle[m] = "published" /\ version'[m] = version[m]
    BY <2>1, MemorySteps DEF MemoryUnmoved, MemoryCreated, MemoryMoved, ValidTransition
  <2> QED
    BY <1>1, <2>1, <2>2 DEF ShareUnmoved
<1>2. CASE ShareProposed(s)
  BY <1>2 DEF ShareProposed, memoryVars, Retrievable
<1>3. CASE ShareReviewed(s)
  BY <1>3 DEF ShareReviewed, memoryVars, GrantsFollowPublication, CanTransitionTo
<1> QED
  BY <1>1, <1>2, <1>3, ShareSteps

Live(s) == shareState[s] \in {"pending", "approved"}

LEMMA OneLiveGrantKept == TypeOK /\ OneLiveGrant /\ [Next]_vars => OneLiveGrant'
<1> SUFFICES ASSUME TypeOK, OneLiveGrant, [Next]_vars,
                    NEW s \in Shares, NEW t \in Shares, Live(s)', Live(t)',
                    sharedMemory'[s] = sharedMemory'[t], audience'[s] = audience'[t]
             PROVE  s = t
  BY DEF OneLiveGrant, Live
<1>1. ASSUME NEW k \in Shares, Live(k)', ~ShareProposed(k)
      PROVE  Live(k) /\ sharedMemory'[k] = sharedMemory[k] /\ audience'[k] = audience[k]
  BY <1>1, ShareSteps DEF Live, ShareUnmoved, ShareReviewed, CanTransitionTo
<1>2. ASSUME NEW k \in Shares, NEW j \in Shares, Live(k)', Live(j)', ShareProposed(k),
             sharedMemory'[k] = sharedMemory'[j], audience'[k] = audience'[j]
      PROVE  k = j
  <2>1. \A i \in Shares : Live(i) =>
          ~(sharedMemory[i] = sharedMemory'[k] /\ audience[i] = audience'[k])
    BY <1>2 DEF ShareProposed, NoCompetingGrant, Live
  <2>2. ASSUME k # j PROVE Live(j) /\ sharedMemory'[j] = sharedMemory[j] /\ audience'[j] = audience[j]
    BY <1>2, <2>2 DEF ShareProposed, ShareUnmoved, Live
  <2> QED
    BY <1>2, <2>1, <2>2
<1> QED
  BY <1>1, <1>2 DEF OneLiveGrant, Live

LEMMA InvKept == MemoryInv /\ [Next]_vars => MemoryInv'
BY TypesKept, OutboxKept, SupersessionKept, ReplacementsKept, GrantsKept, OneLiveGrantKept
DEF MemoryInv

\* Every reachable state satisfies the inductive invariant.
THEOREM MemoryInvariance == Spec => []MemoryInv
BY InitInv, InvKept, PTL DEF Spec

-----------------------------------------------------------------------------
(* What the invariant shows *)

\* Records are well typed and only stored ones hold values.
THEOREM MemoryTypeCorrect == Spec => []TypeOK
BY MemoryInvariance, PTL DEF MemoryInv

\* Owners cannot supersede memories in a circle, in whatever order they act.
THEOREM SupersessionSafety == Spec => []SupersessionEnds
BY MemoryInvariance, PTL DEF MemoryInv

\* A superseded memory leads to one its owners published in the same workspace.
THEOREM ReplacementSafety == Spec => []ReplacementsWerePublished
BY MemoryInvariance, PTL DEF MemoryInv

\* One memory has one pending or approved grant for an audience at most.
THEOREM GrantSafety == Spec => []OneLiveGrant
BY MemoryInvariance, PTL DEF MemoryInv

\* Replaying the outbox gives the current lifecycle, version and review states.
THEOREM OutboxSafety == Spec => []OutboxReplays
BY MemoryInvariance, PTL DEF MemoryInv

\* Context packages show other workspaces the version that was reviewed.
THEOREM ReviewedVersionSafety == Spec => []ReviewedVersionIsShown
<1>1. MemoryInv => ReviewedVersionIsShown
  BY DEF MemoryInv, ReviewedVersionIsShown, Cites, Active, Retrievable, GrantsFollowPublication
<1> QED
  BY <1>1, MemoryInvariance, PTL

\* The clock does not go back.
LEMMA ClockAdvances ==
  ASSUME TypeOK, [Next]_vars
  PROVE  now \in Nat /\ now' \in Nat /\ now <= now'
BY DEF TypeOK, Next, vars, CreateMemory, TransitionMemory, ExpireDueMemories,
       ProposeShare, ReviewShare, Tick

\* Once published, a memory that is not retrievable stays so: its deadline is
\* not changed while it is published.
LEMMA WithdrawnForGood ==
  ASSUME TypeOK, [Next]_vars, NEW m \in Memories,
         lifecycle[m] \in {"published", "superseded", "expired"}, Retrievable(m)'
  PROVE  Retrievable(m) /\ MemoryUnmoved(m)
<1>1. MemoryUnmoved(m)
  BY MemorySteps DEF MemoryCreated, MemoryMoved, ValidTransition, Retrievable
<1>2. expiresAt[m] \in Nat \cup {None}
  BY DEF TypeOK, Deadline
<1> QED
  BY <1>1, <1>2, ClockAdvances, MemoryAssumption
  DEF Retrievable, Passed, MemoryUnmoved, MemoryAssumption

\* A grant comes into force only by an approval.
LEMMA ActiveByApproval ==
  ASSUME TypeOK, [Next]_vars, NEW s \in Shares, Active(s)'
  PROVE  \/ Active(s) /\ ShareUnmoved(s)
         \/ /\ ShareReviewed(s)
            /\ shareState[s] = "pending" /\ shareState'[s] = "approved"
<1>1. CASE ShareUnmoved(s)
  <2>1. shareExpiry[s] \in Nat \cup {None}
    BY DEF TypeOK, Deadline
  <2> QED
    BY <1>1, <2>1, ClockAdvances, MemoryAssumption
    DEF Active, Passed, ShareUnmoved, MemoryAssumption
<1>2. CASE ShareReviewed(s)
  BY <1>2 DEF ShareReviewed, Active, CanTransitionTo
<1> QED
  BY <1>1, <1>2, ShareSteps DEF ShareProposed, Active

\* Readers of other workspaces see a memory by review only.
THEOREM ExposureSafety == Spec => ExposureNeedsReview
<1>1. ASSUME MemoryInv, [Next]_vars,
             NEW p \in Subjects, NEW w \in Workspaces, NEW s \in Shares, Cites(p, w, s)'
      PROVE  \/ Cites(p, w, s)
             \/ shareState[s] = "pending" /\ shareState'[s] = "approved"
  <2>1. TypeOK /\ GrantsFollowPublication
    BY <1>1 DEF MemoryInv
  <2>2. SUFFICES ASSUME Active(s), ShareUnmoved(s) PROVE Cites(p, w, s)
    BY <1>1, <2>1, ActiveByApproval DEF Cites
  <2>3. PICK m \in Memories :
          /\ m = sharedMemory[s]
          /\ lifecycle[m] \in {"published", "superseded", "expired"}
    BY <2>1, <2>2 DEF GrantsFollowPublication, TypeOK, Active
  <2>4. m = sharedMemory'[s] /\ audience'[s] = audience[s]
    BY <2>2, <2>3 DEF ShareUnmoved
  <2>5. Retrievable(m)'
    BY <1>1, <2>4 DEF Cites, Retrievable, Passed
  <2>6. Retrievable(m) /\ MemoryUnmoved(m)
    BY <1>1, <2>1, <2>3, <2>5, WithdrawnForGood
  <2>7. /\ workspace'[m] # w
        /\ OrganizationOf[workspace'[m]] = OrganizationOf[w]
        /\ Permits(audience[s], p, w)
    BY <1>1, <2>4 DEF Cites, Permits
  <2> QED
    BY <2>2, <2>3, <2>6, <2>7 DEF Cites, MemoryUnmoved
<1>2. MemoryInv /\ [Next]_vars =>
        [\A p \in Subjects, w \in Workspaces, s \in Shares :
           Cites(p, w, s)' =>
             \/ Cites(p, w, s)
             \/ shareState[s] = "pending" /\ shareState'[s] = "approved"]_vars
  BY <1>1
<1> QED
  BY <1>2, MemoryInvariance, PTL DEF Spec, ExposureNeedsReview

-----------------------------------------------------------------------------
(* Refinement of GovernedKnowledge *)

\* Nothing becomes eligible and nobody gains a grant: what is lost is withdrawn.
LEMMA LosingStep ==
  ASSUME TypeOK, [Next]_vars, Eligible' \subseteq Eligible, Granted' \subseteq Granted
  PROVE  Knowledge!Lose(Withdrawn' \ Withdrawn, Granted \ Granted')
<1>1. Withdrawn \subseteq Withdrawn'
  <2> SUFFICES ASSUME NEW m \in Withdrawn PROVE m \in Withdrawn'
    OBVIOUS
  <2>1. m \in Memories /\ lifecycle[m] \in {"published", "superseded", "expired"}
    BY DEF Withdrawn, Retrievable, Passed
  <2>2. lifecycle'[m] \in {"published", "superseded", "expired"}
    BY <2>1, MemorySteps DEF MemoryUnmoved, MemoryCreated, MemoryMoved, ValidTransition
  <2>3. ~Retrievable(m)'
    BY <2>1, WithdrawnForGood DEF Withdrawn, Retrievable, Passed
  <2> QED
    BY <2>1, <2>2, <2>3 DEF Withdrawn, Retrievable, Passed
<1>2. Eligible \ Eligible' \subseteq Withdrawn'
  <2> SUFFICES ASSUME NEW m \in Eligible, m \notin Eligible' PROVE m \in Withdrawn'
    OBVIOUS
  <2>1. m \in Memories /\ lifecycle[m] = "published"
    BY DEF Eligible, Retrievable, Passed
  <2>2. lifecycle'[m] \in {"published", "superseded", "expired"}
    BY <2>1, MemorySteps DEF MemoryUnmoved, MemoryCreated, MemoryMoved, ValidTransition
  <2> QED
    BY <2>1, <2>2 DEF Withdrawn, Eligible, Retrievable, Passed
<1>3. Eligible \cap Withdrawn = {} /\ Eligible' \cap Withdrawn' = {}
  BY DEF Eligible, Withdrawn, Retrievable, Passed
<1>4. \A g \in Granted' : g[1] \in Eligible'
  BY DEF Granted
<1> HIDE DEF Eligible, Withdrawn, Granted
<1>5. Eligible' = Eligible \ (Withdrawn' \ Withdrawn)
  BY <1>2, <1>3
<1>6. Withdrawn' = Withdrawn \cup (Withdrawn' \ Withdrawn)
  BY <1>1
<1>7. Granted' = {g \in Granted \ (Granted \ Granted') : g[1] \notin Withdrawn' \ Withdrawn}
  BY <1>3, <1>4
<1> QED
  BY <1>5, <1>6, <1>7 DEF Knowledge!Lose

\* Publication makes one memory eligible, and no grant of it exists yet.
LEMMA PublishingStep ==
  ASSUME TypeOK, GrantsFollowPublication, [Next]_vars,
         NEW m \in Eligible', m \notin Eligible
  PROVE  Knowledge!BecomeEligible(m)
<1>1. m \in Memories /\ Retrievable(m)' /\ ~Retrievable(m)
  BY DEF Eligible, Retrievable, Passed
<1>2. lifecycle[m] \notin {"published", "superseded", "expired"}
  BY <1>1, WithdrawnForGood
<1>3. lifecycle'[m] = "published"
  BY <1>1 DEF Retrievable
<1>4. MemoryMoved(m)
  BY <1>1, <1>2, <1>3, MemorySteps DEF MemoryUnmoved, MemoryCreated
<1>5. /\ UNCHANGED <<now, shareVars>>
      /\ \A n \in Memories \ {m} : MemoryUnmoved(n)
      /\ lifecycle[m] = "validated"
  BY <1>3, <1>4 DEF MemoryMoved, ValidTransition
<1>6. \A n \in Memories \ {m} : /\ Retrievable(n)' <=> Retrievable(n)
                              /\ lifecycle'[n] = lifecycle[n]
  BY <1>5 DEF Retrievable, Passed, MemoryUnmoved
<1>7. Eligible' = Eligible \cup {m}
  BY <1>1, <1>6 DEF Eligible, Retrievable, Passed
<1>8. Withdrawn' = Withdrawn /\ m \notin Withdrawn
  BY <1>1, <1>2, <1>6 DEF Withdrawn, Retrievable, Passed
<1>9. InForce' = InForce
  BY <1>5 DEF InForce, Active, Passed, shareVars
<1>10. \A s \in InForce : sharedMemory[s] # m
  BY <1>5 DEF GrantsFollowPublication, InForce, Active
<1>11. UNCHANGED <<sharedMemory, audience>>
  BY <1>5 DEF shareVars
<1>12. Granted' = Granted
  <2>1. \A g \in Memories \X Audiences : g \in Granted' <=> g \in Granted
    BY <1>7, <1>9, <1>10, <1>11 DEF Granted
  <2> QED
    BY <2>1 DEF Granted
<1> QED
  BY <1>7, <1>8, <1>12 DEF Knowledge!BecomeEligible

\* A grant appears only where an owner approves one, about an eligible memory.
LEMMA GrantingStep ==
  ASSUME TypeOK, GrantsFollowPublication, [Next]_vars,
         NEW g \in Granted', g \notin Granted
  PROVE  \E m \in Memories, a \in Audiences : Knowledge!Grant(m, a)
<1>1. PICK m \in Memories, a \in Audiences : g = <<m, a>>
  BY DEF Granted
<1>2. PICK s \in InForce' : sharedMemory'[s] = m /\ audience'[s] = a
  BY <1>1 DEF Granted
<1> s \in Shares /\ Active(s)'
  BY DEF InForce, Active
<1>3. Retrievable(m)'
  BY <1>1 DEF Granted, Eligible, Retrievable, Passed
<1>4. ASSUME Active(s), ShareUnmoved(s) PROVE FALSE
  <2>1. sharedMemory[s] = m /\ audience[s] = a
    BY <1>2, <1>4 DEF ShareUnmoved
  <2>2. lifecycle[m] \in {"published", "superseded", "expired"}
    BY <1>4, <2>1 DEF GrantsFollowPublication, Active
  <2>3. Retrievable(m)
    BY <1>3, <2>2, WithdrawnForGood
  <2> QED
    BY <1>1, <1>4, <2>1, <2>3 DEF Granted, Eligible, InForce, Active, Retrievable, Passed
<1>5. ShareReviewed(s) /\ shareState[s] = "pending" /\ shareState'[s] = "approved"
  BY <1>2, <1>4, ActiveByApproval
<1>6. /\ UNCHANGED <<now, memoryVars>>
      /\ sharedMemory[s] = m /\ audience[s] = a /\ Retrievable(m)
      /\ \A t \in Shares \ {s} : ShareUnmoved(t)
  BY <1>2, <1>5 DEF ShareReviewed
<1>7. \A n \in Memories : (Retrievable(n)' <=> Retrievable(n)) /\ lifecycle'[n] = lifecycle[n]
  BY <1>6 DEF Retrievable, Passed, memoryVars
<1>8. Eligible' = Eligible /\ Withdrawn' = Withdrawn /\ m \in Eligible
  BY <1>6, <1>7 DEF Eligible, Withdrawn, Retrievable, Passed
<1>9. \A t \in Shares \ {s} : /\ t \in InForce' <=> t \in InForce
                             /\ sharedMemory'[t] = sharedMemory[t]
                             /\ audience'[t] = audience[t]
  BY <1>6 DEF ShareUnmoved, InForce, Active, Passed
<1>10. s \notin InForce /\ InForce \subseteq Shares /\ InForce' \subseteq Shares
  BY <1>5 DEF InForce, Active
<1>11. \A h \in Memories \X Audiences : h \in Granted' <=> h \in Granted \/ h = <<m, a>>
  BY <1>2, <1>6, <1>8, <1>9, <1>10 DEF Granted
<1>12. Granted' = Granted \cup {<<m, a>>}
  BY <1>11 DEF Granted
<1> QED
  BY <1>1, <1>8, <1>12 DEF Knowledge!Grant

\* Memories and grants keep the promises of GovernedKnowledge.
THEOREM KnowledgeRefinement == Spec => ImplementsKnowledge
<1>1. Init => Knowledge!KnowledgeInit
  BY DEF Init, Knowledge!KnowledgeInit, Eligible, Withdrawn, Granted, Retrievable, Passed
<1>2. MemoryInv /\ [Next]_vars => [Knowledge!KnowledgeNext]_(Knowledge!knowledgeVars)
  <2> SUFFICES ASSUME MemoryInv, [Next]_vars PROVE Knowledge!KnowledgeNext
    OBVIOUS
  <2>1. TypeOK /\ GrantsFollowPublication
    BY DEF MemoryInv
  <2>2. CASE Eligible' \subseteq Eligible /\ Granted' \subseteq Granted
    <3>1. Knowledge!Lose(Withdrawn' \ Withdrawn, Granted \ Granted')
      BY <2>1, <2>2, LosingStep
    <3>2. Withdrawn' \ Withdrawn \in SUBSET Memories
          /\ Granted \ Granted' \in SUBSET (Memories \X Audiences)
      BY DEF Withdrawn, Granted, Retrievable, Passed
    <3> QED
      BY <3>1, <3>2 DEF Knowledge!KnowledgeNext
  <2>3. ASSUME NEW m \in Eligible', m \notin Eligible PROVE Knowledge!KnowledgeNext
    BY <2>1, <2>3, PublishingStep DEF Knowledge!KnowledgeNext, Eligible, Retrievable, Passed
  <2>4. ASSUME NEW g \in Granted', g \notin Granted PROVE Knowledge!KnowledgeNext
    BY <2>1, <2>4, GrantingStep DEF Knowledge!KnowledgeNext
  <2> QED
    BY <2>2, <2>3, <2>4
<1> QED
  BY <1>1, <1>2, MemoryInvariance, PTL DEF Spec, ImplementsKnowledge, Knowledge!KnowledgeSpec

-----------------------------------------------------------------------------
(* The quota of memories *)

Bounded(S, limit) == IsFiniteSet(S) /\ Cardinality(S) <= limit

LEMMA SubsetBounded ==
  ASSUME NEW S, NEW limit \in Nat, Bounded(S, limit), NEW T \in SUBSET S
  PROVE  Bounded(T, limit)
<1>1. IsFiniteSet(T) /\ Cardinality(T) <= Cardinality(S)
  BY FS_Subset DEF Bounded
<1>2. Cardinality(T) \in Nat /\ Cardinality(S) \in Nat
  BY <1>1, FS_CardinalityType DEF Bounded
<1> QED
  BY <1>1, <1>2 DEF Bounded

LEMMA RoomForOneMore ==
  ASSUME NEW S, NEW limit \in Nat, IsFiniteSet(S), Cardinality(S) < limit, NEW x
  PROVE  Bounded(S \cup {x}, limit)
<1>1. Cardinality(S) \in Nat
  BY FS_CardinalityType
<1>2. /\ IsFiniteSet(S \cup {x})
      /\ Cardinality(S \cup {x}) = Cardinality(S) \/ Cardinality(S \cup {x}) = Cardinality(S) + 1
  BY FS_AddElement
<1> QED
  BY <1>1, <1>2 DEF Bounded

WithinCount == \A w \in Workspaces : Bounded(MemoriesOf(w), MaxMemories)

\* Only a creation makes a memory stored.
LEMMA NothingElseCreates ==
  ASSUME TypeOK, [Next]_vars, NEW m \in Memories, MemoryCreated(m)
  PROVE  \E n \in Memories, w \in Workspaces : \E d \in Deadlines : CreateMemory(n, w, d)
BY DEF MemoryCreated, TypeOK, Next, TransitionMemory, Enter, ValidTransition, ExpireDueMemories,
       EnterExpired, Due, ProposeShare, ReviewShare, Tick, vars, memoryVars

LEMMA WithinCountKept == TypeOK /\ WithinCount /\ [Next]_vars => WithinCount'
<1> SUFFICES ASSUME TypeOK, WithinCount, [Next]_vars PROVE WithinCount'
  OBVIOUS
<1>0. MaxMemories \in Nat
  BY MemoryAssumption DEF MemoryAssumption
<1>1. ASSUME NEW m \in Memories, NEW w \in Workspaces, NEW d \in Deadlines, CreateMemory(m, w, d)
      PROVE  WithinCount'
  <2>1. /\ lifecycle' = [lifecycle EXCEPT ![m] = "proposed"] /\ workspace' = [workspace EXCEPT ![m] = w]
        /\ lifecycle[m] = "absent" /\ Cardinality(MemoriesOf(w)) < MaxMemories
    BY <1>1 DEF CreateMemory, AdmitsMemory
  <2>2. MemoriesOf(w)' = MemoriesOf(w) \cup {m}
    BY <2>1 DEF MemoriesOf, Stored, TypeOK
  <2>3. \A x \in Workspaces \ {w} : MemoriesOf(x)' = MemoriesOf(x)
    BY <2>1 DEF MemoriesOf, Stored, TypeOK
  <2>4. Bounded(MemoriesOf(w) \cup {m}, MaxMemories)
    BY <1>0, <2>1, RoomForOneMore DEF WithinCount, Bounded
  <2> QED
    BY <2>2, <2>3, <2>4 DEF WithinCount, Bounded
<1>2. ASSUME \A m \in Memories : /\ workspace'[m] = workspace[m]
                                 /\ lifecycle'[m] = "absent" <=> lifecycle[m] = "absent"
      PROVE  WithinCount'
  <2>1. \A x \in Workspaces : MemoriesOf(x)' = MemoriesOf(x)
    BY <1>2 DEF MemoriesOf, Stored
  <2> QED
    BY <2>1 DEF WithinCount, Bounded
<1>3. CASE ~ \E m \in Memories, w \in Workspaces : \E d \in Deadlines : CreateMemory(m, w, d)
  <2>1. \A m \in Memories : MemoryUnmoved(m) \/ MemoryMoved(m)
    BY <1>3, MemorySteps, NothingElseCreates
  <2> QED
    BY <1>2, <2>1 DEF MemoryUnmoved, MemoryMoved, ValidTransition
<1> QED
  BY <1>1, <1>3

-----------------------------------------------------------------------------
(* The quota of bytes *)

BytesIn(S) == [m \in S |-> Bytes[m]]

WithinBytes == \A w \in Workspaces : MemoryBytes(w) <= MaxMemoryBytes

LEMMA TotalIn ==
  \A w \in Workspaces :
    MemoryBytes(w) = SumFunction(BytesIn(MemoriesOf(w)))
    /\ MemoryBytes(w)' = SumFunction(BytesIn(MemoriesOf(w)'))
BY DEF MemoryBytes, BytesIn

\* A creation adds the bytes it was admitted for.
LEMMA CreationAddsBytes ==
  ASSUME NEW S \in SUBSET Memories, IsFiniteSet(S), NEW m \in Memories \ S
  PROVE  SumFunction(BytesIn(S \cup {m})) = SumFunction(BytesIn(S)) + Bytes[m]
<1> DEFINE f == BytesIn(S)
           g == BytesIn(S \cup {m})
<1>1. Bytes \in [Memories -> Nat]
  BY MemoryAssumption DEF MemoryAssumption
<1>2. f \in [S -> Nat] /\ g \in [S \cup {m} -> Nat]
  BY <1>1 DEF BytesIn
<1>3. (\A x \in S : g[x] = f[x]) /\ g[m] = Bytes[m]
  BY DEF BytesIn
<1> HIDE DEF f, g
<1>4. SumFunction(g) = SumFunction(f) + g[m]
  BY <1>2, <1>3, TotalOfOneMore
<1> QED
  BY <1>3, <1>4 DEF f, g

LEMMA WithinBytesKept ==
  TypeOK /\ WithinCount /\ WithinBytes /\ [Next]_vars => WithinBytes'
<1> SUFFICES ASSUME TypeOK, WithinCount, WithinBytes, [Next]_vars PROVE WithinBytes'
  OBVIOUS
<1>1. ASSUME NEW m \in Memories, NEW w \in Workspaces, NEW d \in Deadlines, CreateMemory(m, w, d)
      PROVE  WithinBytes'
  <2>1. /\ lifecycle' = [lifecycle EXCEPT ![m] = "proposed"] /\ workspace' = [workspace EXCEPT ![m] = w]
        /\ lifecycle[m] = "absent" /\ MemoryBytes(w) + Bytes[m] <= MaxMemoryBytes
    BY <1>1 DEF CreateMemory, AdmitsMemory
  <2>2. MemoriesOf(w)' = MemoriesOf(w) \cup {m}
    BY <2>1 DEF MemoriesOf, Stored, TypeOK
  <2>3. \A x \in Workspaces \ {w} : MemoriesOf(x)' = MemoriesOf(x)
    BY <2>1 DEF MemoriesOf, Stored, TypeOK
  <2>4. /\ MemoriesOf(w) \in SUBSET Memories /\ m \in Memories \ MemoriesOf(w)
        /\ IsFiniteSet(MemoriesOf(w))
    BY <2>1 DEF MemoriesOf, Stored, WithinCount, Bounded
  <2>5. SumFunction(BytesIn(MemoriesOf(w) \cup {m})) = SumFunction(BytesIn(MemoriesOf(w))) + Bytes[m]
    BY <2>4, CreationAddsBytes
  <2>6. MemoryBytes(w)' <= MaxMemoryBytes
    BY <2>1, <2>2, <2>5, TotalIn
  <2>7. \A x \in Workspaces \ {w} : MemoryBytes(x)' = MemoryBytes(x)
    BY <2>3, TotalIn
  <2> QED
    BY <2>6, <2>7 DEF WithinBytes
<1>2. CASE ~ \E m \in Memories, w \in Workspaces : \E d \in Deadlines : CreateMemory(m, w, d)
  <2>1. \A m \in Memories : MemoryUnmoved(m) \/ MemoryMoved(m)
    BY <1>2, MemorySteps, NothingElseCreates
  <2>2. \A x \in Workspaces : MemoriesOf(x)' = MemoriesOf(x)
    BY <2>1 DEF MemoriesOf, Stored, MemoryUnmoved, MemoryMoved, ValidTransition
  <2> QED
    BY <2>2, TotalIn DEF WithinBytes
<1> QED
  BY <1>1, <1>2

\* Direct creation and promotion keep the memories of a workspace within its
\* quotas: their number, and the bytes of their contents.
THEOREM QuotaSafety == Spec => []WorkspaceWithinQuota
<1>1. Init => WithinCount /\ WithinBytes
  <2> SUFFICES ASSUME Init, NEW w \in Workspaces
               PROVE  Bounded(MemoriesOf(w), MaxMemories) /\ MemoryBytes(w) <= MaxMemoryBytes
    BY DEF WithinCount, WithinBytes
  <2>1. MemoriesOf(w) = {}
    BY DEF Init, MemoriesOf, Stored
  <2>2. MemoryBytes(w) = 0
    BY <2>1, TotalOfNone DEF MemoryBytes
  <2> QED
    BY <2>1, <2>2, FS_EmptySet, MemoryAssumption DEF Bounded, MemoryAssumption
<1>2. TypeOK /\ WithinCount /\ WithinBytes /\ [Next]_vars => WithinCount' /\ WithinBytes'
  BY WithinCountKept, WithinBytesKept
<1>3. WithinCount /\ WithinBytes => WorkspaceWithinQuota
  BY DEF WithinCount, WithinBytes, Bounded, WorkspaceWithinQuota
<1> QED
  BY <1>1, <1>2, <1>3, MemoryTypeCorrect, PTL DEF Spec

-----------------------------------------------------------------------------
(* Working sessions *)

\* A working step is, for the durable tables, a step of module DurableMemory.
LEMMA DurableSteps == TypeOK /\ [WorkingNext]_workingVars => [Next]_vars
<1> SUFFICES ASSUME TypeOK, [WorkingNext]_workingVars PROVE [Next]_vars
  OBVIOUS
<1>1. ASSUME NEW s \in Sessions, NEW p \in Subjects, NEW w \in Workspaces, NEW ttl \in 1..MaxTtl,
             CreateWorkingSession(s, p, w, ttl)
      PROVE  UNCHANGED vars
  BY <1>1 DEF CreateWorkingSession
<1>2. CASE PruneExpiredSessions
  BY <1>2 DEF PruneExpiredSessions
<1>3. ASSUME NEW s \in Sessions, NEW p \in Subjects, NEW w \in Workspaces, NEW e \in Entries,
             NEW t \in Texts, AppendWorkingMemory(s, p, w, e, t)
      PROVE  UNCHANGED vars
  BY <1>3 DEF AppendWorkingMemory
<1>4. ASSUME NEW s \in Sessions, NEW p \in Subjects, NEW w \in Workspaces, NEW t \in Texts,
             UpdateWorkingSummary(s, p, w, t)
      PROVE  UNCHANGED vars
  BY <1>4 DEF UpdateWorkingSummary
<1>5. ASSUME NEW m \in Memories, NEW w \in Workspaces, NEW p \in Subjects, NEW t \in Texts,
             NEW d \in Deadlines, CreateDirectly(m, w, d, p, t)
      PROVE  Next
  <2>1. CreateMemory(m, w, d)
    BY <1>5 DEF CreateDirectly
  <2> QED
    BY <2>1 DEF Next
<1>6. ASSUME NEW s \in Sessions, NEW e \in Entries, NEW p \in Subjects, NEW w \in Workspaces,
             NEW m \in Memories, NEW d \in Deadlines, PromoteWorkingMemory(s, e, p, w, m, d)
      PROVE  Next
  <2>1. CreateMemory(m, w, d)
    BY <1>6 DEF PromoteWorkingMemory, Propose
  <2> QED
    BY <2>1 DEF Next
<1>7. CASE DurableStep
  BY <1>7 DEF DurableStep
<1>8. CASE Restart
  <2>1. CASE Due = {}
    BY <1>8, <2>1 DEF Restart, EnterExpired, TypeOK, vars, memoryVars
  <2>2. CASE Due # {}
    BY <1>8, <2>2 DEF Restart, ExpireDueMemories, Next
  <2> QED
    BY <2>1, <2>2
<1>9. CASE UNCHANGED workingVars
  BY <1>9 DEF workingVars
<1> QED
  BY <1>1, <1>2, <1>3, <1>4, <1>5, <1>6, <1>7, <1>8, <1>9 DEF WorkingNext

\* A memory keeps its workspace and stays stored.
LEMMA StoredStaysPut ==
  ASSUME TypeOK, [WorkingNext]_workingVars, NEW m \in Memories, lifecycle[m] # "absent"
  PROVE  workspace'[m] = workspace[m] /\ lifecycle'[m] # "absent"
<1>1. [Next]_vars
  BY DurableSteps
<1>2. MemoryUnmoved(m) \/ MemoryCreated(m) \/ MemoryMoved(m)
  BY <1>1, MemorySteps
<1> QED
  BY <1>2 DEF MemoryUnmoved, MemoryCreated, MemoryMoved, ValidTransition

-----------------------------------------------------------------------------
(* Types *)

LEMMA WorkingInitTypes == WorkingInit => WorkingTypeOK
BY InitTypes, WorkingAssumption DEF WorkingInit, WorkingTypeOK, WorkingAssumption

LEMMA WorkingTypesKept ==
  WorkingTypeOK /\ [WorkingNext]_workingVars => WorkingTypeOK'
<1> SUFFICES ASSUME WorkingTypeOK, [WorkingNext]_workingVars PROVE WorkingTypeOK'
  OBVIOUS
<1>0. TypeOK' /\ now \in Nat
  BY DurableSteps, TypesKept DEF WorkingTypeOK, TypeOK
<1> USE DEF WorkingTypeOK
<1>1. ASSUME NEW s \in Sessions, NEW p \in Subjects, NEW w \in Workspaces, NEW ttl \in 1..MaxTtl,
             CreateWorkingSession(s, p, w, ttl)
      PROVE  WorkingTypeOK'
  <2>1. p # None
    BY MemoryAssumption DEF MemoryAssumption
  <2>2. now + ttl \in Nat
    BY <1>0, WorkingAssumption DEF WorkingAssumption
  <2> QED
    BY <1>0, <1>1, <2>1, <2>2 DEF CreateWorkingSession, Unexpired, entryVars, originVars
<1>2. CASE PruneExpiredSessions
  BY <1>0, <1>2 DEF PruneExpiredSessions, Unexpired, entryVars, originVars
<1>3. ASSUME NEW s \in Sessions, NEW p \in Subjects, NEW w \in Workspaces, NEW e \in Entries,
             NEW t \in Texts, AppendWorkingMemory(s, p, w, e, t)
      PROVE  WorkingTypeOK'
  <2>1. t # None
    BY WorkingAssumption DEF WorkingAssumption
  <2>2. sessionOwner[s] # None
    BY <1>3 DEF AppendWorkingMemory, Owns, Unexpired
  <2> QED
    BY <1>0, <1>3, <2>1, <2>2 DEF AppendWorkingMemory, Unexpired, originVars
<1>4. ASSUME NEW s \in Sessions, NEW p \in Subjects, NEW w \in Workspaces, NEW t \in Texts,
             UpdateWorkingSummary(s, p, w, t)
      PROVE  WorkingTypeOK'
  BY <1>0, <1>4 DEF UpdateWorkingSummary, Unexpired, entryVars, originVars
<1>5. ASSUME NEW m \in Memories, NEW w \in Workspaces, NEW p \in Subjects, NEW t \in Texts,
             NEW d \in Deadlines, CreateDirectly(m, w, d, p, t)
      PROVE  WorkingTypeOK'
  BY <1>0, <1>5 DEF CreateDirectly, Describe, sessionVars, entryVars
<1>6. ASSUME NEW s \in Sessions, NEW e \in Entries, NEW p \in Subjects, NEW w \in Workspaces,
             NEW m \in Memories, NEW d \in Deadlines, PromoteWorkingMemory(s, e, p, w, m, d)
      PROVE  WorkingTypeOK'
  BY <1>0, <1>6 DEF PromoteWorkingMemory, Describe, Unexpired, entryVars
<1>7. CASE DurableStep
  BY <1>0, <1>7 DEF DurableStep, sessionVars, entryVars, originVars
<1>8. CASE Restart
  <2>1. restarts + 1 \in 0..MaxRestarts
    BY <1>8, WorkingAssumption DEF Restart, WorkingAssumption
  <2>2. UNCHANGED originVars
    BY <1>8 DEF Restart
  <2> QED
    BY <1>0, <1>8, <2>1, <2>2 DEF Restart, entryVars, originVars
<1>9. CASE UNCHANGED workingVars
  BY <1>0, <1>9 DEF workingVars, sessionVars, entryVars, originVars
<1> QED
  BY <1>1, <1>2, <1>3, <1>4, <1>5, <1>6, <1>7, <1>8, <1>9 DEF WorkingNext

-----------------------------------------------------------------------------
(* Capacity *)

SessionsBounded == Bounded(open, MaxSessions)
EntriesBounded  == \A s \in Sessions : Bounded(EntriesOf(s), MaxEntries)

LEMMA SessionsBoundedKept ==
  SessionsBounded /\ [WorkingNext]_workingVars => SessionsBounded'
<1> SUFFICES ASSUME SessionsBounded, [WorkingNext]_workingVars PROVE SessionsBounded'
  OBVIOUS
<1>0. MaxSessions \in Nat
  BY WorkingAssumption DEF WorkingAssumption
<1>1. Unexpired \subseteq open
  BY DEF Unexpired
<1>2. Bounded(Unexpired, MaxSessions)
  BY <1>0, <1>1, SubsetBounded DEF SessionsBounded
<1>3. ASSUME open' \subseteq open PROVE SessionsBounded'
  <2>1. PICK T \in SUBSET open : T = open'
    BY <1>3
  <2> QED
    BY <1>0, <2>1, SubsetBounded DEF SessionsBounded, Bounded
<1>4. ASSUME NEW s \in Sessions, NEW p \in Subjects, NEW w \in Workspaces, NEW ttl \in 1..MaxTtl,
             CreateWorkingSession(s, p, w, ttl)
      PROVE  SessionsBounded'
  <2>1. Cardinality(Unexpired) < MaxSessions /\ open' = Unexpired \cup {s}
    BY <1>4 DEF CreateWorkingSession, HasRoomForSession
  <2>2. Bounded(Unexpired \cup {s}, MaxSessions)
    BY <1>0, <1>2, <2>1, RoomForOneMore DEF Bounded
  <2> QED
    BY <2>1, <2>2 DEF SessionsBounded, Bounded
<1> QED
  BY <1>1, <1>3, <1>4
  DEF WorkingNext, PruneExpiredSessions, AppendWorkingMemory, UpdateWorkingSummary, CreateDirectly,
      PromoteWorkingMemory, DurableStep, Restart, workingVars, sessionVars

LEMMA EntriesBoundedKept ==
  WorkingTypeOK /\ EntriesBounded /\ [WorkingNext]_workingVars => EntriesBounded'
<1> SUFFICES ASSUME WorkingTypeOK, EntriesBounded, [WorkingNext]_workingVars PROVE EntriesBounded'
  OBVIOUS
<1>0. MaxEntries \in Nat
  BY WorkingAssumption DEF WorkingAssumption
<1>1. ASSUME entryOf' = entryOf PROVE EntriesBounded'
  BY <1>1 DEF EntriesBounded, EntriesOf, Bounded
<1>2. ASSUME NEW s \in Sessions, NEW p \in Subjects, NEW w \in Workspaces, NEW e \in Entries,
             NEW t \in Texts, AppendWorkingMemory(s, p, w, e, t)
      PROVE  EntriesBounded'
  <2>1. /\ entryOf' = [entryOf EXCEPT ![e] = s] /\ entryOf[e] = None
        /\ Cardinality(EntriesOf(s)) < MaxEntries
    BY <1>2 DEF AppendWorkingMemory, HasRoomForEntry
  <2>2. EntriesOf(s)' = EntriesOf(s) \cup {e}
    BY <2>1 DEF EntriesOf, WorkingTypeOK
  <2>3. \A x \in Sessions \ {s} : EntriesOf(x)' = EntriesOf(x)
    <3>1. None \notin Sessions
      BY WorkingAssumption DEF WorkingAssumption
    <3> QED
      BY <2>1, <3>1 DEF EntriesOf, WorkingTypeOK
  <2>4. Bounded(EntriesOf(s) \cup {e}, MaxEntries)
    BY <1>0, <2>1, RoomForOneMore DEF EntriesBounded, Bounded
  <2> QED
    BY <2>2, <2>3, <2>4 DEF EntriesBounded, Bounded
<1> QED
  BY <1>1, <1>2
  DEF WorkingNext, CreateWorkingSession, PruneExpiredSessions, UpdateWorkingSummary, CreateDirectly,
      PromoteWorkingMemory, DurableStep, Restart, workingVars, entryVars

-----------------------------------------------------------------------------
(* The origin of memories *)

OriginsTrue ==
  /\ PromotionsAreGenuine
  /\ \A m \in Memories : provenance[m] # None => lifecycle[m] # "absent"

\* A memory's origin is set when the memory is created, and the entry and the
\* session it names keep their records.
LEMMA OriginsKept ==
  WorkingTypeOK /\ OriginsTrue /\ [WorkingNext]_workingVars => OriginsTrue'
<1> SUFFICES ASSUME WorkingTypeOK, OriginsTrue, [WorkingNext]_workingVars,
                    NEW m \in Memories, provenance'[m] # None
             PROVE  /\ entryOf'[provenance'[m]] # None
                    /\ content'[m] = entryText'[provenance'[m]]
                    /\ createdBy'[m] = sessionOwner'[entryOf'[provenance'[m]]]
                    /\ workspace'[m] = sessionWorkspace'[entryOf'[provenance'[m]]]
                    /\ lifecycle'[m] # "absent"
  BY DEF OriginsTrue, PromotionsAreGenuine
<1>1. \A e \in Entries : entryOf[e] # None =>
        /\ entryOf'[e] = entryOf[e] /\ entryText'[e] = entryText[e]
        /\ entryOf[e] \in Sessions
        /\ sessionOwner'[entryOf[e]] = sessionOwner[entryOf[e]]
        /\ sessionWorkspace'[entryOf[e]] = sessionWorkspace[entryOf[e]]
  BY DEF WorkingTypeOK, WorkingNext, CreateWorkingSession, PruneExpiredSessions,
         AppendWorkingMemory, UpdateWorkingSummary, CreateDirectly, PromoteWorkingMemory,
         DurableStep, Restart, workingVars, sessionVars, entryVars
<1>2. CASE provenance'[m] = provenance[m] /\ content'[m] = content[m] /\ createdBy'[m] = createdBy[m]
  <2>1. lifecycle[m] # "absent" /\ TypeOK
    BY <1>2 DEF OriginsTrue, WorkingTypeOK
  <2>2. workspace'[m] = workspace[m] /\ lifecycle'[m] # "absent"
    BY <2>1, StoredStaysPut
  <2>3. provenance[m] \in Entries
    BY <1>2 DEF WorkingTypeOK
  <2> QED
    BY <1>1, <1>2, <2>2, <2>3 DEF OriginsTrue, PromotionsAreGenuine
<1>3. ASSUME NEW n \in Memories, NEW w \in Workspaces, NEW p \in Subjects, NEW t \in Texts,
             NEW d \in Deadlines, CreateDirectly(n, w, d, p, t)
      PROVE  m # n
  BY <1>3 DEF CreateDirectly, Describe, WorkingTypeOK
<1>4. ASSUME NEW s \in Sessions, NEW e \in Entries, NEW p \in Subjects, NEW w \in Workspaces,
             NEW d \in Deadlines, PromoteWorkingMemory(s, e, p, w, m, d)
      PROVE  /\ entryOf'[provenance'[m]] # None
             /\ content'[m] = entryText'[provenance'[m]]
             /\ createdBy'[m] = sessionOwner'[entryOf'[provenance'[m]]]
             /\ workspace'[m] = sessionWorkspace'[entryOf'[provenance'[m]]]
             /\ lifecycle'[m] # "absent"
  <2>1. provenance'[m] = e /\ content'[m] = entryText[e] /\ createdBy'[m] = p
    BY <1>4 DEF PromoteWorkingMemory, Describe, WorkingTypeOK
  <2>2. workspace'[m] = w /\ lifecycle'[m] = "proposed"
    BY <1>4 DEF PromoteWorkingMemory, Propose, CreateMemory, WorkingTypeOK, TypeOK
  <2>3. entryOf[e] = s /\ sessionOwner[s] = p /\ sessionWorkspace[s] = w
    BY <1>4 DEF PromoteWorkingMemory, Owns, EntriesOf
  <2>4. s # None
    BY WorkingAssumption DEF WorkingAssumption
  <2> QED
    BY <1>1, <2>1, <2>2, <2>3, <2>4
<1>5. \/ UNCHANGED originVars
      \/ \E n \in Memories, w \in Workspaces, p \in Subjects, t \in Texts :
           \E d \in Deadlines : CreateDirectly(n, w, d, p, t)
      \/ \E s \in Sessions, e \in Entries, p \in Subjects, w \in Workspaces, n \in Memories :
           \E d \in Deadlines : PromoteWorkingMemory(s, e, p, w, n, d)
  BY DEF WorkingNext, CreateWorkingSession, PruneExpiredSessions, AppendWorkingMemory,
         UpdateWorkingSummary, DurableStep, Restart, workingVars
<1>6. CASE UNCHANGED originVars
  BY <1>2, <1>6 DEF originVars
<1>7. ASSUME NEW n \in Memories, NEW w \in Workspaces, NEW p \in Subjects, NEW t \in Texts,
             NEW d \in Deadlines, CreateDirectly(n, w, d, p, t)
      PROVE  provenance'[m] = provenance[m] /\ content'[m] = content[m] /\ createdBy'[m] = createdBy[m]
  BY <1>3, <1>7 DEF CreateDirectly, Describe, WorkingTypeOK
<1>8. ASSUME NEW s \in Sessions, NEW e \in Entries, NEW p \in Subjects, NEW w \in Workspaces,
             NEW n \in Memories \ {m}, NEW d \in Deadlines, PromoteWorkingMemory(s, e, p, w, n, d)
      PROVE  provenance'[m] = provenance[m] /\ content'[m] = content[m] /\ createdBy'[m] = createdBy[m]
  BY <1>8 DEF PromoteWorkingMemory, Describe, WorkingTypeOK
<1> QED
  BY <1>2, <1>4, <1>5, <1>6, <1>7, <1>8

-----------------------------------------------------------------------------
(* The invariant *)

LEMMA WorkingInvParts ==
  WorkingInv <=> WorkingTypeOK /\ SessionsBounded /\ EntriesBounded /\ OriginsTrue
BY DEF WorkingInv, SessionsWithinCapacity, SessionsBounded, EntriesBounded, Bounded, OriginsTrue

LEMMA WorkingInitInv == WorkingInit => WorkingInv
<1> SUFFICES ASSUME WorkingInit PROVE WorkingInv
  OBVIOUS
<1>1. Bounded({}, MaxSessions) /\ Bounded({}, MaxEntries)
  BY FS_EmptySet, WorkingAssumption DEF Bounded, WorkingAssumption
<1>2. open = {} /\ \A s \in Sessions : EntriesOf(s) = {}
  BY WorkingAssumption DEF WorkingInit, EntriesOf, WorkingAssumption
<1>3. SessionsBounded /\ EntriesBounded
  BY <1>1, <1>2 DEF SessionsBounded, EntriesBounded
<1>4. OriginsTrue
  BY DEF WorkingInit, OriginsTrue, PromotionsAreGenuine
<1> QED
  BY <1>3, <1>4, WorkingInitTypes, WorkingInvParts

LEMMA WorkingInvKept == WorkingInv /\ [WorkingNext]_workingVars => WorkingInv'
<1> SUFFICES ASSUME WorkingInv, [WorkingNext]_workingVars PROVE WorkingInv'
  OBVIOUS
<1>1. WorkingTypeOK /\ SessionsBounded /\ EntriesBounded /\ OriginsTrue
  BY WorkingInvParts
<1>2. WorkingTypeOK' /\ SessionsBounded' /\ EntriesBounded' /\ OriginsTrue'
  BY <1>1, WorkingTypesKept, SessionsBoundedKept, EntriesBoundedKept, OriginsKept
<1> QED
  BY <1>2 DEF WorkingInv, SessionsWithinCapacity, SessionsBounded, EntriesBounded, Bounded,
              OriginsTrue

\* Every reachable state satisfies the invariant: promoted memories tell the
\* truth about their origin in all of them.
THEOREM WorkingInvariance == WorkingSpec => []WorkingInv
BY WorkingInitInv, WorkingInvKept, PTL DEF WorkingSpec

\* The limits on sessions and on entries of a session hold in every state.
THEOREM CapacitySafety == WorkingSpec => []SessionsWithinCapacity
BY WorkingInvariance, PTL DEF WorkingInv

\* The durable tables behave as module DurableMemory says, promotions and
\* restarts included.
THEOREM DurableRefinement == WorkingSpec => ImplementsDurableMemory
<1>1. WorkingInit => Init
  BY DEF WorkingInit
<1>2. WorkingInv => TypeOK
  BY DEF WorkingInv, WorkingTypeOK
<1> QED
  BY <1>1, <1>2, DurableSteps, WorkingInvariance, PTL DEF WorkingSpec, ImplementsDurableMemory, Spec

\* The theorems about module DurableMemory hold here too: a memory, promoted
\* or not, is shown to another workspace only by the approval of a grant.
THEOREM PromotionNeedsReview == WorkingSpec => ExposureNeedsReview
BY DurableRefinement, ExposureSafety DEF ImplementsDurableMemory

-----------------------------------------------------------------------------
(* The budget of a session *)

EntryLengths(E, text) == [e \in E |-> Length[text[e]]]

LEMMA SessionTotal ==
  \A s \in Sessions :
    /\ SessionBytes(s) = SumFunction(EntryLengths(EntriesOf(s), entryText)) + SummaryBytes(s)
    /\ SessionBytes(s)' = SumFunction(EntryLengths(EntriesOf(s)', entryText')) + SummaryBytes(s)'
BY DEF SessionBytes, EntryBytes, EntryLengths

\* The bytes of a session are natural numbers.
LEMMA SessionBytesTyped ==
  ASSUME WorkingTypeOK, EntriesBounded, NEW s \in Sessions
  PROVE  /\ EntryLengths(EntriesOf(s), entryText) \in [EntriesOf(s) -> Nat]
         /\ IsFiniteSet(EntriesOf(s))
         /\ SumFunction(EntryLengths(EntriesOf(s), entryText)) \in Nat
         /\ SummaryBytes(s) \in Nat
<1>1. Length \in [Texts -> Nat] /\ None \notin Sessions
  BY WorkingAssumption DEF WorkingAssumption
<1>2. \A e \in EntriesOf(s) : Length[entryText[e]] \in Nat
  BY <1>1 DEF WorkingTypeOK, EntriesOf
<1>3. EntryLengths(EntriesOf(s), entryText) \in [EntriesOf(s) -> Nat]
  BY <1>2 DEF EntryLengths
<1>4. IsFiniteSet(EntriesOf(s))
  BY DEF EntriesBounded, Bounded
<1>5. SummaryBytes(s) \in Nat
  BY <1>1 DEF WorkingTypeOK, SummaryBytes
<1> QED
  BY <1>3, <1>4, <1>5, TotalIsNat

LEMMA SessionsWithinBudgetKept ==
  WorkingTypeOK /\ EntriesBounded /\ SessionsWithinBudget /\ [WorkingNext]_workingVars
    => SessionsWithinBudget'
<1> SUFFICES ASSUME WorkingTypeOK, EntriesBounded, SessionsWithinBudget, [WorkingNext]_workingVars
             PROVE  SessionsWithinBudget'
  OBVIOUS
<1>0. Length \in [Texts -> Nat] /\ None \notin Sessions \cup Texts
  BY WorkingAssumption DEF WorkingAssumption
<1>1. ASSUME NEW s \in Sessions, NEW p \in Subjects, NEW w \in Workspaces, NEW e \in Entries,
             NEW t \in Texts, AppendWorkingMemory(s, p, w, e, t)
      PROVE  SessionsWithinBudget'
  <2> DEFINE f == EntryLengths(EntriesOf(s), entryText)
             g == EntryLengths(EntriesOf(s) \cup {e}, entryText')
  <2>1. /\ entryOf' = [entryOf EXCEPT ![e] = s] /\ entryOf[e] = None /\ summary' = summary
        /\ entryText' = [entryText EXCEPT ![e] = t]
        /\ SessionBytes(s) + Length[t] <= MaxSessionBytes
    BY <1>1 DEF AppendWorkingMemory, HasRoomForEntry
  <2>2. EntriesOf(s)' = EntriesOf(s) \cup {e} /\ e \notin EntriesOf(s)
    BY <1>0, <2>1 DEF EntriesOf, WorkingTypeOK
  <2>3. \A x \in Sessions \ {s} :
          EntriesOf(x)' = EntriesOf(x) /\ \A i \in EntriesOf(x) : entryText'[i] = entryText[i]
    BY <1>0, <2>1 DEF EntriesOf, WorkingTypeOK
  <2>4. \A x \in Sessions : SummaryBytes(x)' = SummaryBytes(x)
    BY <2>1 DEF SummaryBytes
  <2>5. /\ f \in [EntriesOf(s) -> Nat] /\ IsFiniteSet(EntriesOf(s))
        /\ SumFunction(f) \in Nat /\ SummaryBytes(s) \in Nat
    BY SessionBytesTyped
  <2>6. \A i \in EntriesOf(s) : entryText'[i] = entryText[i]
    BY <2>1, <2>2 DEF EntriesOf, WorkingTypeOK
  <2>7. entryText'[e] = t
    BY <2>1 DEF WorkingTypeOK
  <2>8. \A i \in EntriesOf(s) : Length[entryText'[i]] = f[i] /\ f[i] \in Nat
    BY <2>5, <2>6 DEF EntryLengths
  <2>9. g \in [EntriesOf(s) \cup {e} -> Nat] /\ g[e] = Length[t]
    BY <1>0, <2>7, <2>8 DEF EntryLengths
  <2>10. \A i \in EntriesOf(s) : g[i] = f[i]
    BY <2>8 DEF EntryLengths
  <2>11. SumFunction(g) = SumFunction(f) + g[e]
    <3> HIDE DEF f, g
    <3> QED
      BY <2>2, <2>5, <2>9, <2>10, TotalOfOneMore
  <2>12. SessionBytes(s)' = SessionBytes(s) + Length[t]
    <3>1. SessionBytes(s)' = SumFunction(g) + SummaryBytes(s)
      BY <2>2, <2>4, SessionTotal
    <3>2. SessionBytes(s) = SumFunction(f) + SummaryBytes(s)
      BY SessionTotal
    <3>3. Length[t] \in Nat
      BY <1>0
    <3> HIDE DEF f, g
    <3> QED
      BY <2>5, <2>9, <2>11, <3>1, <3>2, <3>3
  <2>13. \A x \in Sessions \ {s} : SessionBytes(x)' = SessionBytes(x)
    <3> SUFFICES ASSUME NEW x \in Sessions \ {s} PROVE SessionBytes(x)' = SessionBytes(x)
      OBVIOUS
    <3>1. EntryLengths(EntriesOf(x)', entryText') = EntryLengths(EntriesOf(x), entryText)
      BY <2>3 DEF EntryLengths
    <3> QED
      BY <2>4, <3>1, SessionTotal
  <2> QED
    BY <2>1, <2>12, <2>13 DEF SessionsWithinBudget
<1>2. ASSUME NEW s \in Sessions, NEW p \in Subjects, NEW w \in Workspaces, NEW t \in Texts,
             UpdateWorkingSummary(s, p, w, t)
      PROVE  SessionsWithinBudget'
  <2>1. /\ summary' = [summary EXCEPT ![s] = t] /\ entryOf' = entryOf /\ entryText' = entryText
        /\ SessionBytes(s) - SummaryBytes(s) + Length[t] <= MaxSessionBytes
    BY <1>2 DEF UpdateWorkingSummary, HasRoomForSummary, entryVars
  <2>2. \A x \in Sessions :
          SessionBytes(x)' = SumFunction(EntryLengths(EntriesOf(x), entryText)) + SummaryBytes(x)'
    BY <2>1, SessionTotal DEF EntriesOf
  <2>3. SummaryBytes(s)' = Length[t] /\ \A x \in Sessions \ {s} : SummaryBytes(x)' = SummaryBytes(x)
    BY <1>0, <2>1 DEF SummaryBytes, WorkingTypeOK
  <2>4. SessionBytes(s)' = SessionBytes(s) - SummaryBytes(s) + Length[t]
    <3>1. Length[t] \in Nat
      BY <1>0
    <3> QED
      BY <2>2, <2>3, <3>1, SessionBytesTyped, SessionTotal
  <2>5. \A x \in Sessions \ {s} : SessionBytes(x)' = SessionBytes(x)
    BY <2>2, <2>3, SessionTotal
  <2> QED
    BY <2>1, <2>4, <2>5 DEF SessionsWithinBudget
<1>3. ASSUME UNCHANGED <<summary, entryOf, entryText>> PROVE SessionsWithinBudget'
  <2>1. \A x \in Sessions : SessionBytes(x)' = SessionBytes(x)
    BY <1>3 DEF SessionBytes, EntriesOf, EntryBytes, SummaryBytes
  <2> QED
    BY <2>1 DEF SessionsWithinBudget
<1> QED
  BY <1>1, <1>2, <1>3
  DEF WorkingNext, CreateWorkingSession, PruneExpiredSessions, CreateDirectly,
      PromoteWorkingMemory, DurableStep, Restart, workingVars, entryVars, sessionVars

\* The entries and the summary of a session stay within its bytes, and direct
\* creations and promotions together within the quotas of the workspace.
THEOREM BudgetSafety == WorkingSpec => []BudgetsHold
<1>1. WorkingInit => SessionsWithinBudget
  <2> SUFFICES ASSUME WorkingInit, NEW s \in Sessions PROVE SessionBytes(s) <= MaxSessionBytes
    BY DEF SessionsWithinBudget
  <2>1. EntriesOf(s) = {} /\ SummaryBytes(s) = 0
    BY WorkingAssumption DEF WorkingInit, EntriesOf, SummaryBytes, WorkingAssumption
  <2>2. SumFunction([e \in EntriesOf(s) |-> EntryBytes(e)]) = 0
    BY <2>1, TotalOfNone
  <2> QED
    BY <2>1, <2>2, WorkingAssumption DEF SessionBytes, WorkingAssumption
<1>2. WorkingInv /\ SessionsWithinBudget /\ [WorkingNext]_workingVars => SessionsWithinBudget'
  BY WorkingInvParts, SessionsWithinBudgetKept
<1>3. WorkingSpec => []SessionsWithinBudget
  BY <1>1, <1>2, WorkingInvariance, PTL DEF WorkingSpec
<1>4. WorkingSpec => []WorkspaceWithinQuota
  BY DurableRefinement, QuotaSafety DEF ImplementsDurableMemory
<1> QED
  BY <1>3, <1>4, PTL DEF BudgetsHold

-----------------------------------------------------------------------------
(* Ended sessions *)

\* An operation uses a session only while it is open, and opens only a session
\* that did not exist.
LEMMA EndedSteps ==
  ASSUME WorkingInv, [WorkingNext]_workingVars, NEW s \in Sessions, Ended(s)
  PROVE  /\ Ended(s)'
         /\ summary'[s] = summary[s]
         /\ EntriesOf(s)' = EntriesOf(s)
         /\ \A m \in Memories : provenance'[m] # provenance[m] => provenance'[m] \notin EntriesOf(s)
<1>1. WorkingTypeOK /\ now \in Nat
  BY DEF WorkingInv, WorkingTypeOK, TypeOK
<1>2. s \notin Unexpired /\ sessionOwner[s] # None
  BY <1>1 DEF Ended, Unexpired, WorkingTypeOK
<1>3. now' \in Nat /\ now <= now'
  <2>1. TypeOK /\ [Next]_vars
    BY <1>1, DurableSteps DEF WorkingTypeOK
  <2> QED
    BY <2>1, ClockAdvances
<1>4. /\ sessionOwner'[s] = sessionOwner[s]
      /\ sessionExpiry'[s] = sessionExpiry[s]
      /\ summary'[s] = summary[s]
      /\ s \in open' => s \in open
  BY <1>1, <1>2
  DEF WorkingTypeOK, WorkingNext, CreateWorkingSession, PruneExpiredSessions, AppendWorkingMemory,
      UpdateWorkingSummary, CreateDirectly, PromoteWorkingMemory, DurableStep, Restart, workingVars,
      sessionVars, Owns, Unexpired
<1>5. Ended(s)'
  <2>1. sessionExpiry[s] \in Nat
    BY <1>1 DEF WorkingTypeOK
  <2> QED
    BY <1>1, <1>2, <1>3, <1>4, <2>1 DEF Ended
<1>6. EntriesOf(s)' = EntriesOf(s)
  <2>1. ASSUME entryOf' = entryOf PROVE EntriesOf(s)' = EntriesOf(s)
    BY <2>1 DEF EntriesOf
  <2>2. ASSUME NEW x \in Sessions, NEW p \in Subjects, NEW w \in Workspaces, NEW e \in Entries,
               NEW t \in Texts, AppendWorkingMemory(x, p, w, e, t)
        PROVE  EntriesOf(s)' = EntriesOf(s)
    <3>1. x # s /\ entryOf[e] = None /\ entryOf' = [entryOf EXCEPT ![e] = x]
      BY <1>2, <2>2 DEF AppendWorkingMemory, Owns
    <3>2. None # s
      BY WorkingAssumption DEF WorkingAssumption
    <3> QED
      BY <1>1, <3>1, <3>2 DEF EntriesOf, WorkingTypeOK
  <2> QED
    BY <2>1, <2>2
    DEF WorkingNext, CreateWorkingSession, PruneExpiredSessions, UpdateWorkingSummary, CreateDirectly,
        PromoteWorkingMemory, DurableStep, Restart, workingVars, entryVars
<1>7. ASSUME NEW m \in Memories, provenance'[m] # provenance[m]
      PROVE  provenance'[m] \notin EntriesOf(s)
  <2>1. ASSUME NEW n \in Memories, NEW w \in Workspaces, NEW p \in Subjects, NEW t \in Texts,
               NEW d \in Deadlines, CreateDirectly(n, w, d, p, t)
        PROVE  provenance'[m] = None
    BY <1>1, <1>7, <2>1 DEF CreateDirectly, Describe, WorkingTypeOK
  <2>2. ASSUME NEW x \in Sessions, NEW e \in Entries, NEW p \in Subjects, NEW w \in Workspaces,
               NEW n \in Memories, NEW d \in Deadlines, PromoteWorkingMemory(x, e, p, w, n, d)
        PROVE  provenance'[m] = e /\ entryOf[e] # s
    BY <1>1, <1>2, <1>7, <2>2
    DEF PromoteWorkingMemory, Describe, Owns, EntriesOf, WorkingTypeOK
  <2>3. None \notin Entries
    BY WorkingAssumption DEF WorkingAssumption
  <2> QED
    BY <1>7, <2>1, <2>2, <2>3
    DEF EntriesOf, WorkingNext, CreateWorkingSession, PruneExpiredSessions, AppendWorkingMemory,
        UpdateWorkingSummary, DurableStep, Restart, workingVars, originVars
<1> QED
  BY <1>4, <1>5, <1>6, <1>7

\* Nothing is written to a session that has ended or promoted out of it, and
\* it never comes back.
THEOREM ClosureSafety == WorkingSpec => EndedSessionsAreClosed
<1>1. WorkingInv /\ [WorkingNext]_workingVars =>
        [\A s \in Sessions : Ended(s) =>
           /\ Ended(s)'
           /\ summary'[s] = summary[s]
           /\ EntriesOf(s)' = EntriesOf(s)
           /\ \A m \in Memories : provenance'[m] # provenance[m] => provenance'[m] \notin EntriesOf(s)]_workingVars
  BY EndedSteps
<1> QED
  BY <1>1, WorkingInvariance, PTL DEF WorkingSpec, EndedSessionsAreClosed
=============================================================================
