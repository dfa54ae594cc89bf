---------------------------- MODULE OutboxProofs ----------------------------
(***************************************************************************)
(* Replay misses only late events, for any number of scopes, feeds, events *)
(* and ticks.                                                              *)
(***************************************************************************)
EXTENDS Outbox, TLAPS

LEMMA InitOutboxInv == Init => OutboxInv
<1> SUFFICES ASSUME Init PROVE OutboxInv
  OBVIOUS
<1>1. IdsOf({}) = {}
  BY DEF IdsOf
<1>2. TypeOK /\ KeysGrow
  BY <1>1 DEF Init, TypeOK, KeysGrow
<1>3. CursorsPointAtEvents
  BY DEF Init, CursorsPointAtEvents
<1>4. ReplayMissesOnlyLateEvents
  BY <1>1 DEF Init, ReplayMissesOnlyLateEvents, Missed
<1> QED BY <1>2, <1>3, <1>4 DEF OutboxInv

\* A key is above those its process made before, not below the clock, and new.
LEMMA NextKey ==
  ASSUME NEW id, IsNextKey(id)
  PROVE  id > stamp /\ id >= clock /\ id \notin IdsOf(events \cup open)
BY DEF IsNextKey, Follows

LEMMA InsertEventInv ==
  ASSUME OutboxInv, NEW s \in Scopes, InsertEvent(s)
  PROVE  OutboxInv'
<1>1. PICK id \in 1..(MaxTime + MaxEvents) :
        /\ IsNextKey(id)
        /\ open' = open \cup {[id |-> id, scope |-> s]}
        /\ stamp' = id
  BY DEF InsertEvent
<1>2. /\ UNCHANGED <<events, clock, position, saved, received, late>>
      /\ behind' = (behind \/ (stamp = 0 /\ \E e \in events : clock <= e.id))
  BY DEF InsertEvent
<1>3. id \in Nat \ {0} /\ id > stamp /\ id >= clock /\ id \notin IdsOf(events \cup open)
  BY <1>1, NextKey, BoundsAssumption
<1>4. TypeOK'
  <2>1. open' \subseteq Event
    BY <1>1, <1>3 DEF OutboxInv, TypeOK, Event
  <2>2. stamp' \in Nat /\ behind' \in BOOLEAN
    BY <1>1, <1>2, <1>3 DEF OutboxInv, TypeOK
  <2> QED BY <1>2, <2>1, <2>2 DEF OutboxInv, TypeOK
<1>5. CursorsPointAtEvents'
  BY <1>2 DEF OutboxInv, CursorsPointAtEvents, IdsOf
<1>6. ReplayMissesOnlyLateEvents'
  BY <1>2 DEF OutboxInv, ReplayMissesOnlyLateEvents, Missed, IdsOf, TypeOK
<1>7. KeysGrow'
  <2>1. IdsOf(open') \cap IdsOf(events') = {}
    BY <1>1, <1>2, <1>3 DEF OutboxInv, KeysGrow, IdsOf
  <2>2. \A o \in open' : o.id <= stamp'
    BY <1>1, <1>3 DEF OutboxInv, KeysGrow, TypeOK, Event
  <2>3. ~behind' => \A e \in events : e.id < id
    <3>1. ~behind' => ~behind /\ (stamp = 0 => \A e \in events : ~(clock <= e.id))
      BY <1>2, Zenon
    <3>2. stamp \in Nat /\ clock \in Nat /\ \A e \in events : e.id \in Nat
      BY DEF OutboxInv, TypeOK, Event
    <3>3. ~behind /\ stamp # 0 => \A e \in events : e.id <= stamp
      BY DEF OutboxInv, KeysGrow
    <3> QED BY <1>3, <3>1, <3>2, <3>3
  <2>4. ~behind' => \A e \in events', o \in open' : e.id < o.id
    <3>1. ~behind' => \A e \in events, o \in open : e.id < o.id
      BY <1>2 DEF OutboxInv, KeysGrow
    <3> QED BY <1>1, <1>2, <2>3, <3>1
  <2>5. ~behind' => \A e \in events' : e.id <= stamp'
    BY <1>1, <1>2, <2>3, <1>3 DEF OutboxInv, TypeOK, Event
  <2> QED BY <2>1, <2>2, <2>4, <2>5 DEF KeysGrow, IdsOf
<1> QED BY <1>4, <1>5, <1>6, <1>7 DEF OutboxInv

LEMMA CommitInv ==
  ASSUME OutboxInv, Commit
  PROVE  OutboxInv'
<1>1. /\ events' = events \cup open
      /\ late' = late \cup {i \in IdsOf(open) : \E e \in events : e.id > i}
      /\ open' = {}
      /\ UNCHANGED <<stamp, clock, position, saved, received, behind>>
  BY DEF Commit
<1>2. IdsOf(events') = IdsOf(events) \cup IdsOf(open)
  BY <1>1 DEF IdsOf
<1>3. TypeOK'
  <2>1. late' \subseteq Nat
    BY <1>1 DEF OutboxInv, TypeOK, Event, IdsOf
  <2> QED BY <1>1, <2>1 DEF OutboxInv, TypeOK
<1>4. CursorsPointAtEvents'
  BY <1>1, <1>2 DEF OutboxInv, CursorsPointAtEvents
<1>5. ASSUME NEW f \in Feeds, NEW i, i \in Missed(f)'
      PROVE  i \in late'
  <2>1. i <= position[f] /\ i \notin received[f]
    BY <1>1, <1>5 DEF Missed
  <2>2. PICK e \in events' : e.scope \in Covers[f] /\ e.id = i
    BY <1>5 DEF Missed, IdsOf
  <2>3. CASE e \in events
    <3>1. i \in Missed(f)
      BY <2>1, <2>2, <2>3 DEF Missed, IdsOf
    <3> QED BY <1>1, <3>1 DEF OutboxInv, ReplayMissesOnlyLateEvents
  <2>4. CASE e \in open
    <3>1. i \in Nat \ {0} /\ i \in IdsOf(open) /\ position[f] \in Nat
      BY <2>2, <2>4 DEF OutboxInv, TypeOK, Event, IdsOf
    <3>2. position[f] \in IdsOf(events)
      BY <2>1, <3>1 DEF OutboxInv, CursorsPointAtEvents
    <3>3. position[f] > i
      BY <2>1, <3>1, <3>2 DEF OutboxInv, KeysGrow
    <3> QED BY <1>1, <3>1, <3>2, <3>3 DEF IdsOf
  <2> QED BY <1>1, <2>3, <2>4
<1>6. late' # {} => behind'
  BY <1>1 DEF OutboxInv, ReplayMissesOnlyLateEvents, KeysGrow, IdsOf, TypeOK, Event
<1>7. KeysGrow'
  <2>1. stamp # 0 => (~behind => \A e \in events' : e.id <= stamp)
    BY <1>1 DEF OutboxInv, KeysGrow
  <2> QED BY <1>1, <2>1 DEF KeysGrow, IdsOf
<1> QED BY <1>3, <1>4, <1>5, <1>6, <1>7 DEF OutboxInv, ReplayMissesOnlyLateEvents

\* The page that is handled leaves no hole before the new cursor.
LEMMA ListInv ==
  ASSUME OutboxInv, NEW f \in Feeds, ListOutboxEvents(f)
  PROVE  OutboxInv'
<1>1. PICK limit \in 1..MaxLimit, page \in SUBSET After(f) :
        /\ IsPage(f, page, limit)
        /\ \E last \in page :
             /\ \A e \in page : e.id <= last.id
             /\ position' = [position EXCEPT ![f] = last.id]
        /\ received' = [received EXCEPT ![f] = @ \cup IdsOf(page)]
  BY DEF ListOutboxEvents
<1>2. PICK last \in page : position' = [position EXCEPT ![f] = last.id]
  BY <1>1
<1>3. UNCHANGED <<events, open, stamp, clock, saved, late, behind>>
  BY DEF ListOutboxEvents
<1>4. last \in events /\ last.id \in Nat /\ last.id > position[f]
  BY <1>2 DEF After, OutboxInv, TypeOK, Event
<1>5. TypeOK'
  <2>1. IdsOf(page) \subseteq Nat
    BY <1>1 DEF IdsOf, After, OutboxInv, TypeOK, Event
  <2> QED BY <1>1, <1>2, <1>3, <1>4, <2>1 DEF OutboxInv, TypeOK
<1>6. CursorsPointAtEvents'
  <2> SUFFICES ASSUME NEW g \in Feeds
               PROVE  /\ position'[g] # 0 => position'[g] \in IdsOf(events)
                      /\ saved[g] <= position'[g]
                      /\ saved[g] # 0 => saved[g] \in IdsOf(events)
    BY <1>3 DEF CursorsPointAtEvents, IdsOf
  <2>1. CASE g = f
    <3>1. position'[g] = last.id
      BY <1>2, <2>1 DEF OutboxInv, TypeOK
    <3>2. last.id \in IdsOf(events)
      BY <1>4 DEF IdsOf
    <3> QED BY <1>4, <2>1, <3>1, <3>2 DEF OutboxInv, TypeOK, CursorsPointAtEvents
  <2>2. CASE g # f
    BY <1>2, <2>2 DEF OutboxInv, TypeOK, CursorsPointAtEvents
  <2> QED BY <2>1, <2>2
<1>7. ASSUME NEW g \in Feeds, NEW i, i \in Missed(g)'
      PROVE  i \in late
  <2>1. PICK e \in events : e.scope \in Covers[g] /\ e.id = i
    BY <1>3, <1>7 DEF Missed, IdsOf
  <2>2. i <= position'[g] /\ i \notin received'[g] /\ i \in Nat
    BY <1>7, <2>1 DEF Missed, OutboxInv, TypeOK, Event
  <2>3. CASE i <= position[g]
    <3>1. i \notin received[g]
      BY <1>1, <2>2 DEF OutboxInv, TypeOK
    <3>2. i \in Missed(g)
      BY <2>1, <2>3, <3>1 DEF Missed, IdsOf
    <3> QED BY <3>2 DEF OutboxInv, ReplayMissesOnlyLateEvents
  <2>4. CASE ~(i <= position[g])
    <3>1. g = f
      BY <1>2, <2>2, <2>4 DEF OutboxInv, TypeOK
    <3>2. e \in After(f)
      BY <2>1, <2>2, <2>4, <3>1 DEF After, OutboxInv, TypeOK
    <3>3. e \notin page
      BY <1>1, <2>1, <2>2, <3>1 DEF OutboxInv, TypeOK, IdsOf
    <3>4. last.id < i
      BY <1>1, <1>2, <2>1, <3>2, <3>3 DEF IsPage
    <3>5. position'[g] = last.id
      BY <1>2, <3>1 DEF OutboxInv, TypeOK
    <3> QED BY <1>4, <2>2, <3>4, <3>5
  <2> QED BY <2>3, <2>4
<1>8. KeysGrow'
  BY <1>3 DEF OutboxInv, KeysGrow, IdsOf
<1> QED BY <1>3, <1>5, <1>6, <1>7, <1>8 DEF OutboxInv, ReplayMissesOnlyLateEvents

\* A consumer that restarts is at a cursor it has been at.
LEMMA ResumeInv ==
  ASSUME OutboxInv, NEW f \in Feeds, Resume(f)
  PROVE  OutboxInv'
<1>1. position' = [position EXCEPT ![f] = saved[f]]
  BY DEF Resume
<1>2. UNCHANGED <<events, open, stamp, clock, saved, received, late, behind>>
  BY DEF Resume
<1>3. TypeOK'
  BY <1>1, <1>2 DEF OutboxInv, TypeOK
<1>4. \A g \in Feeds : position'[g] \in Nat /\ position'[g] <= position[g] /\ saved[g] <= position'[g]
  BY <1>1 DEF OutboxInv, TypeOK, CursorsPointAtEvents
<1>5. CursorsPointAtEvents'
  BY <1>1, <1>2, <1>4 DEF OutboxInv, TypeOK, CursorsPointAtEvents, IdsOf
<1>6. ASSUME NEW g \in Feeds, NEW i, i \in Missed(g)'
      PROVE  i \in Missed(g)
  BY <1>2, <1>4, <1>6 DEF Missed, IdsOf, OutboxInv, TypeOK, Event
<1>7. ReplayMissesOnlyLateEvents'
  BY <1>2, <1>6 DEF OutboxInv, ReplayMissesOnlyLateEvents
<1>8. KeysGrow'
  BY <1>2 DEF OutboxInv, KeysGrow, IdsOf
<1> QED BY <1>3, <1>5, <1>7, <1>8 DEF OutboxInv

LEMMA NextOutboxInv == OutboxInv /\ [Next]_vars => OutboxInv'
<1> SUFFICES ASSUME OutboxInv, [Next]_vars
             PROVE  OutboxInv'
  OBVIOUS
<1>1. CASE \E s \in Scopes : InsertEvent(s)
  BY <1>1, InsertEventInv
<1>2. CASE Commit
  BY <1>2, CommitInv
<1>3. CASE Abort \/ Restart
  <2>1. /\ open' = {}
        /\ stamp' \in {stamp, 0}
        /\ UNCHANGED <<events, clock, position, saved, received, late, behind>>
    BY <1>3 DEF Abort, Restart
  <2> QED BY <2>1 DEF OutboxInv, TypeOK, CursorsPointAtEvents, ReplayMissesOnlyLateEvents, Missed,
             KeysGrow, IdsOf
<1>4. CASE SetClock
  BY <1>4, BoundsAssumption, SMTT(30) DEF SetClock, OutboxInv, TypeOK, CursorsPointAtEvents,
     ReplayMissesOnlyLateEvents, Missed, KeysGrow, IdsOf
<1>5. CASE \E f \in Feeds : ListOutboxEvents(f)
  BY <1>5, ListInv
<1>6. CASE \E f \in Feeds : Persist(f)
  <2>1. PICK f \in Feeds : saved' = [saved EXCEPT ![f] = position[f]]
    BY <1>6 DEF Persist
  <2>2. UNCHANGED <<events, open, stamp, clock, position, received, late, behind>>
    BY <1>6 DEF Persist
  <2>3. CursorsPointAtEvents'
    BY <2>1, <2>2 DEF OutboxInv, TypeOK, CursorsPointAtEvents, IdsOf
  <2> QED BY <2>1, <2>2, <2>3 DEF OutboxInv, TypeOK, ReplayMissesOnlyLateEvents, Missed, KeysGrow, IdsOf
<1>7. CASE \E f \in Feeds : Resume(f)
  BY <1>7, ResumeInv
<1>8. CASE UNCHANGED vars
  BY <1>8 DEF vars, OutboxInv, TypeOK, CursorsPointAtEvents, ReplayMissesOnlyLateEvents, Missed,
     KeysGrow, IdsOf
<1> QED BY <1>1, <1>2, <1>3, <1>4, <1>5, <1>6, <1>7, <1>8 DEF Next

\* In every reachable state the keys, cursors and late events of the outbox are
\* related as the inductive invariant says.
THEOREM OutboxInvariance == Spec => []OutboxInv
BY InitOutboxInv, NextOutboxInv, PTL DEF Spec

\* list_outbox_events: whatever the pages, restarts and clocks, a consumer
\* misses no event but one committed below an earlier one, which takes a
\* process that started with its clock behind.
THEOREM ReplaySafety == Spec => []ReplayMissesOnlyLateEvents
<1>1. OutboxInv => ReplayMissesOnlyLateEvents
  BY DEF OutboxInv
<1> QED BY <1>1, OutboxInvariance, PTL
=============================================================================
