------------------------------- MODULE Outbox -------------------------------
(***************************************************************************)
(* The outbox of canonical.redb as its consumers see it: transactions of   *)
(* the server insert events whose keys are UUIDv7, and                     *)
(* GET /v1/outbox/events pages through them in key order after a cursor    *)
(* that the consumer keeps.  Nothing is acknowledged or deleted, so a      *)
(* consumer sees an event only if its key is above the cursor when it is   *)
(* committed.                                                              *)
(*                                                                         *)
(* Keys and the clock share one axis of ticks: a UUIDv7 made in a process  *)
(* is above those the process made before, however the clock is moved      *)
(* meanwhile; a new process knows the clock alone.                         *)
(***************************************************************************)
EXTENDS Naturals, FiniteSets

CONSTANTS
  Scopes,      \* the workspaces, and the organization itself, that events name
  Feeds,       \* consumers
  Covers,      \* the scopes whose events a feed asks for: one, or all of an organization
  MaxLimit,    \* the largest page a consumer asks for
  MaxEvents,   \* bound on the number of events
  MaxTime      \* bound on the clock

ASSUME FeedsAssumption == Covers \in [Feeds -> SUBSET Scopes]
ASSUME BoundsAssumption == MaxLimit \in Nat \ {0} /\ MaxEvents \in Nat /\ MaxTime \in Nat

VARIABLES
  events,     \* OUTBOX_EVENTS, committed
  open,       \* the events of the transaction that holds the mutex
  stamp,      \* the last key this process made, 0 before the first
  clock,
  position,   \* the cursor a consumer holds
  saved,      \* the cursor it has persisted
  received,   \* keys of the events it has handled
  late,       \* keys of the events committed below another committed event
  behind      \* whether a process made its first key by a clock behind an event

vars == <<events, open, stamp, clock, position, saved, received, late, behind>>

Event == [id : Nat \ {0}, scope : Scopes]
IdsOf(set) == {e.id : e \in set}

Init ==
  /\ events = {}
  /\ open = {}
  /\ stamp = 0
  /\ clock = 1
  /\ position = [f \in Feeds |-> 0]
  /\ saved = [f \in Feeds |-> 0]
  /\ received = [f \in Feeds |-> {}]
  /\ late = {}
  /\ behind = FALSE

-----------------------------------------------------------------------------
Bug_ClockAlone(id) == id >= clock

\* The process keeps what it made last: a clock that is set back, or many
\* events within a tick, only make its next keys run ahead of the clock.
Follows(id) == id > stamp /\ id >= clock

\* Uuid::now_v7: the least key that qualifies.  Keys are unique.
IsNextKey(id) ==
  LET free(x) == Follows(x) /\ x \notin IdsOf(events \cup open)
  IN free(id) /\ \A x \in 1..id : free(x) => x = id

\* insert_outbox_event within the transaction of a domain change.
InsertEvent(s) ==
  /\ Cardinality(events) + Cardinality(open) < MaxEvents
  /\ \E id \in 1..(MaxTime + MaxEvents) :
       /\ IsNextKey(id)
       /\ open' = open \cup {[id |-> id, scope |-> s]}
       /\ stamp' = id
  /\ behind' = (behind \/ (stamp = 0 /\ \E e \in events : clock <= e.id))
  /\ UNCHANGED <<events, clock, position, saved, received, late>>

Commit ==
  /\ open # {}
  /\ events' = events \cup open
  /\ late' = late \cup {i \in IdsOf(open) : \E e \in events : e.id > i}
  /\ open' = {}
  /\ UNCHANGED <<stamp, clock, position, saved, received, behind>>

\* An error after the insert drops the transaction; its keys stay unused.
Abort ==
  /\ open # {}
  /\ open' = {}
  /\ UNCHANGED <<events, stamp, clock, position, saved, received, late, behind>>

\* The process dies and another one starts.
Restart ==
  /\ open' = {}
  /\ stamp' = 0
  /\ UNCHANGED <<events, clock, position, saved, received, late, behind>>

\* Time passes, or an operator sets the clock, back too.
SetClock ==
  /\ clock' \in 1..MaxTime
  /\ UNCHANGED <<events, open, stamp, position, saved, received, late, behind>>

-----------------------------------------------------------------------------
After(f) == {e \in events : e.id > position[f] /\ e.scope \in Covers[f]}

\* The rows in key order after the cursor, of the scope, until the limit.
IsPage(f, page, limit) ==
  /\ page \subseteq After(f)
  /\ Cardinality(page) <= limit
  /\ \A e \in page, x \in After(f) \ page : e.id < x.id
  /\ page # After(f) => Cardinality(page) = limit

\* A page is read under the mutex and handled; its last key is the new cursor.
ListOutboxEvents(f) ==
  /\ open = {}
  /\ \E limit \in 1..MaxLimit, page \in SUBSET After(f) :
       /\ IsPage(f, page, limit)
       /\ page # {}
       /\ \E last \in page :
            /\ \A e \in page : e.id <= last.id
            /\ position' = [position EXCEPT ![f] = last.id]
       /\ received' = [received EXCEPT ![f] = @ \cup IdsOf(page)]
  /\ UNCHANGED <<events, open, stamp, clock, saved, late, behind>>

\* The consumer persists its cursor after it has handled what came before.
Persist(f) ==
  /\ saved' = [saved EXCEPT ![f] = position[f]]
  /\ UNCHANGED <<events, open, stamp, clock, position, received, late, behind>>

\* A consumer that restarts replays from its persisted cursor.
Resume(f) ==
  /\ position' = [position EXCEPT ![f] = saved[f]]
  /\ UNCHANGED <<events, open, stamp, clock, saved, received, late, behind>>

Next ==
  \/ \E s \in Scopes : InsertEvent(s)
  \/ Commit
  \/ Abort
  \/ Restart
  \/ SetClock
  \/ \E f \in Feeds : ListOutboxEvents(f) \/ Persist(f) \/ Resume(f)

Spec == Init /\ [][Next]_vars

-----------------------------------------------------------------------------
TypeOK ==
  /\ events \subseteq Event
  /\ open \subseteq Event
  /\ stamp \in Nat
  /\ clock \in Nat
  /\ position \in [Feeds -> Nat]
  /\ saved \in [Feeds -> Nat]
  /\ received \in [Feeds -> SUBSET Nat]
  /\ late \subseteq Nat
  /\ behind \in BOOLEAN

\* What a consumer will never see: its cursor is past it.
Missed(f) ==
  {i \in IdsOf({e \in events : e.scope \in Covers[f]}) : i <= position[f] /\ i \notin received[f]}

\* "Replay is ordered and cursor-based" (docs/graph-retrieval.md): with pages
\* of any size, aborted transactions, restarts of either side and a clock set
\* at will, a consumer misses an event only if the event was committed below
\* an earlier one, and that takes a new server whose clock is behind the events
\* of the last one.  A clock set back under a running server does no harm.
ReplayMissesOnlyLateEvents ==
  /\ \A f \in Feeds : Missed(f) \subseteq late
  /\ late # {} => behind

\* What the proof adds.  No cursor is ahead of the committed events, a persisted
\* one not ahead of the one in use, and ...
CursorsPointAtEvents ==
  \A f \in Feeds :
    /\ position[f] # 0 => position[f] \in IdsOf(events)
    /\ saved[f] <= position[f]
    /\ saved[f] # 0 => saved[f] \in IdsOf(events)

\* ... keys are unique and grow, those of one process always, those of all
\* processes unless one of them started behind.
KeysGrow ==
  /\ IdsOf(open) \cap IdsOf(events) = {}
  /\ \A o \in open : o.id <= stamp
  /\ ~behind => /\ \A e \in events, o \in open : e.id < o.id
                /\ stamp # 0 => \A e \in events : e.id <= stamp

OutboxInv ==
  /\ TypeOK
  /\ CursorsPointAtEvents
  /\ ReplayMissesOnlyLateEvents
  /\ KeysGrow
=============================================================================
