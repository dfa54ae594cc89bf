--------------------------- MODULE GovernanceProofs ---------------------------
(***************************************************************************)
(* What an answered request has made sure of, for any number of            *)
(* organizations, keys, skills, policies and followed requests: its order  *)
(* of acquisitions is walked step by step (Orders, Advances), while the    *)
(* tables it reads move only forward (TablesStep).                         *)
(***************************************************************************)
EXTENDS Governance, SumTheorems

TablesOK ==
  /\ keys \in [Keys -> Key]
  /\ IsTable(skills, Skills)
  /\ IsTable(policies, Policies)

\* A lifecycle never leaves its end, an entry in force keeps its workspace and
\* rules, and an issued key is never changed.
Forward(old, new) ==
  /\ old.lifecycle \in {"active", "ended"} =>
       new.lifecycle \in {"active", "ended"} /\ new.workspace = old.workspace /\ new.rules = old.rules
  /\ old.lifecycle = "ended" => new.lifecycle = "ended"

TablesMove ==
  /\ \A s \in Skills : Forward(skills[s], skills'[s])
  /\ \A p \in Policies : Forward(policies[p], policies'[p])
  /\ \A k \in Keys : keys[k].issued => keys'[k] = keys[k]

TablesStep == TablesMove /\ TablesOK' /\ AuthorityIsDelegated'

-----------------------------------------------------------------------------
\* The tables.

LEMMA TablesRest ==
  ASSUME TablesOK, AuthorityIsDelegated, UNCHANGED <<keys, skills, policies>>
  PROVE  TablesStep
BY DEF TablesStep, TablesMove, Forward, TablesOK, IsTable, AuthorityIsDelegated, WithinAuthority

\* A draft fills a place of a table that was empty.
LEMMA DraftIsForward ==
  ASSUME NEW table, NEW domain, IsTable(table, domain), NEW w, NEW n, NEW rules,
         NEW x \in domain \ Existing(table), NEW new,
         new = [table EXCEPT ![x] = Draft(table, w, n, rules)]
  PROVE  IsTable(new, domain) /\ \A y \in domain : Forward(table[y], new[y])
<1>1. table[x] = NoEntry
  BY DEF Existing, IsTable
<1>2. NoEntry.lifecycle = "none"
  BY DEF NoEntry
<1>3. PICK d : d = Draft(table, w, n, rules)
  OBVIOUS
<1>4. DOMAIN d = DOMAIN NoEntry /\ d.lifecycle = "draft"
  BY <1>3 DEF Draft, NoEntry
<1>5. DOMAIN new = domain /\ new[x] = d /\ \A y \in domain \ {x} : new[y] = table[y]
  BY <1>3 DEF IsTable
<1>6. \A y \in domain : Forward(table[y], new[y])
  BY <1>1, <1>2, <1>5 DEF Forward
<1>7. IsTable(new, domain)
  BY <1>4, <1>5 DEF IsTable, Lifecycles
<1> QED BY <1>6, <1>7

\* A transition changes one lifecycle, and not from its end.
LEMMA TransitionIsForward ==
  ASSUME NEW table, NEW domain, IsTable(table, domain), NEW x, NEW to,
         MayBecome(table[x].lifecycle, to), NEW new,
         new = [table EXCEPT ![x].lifecycle = to]
  PROVE  IsTable(new, domain) /\ \A y \in domain : Forward(table[y], new[y])
<1>1. DOMAIN new = domain /\ \A y \in domain \ {x} : new[y] = table[y]
  BY DEF IsTable
<1>2. to \in {"active", "ended"} /\ table[x].lifecycle # "ended"
  BY DEF MayBecome
<1>3. ASSUME x \in domain
      PROVE  /\ DOMAIN new[x] = DOMAIN NoEntry /\ new[x].lifecycle = to
             /\ new[x].workspace = table[x].workspace /\ new[x].rules = table[x].rules
  <2>1. DOMAIN table[x] = DOMAIN NoEntry /\ new[x] = [table[x] EXCEPT !.lifecycle = to]
    BY <1>3 DEF IsTable
  <2>2. "lifecycle" \in DOMAIN NoEntry /\ "workspace" \in DOMAIN NoEntry /\ "rules" \in DOMAIN NoEntry
    BY DEF NoEntry
  <2> QED BY <2>1, <2>2
<1>4. \A y \in domain : Forward(table[y], new[y])
  BY <1>1, <1>2, <1>3 DEF Forward
<1>5. IsTable(new, domain)
  BY <1>1, <1>2, <1>3 DEF IsTable, Lifecycles
<1> QED BY <1>4, <1>5

LEMMA StaysForward == \A old : Forward(old, old)
BY DEF Forward

\* Skills and policies change without the keys.
LEMMA TablesChange ==
  ASSUME TablesOK, AuthorityIsDelegated, UNCHANGED keys,
         IsTable(skills', Skills), IsTable(policies', Policies),
         \A s \in Skills : Forward(skills[s], skills'[s]),
         \A p \in Policies : Forward(policies[p], policies'[p])
  PROVE  TablesStep
BY DEF TablesStep, TablesMove, TablesOK, IsTable, AuthorityIsDelegated, WithinAuthority

LEMMA EntriesMove ==
  ASSUME TablesOK, AuthorityIsDelegated,
         NEW w, NEW n, NEW rules, NEW s, NEW p, NEW to,
         \/ InsertSkill(w, n) \/ InsertPolicy(w, rules) \/ ChangeSkill(w, s, to) \/ ChangePolicy(w, p, to)
  PROVE  TablesStep
<1>1. CASE InsertSkill(w, n)
  <2>1. PICK x \in Skills \ Existing(skills) : skills' = [skills EXCEPT ![x] = Draft(skills, w, n, {})]
    BY <1>1 DEF InsertSkill
  <2>2. PICK new : new = skills'
    OBVIOUS
  <2>3. IsTable(new, Skills) /\ \A y \in Skills : Forward(skills[y], new[y])
    BY <2>1, <2>2, DraftIsForward DEF TablesOK
  <2> QED BY <1>1, <2>2, <2>3, StaysForward, TablesChange DEF InsertSkill, TablesOK, IsTable
<1>2. CASE InsertPolicy(w, rules)
  <2>1. PICK x \in Policies \ Existing(policies) : policies' = [policies EXCEPT ![x] = Draft(policies, w, {}, rules)]
    BY <1>2 DEF InsertPolicy
  <2>2. PICK new : new = policies'
    OBVIOUS
  <2>3. IsTable(new, Policies) /\ \A y \in Policies : Forward(policies[y], new[y])
    BY <2>1, <2>2, DraftIsForward DEF TablesOK
  <2> QED BY <1>2, <2>2, <2>3, StaysForward, TablesChange DEF InsertPolicy, TablesOK, IsTable
<1>3. CASE ChangeSkill(w, s, to)
  <2>1. PICK new : new = skills'
    OBVIOUS
  <2>2. IsTable(new, Skills) /\ \A y \in Skills : Forward(skills[y], new[y])
    BY <1>3, <2>1, TransitionIsForward DEF ChangeSkill, TablesOK
  <2> QED BY <1>3, <2>1, <2>2, StaysForward, TablesChange DEF ChangeSkill, TablesOK, IsTable
<1>4. CASE ChangePolicy(w, p, to)
  <2>1. PICK new : new = policies'
    OBVIOUS
  <2>2. IsTable(new, Policies) /\ \A y \in Policies : Forward(policies[y], new[y])
    BY <1>4, <2>1, TransitionIsForward DEF ChangePolicy, TablesOK
  <2> QED BY <1>4, <2>1, <2>2, StaysForward, TablesChange DEF ChangePolicy, TablesOK, IsTable
<1> QED BY <1>1, <1>2, <1>3, <1>4

\* A key that is within some owner's authority stays within it, and so do
\* the keys there were, when a place of the table is filled with it.
LEMMA KeyIsIssued ==
  ASSUME TablesOK, AuthorityIsDelegated, NEW key \in Key, WithinAuthority(key),
         NEW k \in Keys, ~keys[k].issued, keys' = [keys EXCEPT ![k] = key],
         UNCHANGED <<skills, policies>>
  PROVE  TablesStep
<1>1. \A i \in Keys : keys[i].issued => keys'[i] = keys[i]
  BY DEF TablesOK
<1>2. keys' \in [Keys -> Key] /\ keys'[k] = key /\ \A i \in Keys \ {k} : keys'[i] = keys[i]
  BY DEF TablesOK
<1>3. \A other \in Key : WithinAuthority(other) => WithinAuthority(other)'
  BY <1>1 DEF WithinAuthority, Key
<1>4. AuthorityIsDelegated'
  BY <1>1, <1>2, <1>3 DEF AuthorityIsDelegated, TablesOK
<1> QED BY <1>1, <1>2, <1>4, StaysForward DEF TablesStep, TablesMove, TablesOK, IsTable

-----------------------------------------------------------------------------
\* What a request holds is not disturbed by the tables.

LEMMA HoldsStays ==
  ASSUME TablesStep, NEW q, Holds(q)
  PROVE  Holds(q)'
<1> USE DEF TablesStep, TablesMove
<1>1. SeenStays(q)'
  BY DEF Holds, SeenStays, Forward
<1>2. Passed(q) => Passed(q)'
  <2>1. \A p \in q.denying : p \in Policies /\ policies[p].lifecycle \in {"active", "ended"}
    BY DEF Holds, SeenStays
  <2> QED BY <2>1 DEF Passed, Forward
<1>3. Asks(q) => Asks(q)'
  <2>1. ASSUME q.arg \in Key, WithinAuthority(q.arg) PROVE WithinAuthority(q.arg)'
    BY <2>1 DEF WithinAuthority, Key
  <2>2. \A p \in q.denying : p \in Policies /\ policies[p].lifecycle \in {"active", "ended"}
    BY DEF Holds, SeenStays
  <2> QED BY <2>1, <2>2 DEF Asks, Forward, Denies
<1>4. InOrder(q, q.steps) => InOrder(q, q.steps)'
  BY <1>2 DEF InOrder
<1>5. Settled(q) => Settled(q)'
  BY <1>2 DEF Settled
<1> QED BY <1>1, <1>3, <1>4, <1>5 DEF Holds

\* Requests hold after a step that ends, refuses or advances one of them.
LEMMA RequestsStep ==
  ASSUME RequestsInv, TablesStep, NEW r \in Requests, NEW v, v = Free \/ Holds(v),
         requests' = [requests EXCEPT ![r] = v]
  PROVE  RequestsInv'
<1>1. DOMAIN requests' = Requests /\ requests'[r] = v /\ \A x \in Requests \ {r} : requests'[x] = requests[x]
  BY DEF RequestsInv, TypeOK
<1>2. Free.status = "free"
  BY DEF Free
<1>3. Holds(v) => v.status \in {"running", "answered"} /\ DOMAIN v = Fields /\ Holds(v)'
  BY HoldsStays DEF Holds
<1>4. ASSUME NEW x \in Requests
      PROVE  /\ requests'[x].status \in {"free", "running", "answered"}
             /\ requests'[x].status # "free" => DOMAIN requests'[x] = Fields /\ Holds(requests[x])'
  <2>1. CASE x = r
    <3>1. v = Free => v.status = "free"
      BY <1>2
    <3>2. PICK u : u = requests'[x]
      OBVIOUS
    <3>3. u = v
      BY <2>1, <1>1, <3>2
    <3>4. u.status # "free" => Holds(u)'
      BY <3>1, <3>3, <1>3
    <3> QED BY <1>2, <1>3, <3>2, <3>3, <3>4
  <2>2. CASE x # r
    <3>1. PICK u : u = requests[x]
      OBVIOUS
    <3>2. requests'[x] = u
      BY <2>2, <1>1, <3>1
    <3>3. u.status # "free" => Holds(u)'
      BY <3>1, HoldsStays DEF RequestsInv
    <3> QED BY <3>1, <3>2, <3>3 DEF RequestsInv, TypeOK
  <2> QED BY <2>1, <2>2
<1>5. TypeOK'
  BY <1>1, <1>4 DEF TypeOK, TablesStep, TablesOK
<1> QED BY <1>4, <1>5 DEF RequestsInv, TablesStep

\* No request is changed.
LEMMA RequestsRest ==
  ASSUME RequestsInv, TablesStep, UNCHANGED requests
  PROVE  RequestsInv'
<1>1. ASSUME NEW x \in Requests PROVE requests'[x].status # "free" => Holds(requests[x])'
  <2>1. PICK u : u = requests[x]
    OBVIOUS
  <2>2. u.status # "free" => Holds(u)'
    BY <2>1, HoldsStays DEF RequestsInv
  <2> QED BY <2>1, <2>2
<1>2. TypeOK'
  BY DEF RequestsInv, TypeOK, TablesStep, TablesOK
<1> QED BY <1>1, <1>2 DEF RequestsInv, TablesStep

-----------------------------------------------------------------------------
\* The orders of acquisitions, walked.

LEMMA Tuples ==
  /\ Head(HttpGuarded) = "evaluate" /\ Len(HttpGuarded) = 4
  /\ Tail(HttpGuarded) = <<"record", "operate", "audit">>
  /\ Head(<<"evaluate", "record">>) = "evaluate" /\ Len(<<"evaluate", "record">>) = 2
  /\ Tail(<<"evaluate", "record">>) = <<"record">>
  /\ Head(<<"operate", "evaluate", "record", "audit">>) = "operate"
  /\ Len(<<"operate", "evaluate", "record", "audit">>) = 4
  /\ Tail(<<"operate", "evaluate", "record", "audit">>) = <<"evaluate", "record", "audit">>
  /\ Head(<<"evaluate", "record", "audit">>) = "evaluate" /\ Len(<<"evaluate", "record", "audit">>) = 3
  /\ Tail(<<"evaluate", "record", "audit">>) = <<"record", "audit">>
  /\ Head(GrpcGuarded) = "enforce" /\ Len(GrpcGuarded) = 3 /\ Tail(GrpcGuarded) = Plain
  /\ Head(<<"record", "operate", "audit">>) = "record" /\ Len(<<"record", "operate", "audit">>) = 3
  /\ Tail(<<"record", "operate", "audit">>) = Plain
  /\ Head(<<"record", "audit">>) = "record" /\ Len(<<"record", "audit">>) = 2
  /\ Tail(<<"record", "audit">>) = <<"audit">>
  /\ Head(<<"record">>) = "record" /\ Len(<<"record">>) = 1
  /\ Head(Plain) = "operate" /\ Len(Plain) = 2 /\ Tail(Plain) = <<"audit">>
  /\ Head(Announced) = "audit" /\ Len(Announced) = 3 /\ Tail(Announced) = Plain
  /\ Head(<<"operate+audit">>) = "operate+audit" /\ Len(<<"operate+audit">>) = 1
  /\ Head(<<"audit">>) = "audit" /\ Len(<<"audit">>) = 1
BY DEF HttpGuarded, GrpcGuarded, Announced, Plain

LEMMA Orders ==
  ASSUME NEW steps \in Undecided \cup Evaluated \cup Decided
  PROVE  /\ Head(steps) = "evaluate" =>
              steps \in Undecided /\ Len(steps) # 1 /\ Tail(steps) \in Evaluated
         /\ Head(steps) = "record" =>
              steps \in Evaluated /\ (steps = <<"record">> \/ (Len(steps) # 1 /\ Tail(steps) \in Decided))
         /\ Head(steps) = "enforce" =>
              steps \in Undecided /\ Len(steps) # 1 /\ Tail(steps) \in Decided
         /\ Head(steps) = "audit" =>
              steps \in Decided /\ (Len(steps) = 1 \/ Tail(steps) \in Decided)
         /\ Head(steps) = "operate+audit" => steps \in Decided /\ Len(steps) = 1
         /\ Head(steps) = "operate" =>
              /\ Len(steps) # 1
              /\ \/ steps \in Undecided /\ Tail(steps) \in Undecided
                 \/ steps \in Decided /\ Tail(steps) \in Decided
         /\ steps \in DecisionOnly \/ Len(steps) = 1 \/ Tail(steps) \notin DecisionOnly
<1>2. CASE steps = HttpGuarded
  <2>1. Len(<<"record", "operate", "audit">>) # Len(<<"evaluate", "record">>) /\ Len(<<"record", "operate", "audit">>) # Len(<<"record">>)
    BY Tuples
  <2>2. <<"record", "operate", "audit">> \notin DecisionOnly
    BY <2>1 DEF DecisionOnly
  <2>3. steps \in Undecided /\ <<"record", "operate", "audit">> \in Evaluated
    BY <1>2 DEF Undecided, Evaluated
  <2>4. Head(steps) = "evaluate" /\ Len(steps) = 4 /\ Tail(steps) = <<"record", "operate", "audit">>
    BY <1>2, Tuples
  <2>5. Tail(steps) \in Evaluated /\ Tail(steps) \notin DecisionOnly
    BY <2>2, <2>3, <2>4, Zenon
  <2>6. Len(steps) # 1
    BY <2>4
  <2> QED BY <2>3, <2>4, <2>5, <2>6
<1>3. CASE steps = <<"evaluate", "record">>
  BY <1>3, Tuples DEF Undecided, Evaluated, DecisionOnly
<1>4. CASE steps = <<"operate", "evaluate", "record", "audit">>
  <2>1. Len(<<"evaluate", "record", "audit">>) # Len(<<"evaluate", "record">>) /\ Len(<<"evaluate", "record", "audit">>) # Len(<<"record">>)
    BY Tuples
  <2>2. <<"evaluate", "record", "audit">> \notin DecisionOnly
    BY <2>1 DEF DecisionOnly
  <2> QED BY <1>4, <2>2, Tuples DEF Undecided
<1>5. CASE steps = <<"evaluate", "record", "audit">>
  <2>1. Head(<<"record", "audit">>) # Head(<<"evaluate", "record">>) /\ Len(<<"record", "audit">>) # Len(<<"record">>)
    BY Tuples
  <2>2. <<"record", "audit">> \notin DecisionOnly
    BY <2>1 DEF DecisionOnly
  <2> QED BY <1>5, <2>2, Tuples DEF Undecided, Evaluated
<1>6. CASE steps = GrpcGuarded
  <2>1. Head(Plain) # Head(<<"evaluate", "record">>) /\ Head(Plain) # Head(<<"record">>)
    BY Tuples
  <2>2. Plain \notin DecisionOnly
    BY <2>1 DEF DecisionOnly
  <2>3. steps \in Undecided /\ Plain \in Decided
    BY <1>6 DEF Undecided, Decided
  <2>4. Head(steps) = "enforce" /\ Len(steps) = 3 /\ Tail(steps) = Plain
    BY <1>6, Tuples
  <2>5. Tail(steps) \in Decided /\ Tail(steps) \notin DecisionOnly
    BY <2>2, <2>3, <2>4, Zenon
  <2>6. Len(steps) # 1
    BY <2>4
  <2> QED BY <2>3, <2>4, <2>5, <2>6
<1>7. CASE steps = <<"record", "operate", "audit">>
  BY <1>7, Tuples DEF Evaluated, Decided, DecisionOnly
<1>8. CASE steps = <<"record", "audit">>
  BY <1>8, Tuples DEF Evaluated, Decided, DecisionOnly
<1>9. CASE steps = <<"record">>
  BY <1>9, Tuples DEF Evaluated, DecisionOnly
<1>10. CASE steps = Plain
  BY <1>10, Tuples DEF Decided, DecisionOnly
<1>11. CASE steps = Announced
  BY <1>11, Tuples DEF Decided, DecisionOnly
<1>12. CASE steps = <<"operate+audit">>
  BY <1>12, Tuples DEF Decided
<1>13. CASE steps = <<"audit">>
  BY <1>13, Tuples DEF Decided
<1> QED
  BY <1>2, <1>3, <1>4, <1>5, <1>6, <1>7, <1>8, <1>9, <1>10, <1>11, <1>12, <1>13
  DEF Undecided, Evaluated, Decided

\* An order is in one of the three classes, by what comes first.
LEMMA Classes ==
  /\ Undecided \cap Evaluated = {}
  /\ Undecided \cap Decided = {}
  /\ Evaluated \cap Decided = {}
<1>1. \A s \in Undecided :
        \/ Head(s) \in {"evaluate", "enforce"}
        \/ Head(s) = "operate" /\ Len(s) = 4
  BY DEF Undecided, HttpGuarded, GrpcGuarded
<1>2. \A s \in Evaluated : Head(s) = "record"
  BY DEF Evaluated
<1>3. \A s \in Decided : Head(s) \in {"audit", "operate", "operate+audit"} /\ Len(s) # 4
  BY DEF Decided, Plain, Announced
<1> HIDE DEF Undecided, Evaluated, Decided
<1> QED BY <1>1, <1>2, <1>3

\* A request that has done its step and is in order for the next, or has done
\* its last one and settled, holds.
LEMMA Advances ==
  ASSUME NEW q, DOMAIN q = Fields, q.status = "running", SeenStays(q), Asks(q),
         (Len(q.steps) = 1 /\ Settled(q)) \/ (Len(q.steps) # 1 /\ InOrder(q, Tail(q.steps)))
  PROVE  Holds(Advanced(q))
<1>1. CASE Len(q.steps) = 1
  <2>1. PICK v : v = Advanced(q)
    OBVIOUS
  <2>2. v = [q EXCEPT !.steps = <<>>, !.status = "answered", !.arg = "none", !.rules = {}]
    BY <1>1, <2>1 DEF Advanced
  <2>3. /\ DOMAIN v = Fields /\ v.status = "answered" /\ v.guarded = q.guarded
        /\ v.operation = q.operation /\ v.audited = q.audited /\ v.denying = q.denying
        /\ v.shown = q.shown /\ v.withdrawn = q.withdrawn /\ v.scope = q.scope
    BY <2>2 DEF Fields
  <2>4. SeenStays(v)
    BY <2>3 DEF SeenStays
  <2>5. Settled(v)
    BY <1>1, <2>3 DEF Settled, Passed
  <2> QED BY <2>1, <2>3, <2>4, <2>5 DEF Holds
<1>2. CASE Len(q.steps) # 1
  <2>1. PICK v : v = Advanced(q)
    OBVIOUS
  <2>2. v = [q EXCEPT !.steps = Tail(@)]
    BY <1>2, <2>1 DEF Advanced
  <2>3. /\ DOMAIN v = Fields /\ v.status = "running" /\ v.guarded = q.guarded
        /\ v.operation = q.operation /\ v.audited = q.audited /\ v.denying = q.denying
        /\ v.shown = q.shown /\ v.withdrawn = q.withdrawn /\ v.scope = q.scope
        /\ v.arg = q.arg /\ v.rules = q.rules /\ v.allowed = q.allowed
    BY <2>2 DEF Fields
  <2>4. v.steps = Tail(q.steps)
    BY <2>2 DEF Fields
  <2>5. SeenStays(v)
    BY <2>3 DEF SeenStays
  <2>6. Asks(v)
    BY <2>3 DEF Asks
  <2>7. InOrder(v, v.steps)
    BY <1>2, <2>3, <2>4 DEF InOrder, Passed
  <2> QED BY <2>1, <2>3, <2>5, <2>6, <2>7 DEF Holds
<1> QED BY <1>1, <1>2

-----------------------------------------------------------------------------
\* Every handler of the table asks its guardrail before it answers, and only
\* those that have one.

WellFormed(h) ==
  /\ h.action # "none" => h.steps \in Undecided
  /\ h.action = "none" => h.steps \in Decided
  /\ h.operation # "none" => h.steps \notin DecisionOnly

LEMMA PlainIsWellFormed ==
  ASSUME NEW role, NEW operation, NEW steps \in {Plain, Announced, <<"operate+audit">>}
  PROVE  WellFormed(Handler(role, operation, steps))
<1>1. PICK h : h = Handler(role, operation, steps)
  OBVIOUS
<1>2. h.action = "none" /\ h.steps = steps
  BY <1>1 DEF Handler
<1>3. steps \in Decided
  BY DEF Decided
<1>4. Head(steps) \in {"operate", "audit", "operate+audit"}
  BY Tuples
<1>5. steps \notin DecisionOnly
  <2>1. Head(steps) # Head(<<"evaluate", "record">>) /\ Head(steps) # Head(<<"record">>)
    BY <1>4, Tuples
  <2>2. steps # <<"evaluate", "record">> /\ steps # <<"record">>
    BY <2>1, Zenon
  <2> QED BY <2>2 DEF DecisionOnly
<1> QED BY <1>1, <1>2, <1>3, <1>5 DEF WellFormed

LEMMA GuardedIsWellFormed ==
  ASSUME NEW role, NEW operation, NEW action, NEW target, action # "none",
         NEW steps, steps \in Undecided, operation # "none" => steps # <<"evaluate", "record">>
  PROVE  WellFormed(Guarded(role, operation, action, target, steps))
<1>1. PICK h : h = Guarded(role, operation, action, target, steps)
  OBVIOUS
<1>2. h.action # "none" /\ h.steps = steps /\ h.operation = operation
  BY <1>1 DEF Guarded
<1>3. steps # <<"record">>
  <2>1. <<"record">> \in Evaluated
    BY DEF Evaluated
  <2> QED BY <2>1, Classes
<1> QED BY <1>1, <1>2, <1>3 DEF WellFormed, DecisionOnly

LEMMA GuardedOrders ==
  /\ HttpGuarded \in Undecided /\ HttpGuarded # <<"evaluate", "record">>
  /\ GrpcGuarded \in Undecided /\ GrpcGuarded # <<"evaluate", "record">>
  /\ <<"evaluate", "record">> \in Undecided
  /\ <<"operate", "evaluate", "record", "audit">> \in Undecided
  /\ <<"operate", "evaluate", "record", "audit">> # <<"evaluate", "record">>
<1>1. Len(HttpGuarded) # 2 /\ Len(GrpcGuarded) # 2 /\ Len(<<"evaluate", "record">>) = 2
  BY Tuples
<1>2. Len(<<"operate", "evaluate", "record", "audit">>) # 2
  BY Tuples
<1> QED BY <1>1, <1>2 DEF Undecided

LEMMA ContentIsWellFormed ==
  ASSUME NEW h \in ContentHandlers
  PROVE  WellFormed(h) /\ h.operation = "content"
<1>1. \/ \E role \in Roles, steps \in {Plain, Announced, <<"operate+audit">>} : h = Handler(role, "content", steps)
      \/ \E role \in Roles, action \in {"export", "context_read", "memory_read", "memory_share"},
            target \in {"workspace-export", "documents", "graph", "memory", "memory-share", "context-package",
                        "memories", "working-session"}, steps \in {HttpGuarded, GrpcGuarded} :
           h = Guarded(role, "content", action, target, steps)
  BY DEF ContentHandlers, Roles, GetWorkspaceUsage, ExportWorkspace, CreateMemory,
    WriteSession, GetWorkingSession, TransitionMemory, IngestDocument, ReadDocument,
    RetryIngestionJob, RetrieveDocumentChunks, RebuildVectorWorkspace, RebuildTextWorkspace, RebuildGraphWorkspace,
    RetrieveGraph, GetMemory, Retrieve, CreateMemoryShare, ReviewMemoryShare, ListMemoryShares,
    CompileContextPackage, PutBlob, ListOutboxEvents, ListGuardrailPolicies,
    GrpcCreateMemory, GrpcGetMemory, GrpcRetrieveMemories, GrpcRetrieveDocuments,
    GrpcCompileContextPackage, GrpcWriteSession, GrpcGetWorkingSession
<1>2. CASE \E role \in Roles, steps \in {Plain, Announced, <<"operate+audit">>} : h = Handler(role, "content", steps)
  <2>1. PICK role \in Roles, steps \in {Plain, Announced, <<"operate+audit">>} : h = Handler(role, "content", steps)
    BY <1>2
  <2>2. WellFormed(h)
    BY <2>1, PlainIsWellFormed
  <2> QED BY <2>1, <2>2 DEF Handler
<1>3. CASE \E role \in Roles, action \in {"export", "context_read", "memory_read", "memory_share"},
            target \in {"workspace-export", "documents", "graph", "memory", "memory-share", "context-package",
                        "memories", "working-session"}, steps \in {HttpGuarded, GrpcGuarded} :
           h = Guarded(role, "content", action, target, steps)
  <2>1. PICK role \in Roles, action \in {"export", "context_read", "memory_read", "memory_share"},
            target \in {"workspace-export", "documents", "graph", "memory", "memory-share", "context-package",
                        "memories", "working-session"}, steps \in {HttpGuarded, GrpcGuarded} :
           h = Guarded(role, "content", action, target, steps)
    BY <1>3
  <2>2. action # "none" /\ steps \in Undecided /\ steps # <<"evaluate", "record">>
    BY GuardedOrders
  <2>3. WellFormed(h)
    BY <2>1, <2>2, GuardedIsWellFormed
  <2> QED BY <2>1, <2>3 DEF Guarded
<1> QED BY <1>1, <1>2, <1>3

\* A request that begins is in order, and knows what it is up against.
LEMMA BeginHolds ==
  ASSUME RequestsInv, NEW r \in Requests, NEW k \in Keys, NEW h, NEW scope, NEW arg, WellFormed(h),
         h.operation = "issue_api_key" => arg \in Key /\ WithinAuthority(arg),
         h.operation \in {"list_published_skills", "get_published_skill"} => arg \subseteq Skills,
         h.operation = "transition_skill" => arg[1] \in Skills,
         h.operation = "transition_guardrail_policy" => arg[1] \in Policies,
         Begin(r, k, h, scope, arg)
  PROVE  RequestsInv'
<1> DEFINE rules == Concerning(keys[k].role, h)
           denying == {p \in EnforcedPolicies(scope) : Denies(p, rules)}
           withdrawn == {s \in Sought(h, arg) : skills[s].lifecycle = "ended"}
           v == [status |-> "running", operation |-> h.operation, steps |-> h.steps,
                 scope |-> scope, arg |-> arg, rules |-> rules, guarded |-> h.action # "none",
                 allowed |-> TRUE, shown |-> {}, audited |-> {}, denying |-> denying, withdrawn |-> withdrawn]
<1>1. requests' = [requests EXCEPT ![r] = v] /\ UNCHANGED <<keys, skills, policies>>
  BY DEF Begin
<1>2. TablesStep
  BY <1>1, TablesRest DEF RequestsInv, TypeOK, TablesOK
<1>3. \A p \in denying :
        /\ p \in Policies /\ policies[p].lifecycle = "active"
        /\ {policies[p].workspace} = scope /\ Denies(p, rules)
  BY DEF EnforcedPolicies
<1>4. \A s \in withdrawn : s \in Skills /\ skills[s].lifecycle = "ended"
  BY DEF Sought
<1>5. h.action = "none" => denying = {}
  <2>1. h.action = "none" => rules = {}
    BY RulesAssumption DEF Concerning, Matches
  <2> HIDE DEF rules
  <2>2. ASSUME rules = {} PROVE denying = {}
    BY <2>2 DEF Denies
  <2> QED BY <2>1, <2>2
<1> HIDE DEF rules, denying, withdrawn
<1>6. PICK q : q = v
  OBVIOUS
<1>7. /\ DOMAIN q = Fields /\ q.status = "running" /\ q.operation = h.operation /\ q.steps = h.steps
      /\ q.scope = scope /\ q.arg = arg /\ q.rules = rules /\ q.shown = {} /\ q.audited = {}
      /\ q.denying = denying /\ q.withdrawn = withdrawn
  BY <1>6 DEF Fields
<1>8. q.guarded = (h.action # "none")
  BY <1>6
<1> HIDE DEF v
<1>9. SeenStays(q)
  BY <1>3, <1>4, <1>7 DEF SeenStays
<1>10. Asks(q)
  BY <1>3, <1>7 DEF Asks
<1>11. InOrder(q, q.steps)
  BY <1>5, <1>7, <1>8 DEF InOrder, WellFormed
<1>12. Holds(q)
  BY <1>7, <1>9, <1>10, <1>11 DEF Holds
<1> QED BY <1>1, <1>2, <1>6, <1>12, RequestsStep

LEMMA AskInv ==
  ASSUME RequestsInv, NEW r \in Requests, NEW k \in Keys, Ask(r, k)
  PROVE  RequestsInv'
<1>1. PICK w \in Workspaces :
    \/ \E h \in ContentHandlers : Begin(r, k, h, {w}, "none")
    \/ \E n \in Names : Begin(r, k, CreateSkill, {w}, n)
    \/ \E s \in Existing(skills), to \in {"active", "ended"} : Begin(r, k, TransitionSkill, {w}, <<s, to>>)
    \/ Begin(r, k, ListSkills, {w}, Skills)
    \/ \E s \in Existing(skills) : Begin(r, k, GetSkill(s), {w}, {s})
    \/ \E s \in Existing(skills) : Begin(r, k, AuthorizeSkillUse(skills[s].name), {w}, {s})
    \/ \E rules \in RuleSets : Begin(r, k, CreateGuardrailPolicy, {w}, rules)
    \/ \E p \in Existing(policies), to \in {"active", "ended"} : Begin(r, k, TransitionGuardrailPolicy, {w}, <<p, to>>)
    \/ \E rule \in UNION RuleSets :
         \E target \in rule.targets : Begin(r, k, EvaluateGuardrail(rule.action, target), {w}, "none")
  BY DEF Ask
<1>2. Existing(skills) \subseteq Skills /\ Existing(policies) \subseteq Policies
  BY DEF Existing, RequestsInv, TypeOK, IsTable
<1>3. ASSUME NEW h \in ContentHandlers, Begin(r, k, h, {w}, "none") PROVE RequestsInv'
  <2>1. WellFormed(h) /\ h.operation = "content"
    BY ContentIsWellFormed
  <2> QED BY <1>3, <2>1, BeginHolds
<1>4. ASSUME NEW n \in Names, Begin(r, k, CreateSkill, {w}, n) PROVE RequestsInv'
  <2>1. WellFormed(CreateSkill) /\ CreateSkill.operation = "create_skill"
    BY PlainIsWellFormed DEF CreateSkill, Handler
  <2> QED BY <1>4, <2>1, BeginHolds
<1>5. ASSUME NEW s \in Skills, NEW to, Begin(r, k, TransitionSkill, {w}, <<s, to>>)
      PROVE  RequestsInv'
  <2>1. WellFormed(TransitionSkill) /\ TransitionSkill.operation = "transition_skill"
    BY PlainIsWellFormed DEF TransitionSkill, Handler
  <2> QED BY <1>5, <2>1, BeginHolds
<1>6. ASSUME Begin(r, k, ListSkills, {w}, Skills) PROVE RequestsInv'
  <2>1. WellFormed(ListSkills)
    BY GuardedIsWellFormed, GuardedOrders DEF ListSkills
  <2>2. ListSkills.operation = "list_published_skills"
    BY DEF ListSkills, Guarded
  <2> QED BY <1>6, <2>1, <2>2, BeginHolds
<1>7. ASSUME NEW s \in Skills, Begin(r, k, GetSkill(s), {w}, {s}) PROVE RequestsInv'
  <2>1. WellFormed(GetSkill(s))
    BY GuardedIsWellFormed, GuardedOrders DEF GetSkill
  <2>2. GetSkill(s).operation = "get_published_skill"
    BY DEF GetSkill, Guarded
  <2> QED BY <1>7, <2>1, <2>2, BeginHolds
<1>8. ASSUME NEW s \in Skills, NEW n, Begin(r, k, AuthorizeSkillUse(n), {w}, {s}) PROVE RequestsInv'
  <2>1. WellFormed(AuthorizeSkillUse(n))
    BY GuardedIsWellFormed, GuardedOrders DEF AuthorizeSkillUse
  <2>2. AuthorizeSkillUse(n).operation = "get_published_skill"
    BY DEF AuthorizeSkillUse, Guarded
  <2> QED BY <1>8, <2>1, <2>2, BeginHolds
<1>9. ASSUME NEW rules, Begin(r, k, CreateGuardrailPolicy, {w}, rules) PROVE RequestsInv'
  <2>1. WellFormed(CreateGuardrailPolicy) /\ CreateGuardrailPolicy.operation = "create_guardrail_policy"
    BY PlainIsWellFormed DEF CreateGuardrailPolicy, Handler
  <2> QED BY <1>9, <2>1, BeginHolds
<1>10. ASSUME NEW p \in Policies, NEW to, Begin(r, k, TransitionGuardrailPolicy, {w}, <<p, to>>)
       PROVE  RequestsInv'
  <2>1. /\ WellFormed(TransitionGuardrailPolicy)
        /\ TransitionGuardrailPolicy.operation = "transition_guardrail_policy"
    BY PlainIsWellFormed DEF TransitionGuardrailPolicy, Handler
  <2> QED BY <1>10, <2>1, BeginHolds
<1>11. ASSUME NEW rule \in UNION RuleSets, NEW target, Begin(r, k, EvaluateGuardrail(rule.action, target), {w}, "none")
       PROVE  RequestsInv'
  <2>1. rule.action # "none"
    BY RulesAssumption
  <2>2. WellFormed(EvaluateGuardrail(rule.action, target))
    BY <2>1, GuardedIsWellFormed, GuardedOrders DEF EvaluateGuardrail
  <2>3. EvaluateGuardrail(rule.action, target).operation = "none"
    BY DEF EvaluateGuardrail, Guarded
  <2> QED BY <1>11, <2>2, <2>3, BeginHolds
<1> QED BY <1>1, <1>2, <1>3, <1>4, <1>5, <1>6, <1>7, <1>8, <1>9, <1>10, <1>11

LEMMA AskOrganizationInv ==
  ASSUME RequestsInv, NEW r \in Requests, NEW k \in Keys, AskOrganization(r, k)
  PROVE  RequestsInv'
<1>1. PICK o \in Organizations : Begin(r, k, ListOutboxEvents, o, "none")
  BY DEF AskOrganization
<1>2. WellFormed(ListOutboxEvents) /\ ListOutboxEvents.operation = "content"
  BY PlainIsWellFormed DEF ListOutboxEvents, Handler
<1> QED BY <1>1, <1>2, BeginHolds

\* A key is issued by an owner, within the owner's own scope.
LEMMA AskApiKeyInv ==
  ASSUME RequestsInv, NEW r \in Requests, NEW k \in Keys, AskApiKey(r, k)
  PROVE  RequestsInv'
<1>1. PICK scope \in Scopes, role \in Issuable :
        /\ MayIssue(k, scope)
        /\ Begin(r, k, CreateApiKey, scope, [issued |-> TRUE, role |-> role, scope |-> scope, issuer |-> {k}])
  BY DEF AskApiKey
<1>2. WellFormed(CreateApiKey) /\ CreateApiKey.operation = "issue_api_key" /\ CreateApiKey.role = "owner"
  BY PlainIsWellFormed DEF CreateApiKey, Handler
<1>3. keys[k].issued /\ scope \subseteq keys[k].scope /\ keys[k].role = "owner"
  BY <1>1, <1>2 DEF Begin, Authorizes, Allows
<1>4. PICK key : key = [issued |-> TRUE, role |-> role, scope |-> scope, issuer |-> {k}]
  OBVIOUS
<1>5. key \in Key
  BY <1>4, TablesAssumption DEF Key, Roles
<1>6. WithinAuthority(key)
  BY <1>3, <1>4 DEF WithinAuthority
<1> QED BY <1>1, <1>2, <1>4, <1>5, <1>6, BeginHolds

-----------------------------------------------------------------------------
\* One step of a running request.

LEMMA Running ==
  ASSUME RequestsInv, NEW r \in Requests, NEW q, q = requests[r], q.status = "running"
  PROVE  /\ DOMAIN q = Fields /\ SeenStays(q) /\ Asks(q) /\ InOrder(q, q.steps)
         /\ q.steps \in Undecided \cup Evaluated \cup Decided
<1>1. Holds(q)
  BY DEF RequestsInv
<1>2. DOMAIN q = Fields /\ SeenStays(q) /\ Asks(q) /\ InOrder(q, q.steps)
  BY <1>1 DEF Holds
<1> QED BY <1>2 DEF InOrder

LEMMA Proceeds ==
  ASSUME RequestsInv, TablesStep, NEW r \in Requests, NEW q, Proceed(r, q),
         DOMAIN q = Fields, q.status = "running", SeenStays(q), Asks(q),
         (Len(q.steps) = 1 /\ Settled(q)) \/ (Len(q.steps) # 1 /\ InOrder(q, Tail(q.steps)))
  PROVE  RequestsInv'
<1>1. PICK v : v = Advanced(q)
  OBVIOUS
<1>2. Holds(v)
  BY <1>1, Advances
<1> QED BY <1>1, <1>2, RequestsStep DEF Proceed

\* A request that no enforced policy denies has passed the policies that
\* denied it when it began.
LEMMA NotDeniedPasses ==
  ASSUME NEW q, Asks(q), SeenStays(q), ~Denied(q)
  PROVE  Passed(q)
<1> SUFFICES ASSUME NEW p \in q.denying, policies[p].lifecycle = "active" PROVE FALSE
  BY DEF Passed
<1>1. p \in EnforcedPolicies(q.scope)
  BY DEF Asks, SeenStays, EnforcedPolicies
<1>2. Denies(p, q.rules)
  BY DEF Asks
<1> QED BY <1>1, <1>2 DEF Denied

LEMMA EvaluateInv ==
  ASSUME RequestsInv, NEW r \in Requests, Evaluate(r), TablesStep
  PROVE  RequestsInv'
<1>1. PICK q : q = requests[r]
  OBVIOUS
<1>2. q.status = "running" /\ Head(q.steps) = "evaluate"
  BY <1>1 DEF Evaluate, At
<1>3. /\ DOMAIN q = Fields /\ SeenStays(q) /\ Asks(q) /\ InOrder(q, q.steps)
      /\ q.steps \in Undecided \cup Evaluated \cup Decided
  BY <1>1, <1>2, Running
<1>4. q.steps \in Undecided /\ Len(q.steps) # 1 /\ Tail(q.steps) \in Evaluated
  BY <1>2, <1>3, Orders
<1>5. q.steps \in DecisionOnly \/ Tail(q.steps) \notin DecisionOnly
  BY <1>3, <1>4, Orders
<1>6. q.guarded /\ (q.operation # "none" => q.steps \notin DecisionOnly)
  BY <1>3, <1>4, Classes DEF InOrder
<1>7. PICK v : v = [q EXCEPT !.allowed = ~Denied(q)]
  OBVIOUS
<1>8. /\ DOMAIN v = Fields /\ v.status = q.status /\ v.operation = q.operation /\ v.steps = q.steps
      /\ v.scope = q.scope /\ v.arg = q.arg /\ v.rules = q.rules /\ v.guarded = q.guarded
      /\ v.shown = q.shown /\ v.audited = q.audited /\ v.denying = q.denying /\ v.withdrawn = q.withdrawn
  BY <1>3, <1>7 DEF Fields
<1>9. v.allowed = ~Denied(q)
  BY <1>3, <1>7 DEF Fields
<1>10. v.allowed => Passed(v)
  <2>1. v.allowed => ~Denied(q)
    BY <1>9, Zenon
  <2>2. ~Denied(q) => Passed(q)
    BY <1>3, NotDeniedPasses
  <2> QED BY <1>8, <2>1, <2>2 DEF Passed
<1>11. SeenStays(v) /\ Asks(v)
  BY <1>3, <1>8 DEF SeenStays, Asks
<1>12. InOrder(v, Tail(v.steps))
  BY <1>4, <1>5, <1>6, <1>8, <1>10 DEF InOrder
<1>13. Proceed(r, v)
  BY <1>1, <1>7 DEF Evaluate
<1> QED BY <1>2, <1>4, <1>8, <1>11, <1>12, <1>13, Proceeds

\* A refused or failed request is forgotten.
LEMMA RefuseInv ==
  ASSUME RequestsInv, NEW r \in Requests, Refuse(r), TablesStep
  PROVE  RequestsInv'
BY RequestsStep DEF Refuse

\* What Record and Enforce share: the decision is audited.
LEMMA DecisionInv ==
  ASSUME RequestsInv, NEW r \in Requests, TablesStep, NEW q, q = requests[r], q.status = "running",
         Head(q.steps) \in {"record", "enforce"},
         Proceed(r, [q EXCEPT !.audited = @ \cup {"decision"}]), Passed(q)
  PROVE  RequestsInv'
<1>1. /\ DOMAIN q = Fields /\ SeenStays(q) /\ Asks(q) /\ InOrder(q, q.steps)
      /\ q.steps \in Undecided \cup Evaluated \cup Decided
  BY Running
<1>2. /\ q.steps \in Undecided \cup Evaluated
      /\ q.steps = <<"record">> \/ (Len(q.steps) # 1 /\ Tail(q.steps) \in Decided)
  BY <1>1, Orders
<1>3. q.steps \in DecisionOnly \/ Len(q.steps) = 1 \/ Tail(q.steps) \notin DecisionOnly
  BY <1>1, Orders
<1>4. q.guarded /\ (q.operation # "none" => q.steps \notin DecisionOnly)
  BY <1>1, <1>2, Classes DEF InOrder
<1>5. PICK v : v = [q EXCEPT !.audited = @ \cup {"decision"}]
  OBVIOUS
<1>6. /\ DOMAIN v = Fields /\ v.status = q.status /\ v.operation = q.operation /\ v.steps = q.steps
      /\ v.scope = q.scope /\ v.arg = q.arg /\ v.rules = q.rules /\ v.guarded = q.guarded
      /\ v.shown = q.shown /\ v.audited = q.audited \cup {"decision"}
      /\ v.denying = q.denying /\ v.withdrawn = q.withdrawn
  BY <1>1, <1>5 DEF Fields
<1>7. SeenStays(v) /\ Asks(v) /\ Passed(v) /\ "decision" \in v.audited
  BY <1>1, <1>6 DEF SeenStays, Asks, Passed
<1>8. CASE q.steps = <<"record">>
  <2>1. Len(v.steps) = 1
    BY <1>6, <1>8, Tuples
  <2>2. v.operation = "none"
    BY <1>4, <1>6, <1>8 DEF DecisionOnly
  <2>3. Settled(v)
    BY <1>7, <2>2 DEF Settled
  <2> QED BY <1>5, <1>6, <1>7, <2>1, <2>3, Proceeds
<1>9. CASE Len(q.steps) # 1 /\ Tail(q.steps) \in Decided
  <2>1. InOrder(v, Tail(v.steps))
    BY <1>3, <1>4, <1>6, <1>7, <1>9 DEF InOrder
  <2> QED BY <1>5, <1>6, <1>7, <1>9, <2>1, Proceeds
<1> QED BY <1>2, <1>8, <1>9

LEMMA RecordInv ==
  ASSUME RequestsInv, NEW r \in Requests, Record(r), TablesStep
  PROVE  RequestsInv'
<1>1. PICK q : q = requests[r]
  OBVIOUS
<1>2. q.status = "running" /\ Head(q.steps) = "record"
  BY <1>1 DEF Record, At
<1>3. InOrder(q, q.steps) /\ q.steps \in Undecided \cup Evaluated \cup Decided
  BY <1>1, <1>2, Running
<1>4. q.steps \in Evaluated
  BY <1>2, <1>3, Orders
<1>5. q.allowed => Passed(q)
  BY <1>3, <1>4, Classes DEF InOrder
<1>6. CASE q.allowed
  BY <1>1, <1>2, <1>5, <1>6, DecisionInv DEF Record
<1>7. CASE ~q.allowed
  BY <1>1, <1>7, RefuseInv DEF Record
<1> QED BY <1>6, <1>7

LEMMA EnforceInv ==
  ASSUME RequestsInv, NEW r \in Requests, Enforce(r), TablesStep
  PROVE  RequestsInv'
<1>1. PICK q : q = requests[r]
  OBVIOUS
<1>2. q.status = "running" /\ Head(q.steps) = "enforce"
  BY <1>1 DEF Enforce, At
<1>3. SeenStays(q) /\ Asks(q)
  BY <1>1, <1>2, Running
<1>4. CASE Denied(q)
  BY <1>1, <1>4, RefuseInv DEF Enforce
<1>5. CASE ~Denied(q)
  BY <1>1, <1>2, <1>3, <1>5, NotDeniedPasses, DecisionInv DEF Enforce
<1> QED BY <1>4, <1>5

\* What Audit and OperateAndAudit share: the operation is audited.
LEMMA OperationAuditedInv ==
  ASSUME RequestsInv, NEW r \in Requests, TablesStep, NEW q, q = requests[r], q.status = "running",
         Head(q.steps) \in {"audit", "operate+audit"},
         Proceed(r, [q EXCEPT !.audited = @ \cup {"operation"}])
  PROVE  RequestsInv'
<1>1. /\ DOMAIN q = Fields /\ SeenStays(q) /\ Asks(q) /\ InOrder(q, q.steps)
      /\ q.steps \in Undecided \cup Evaluated \cup Decided
  BY Running
<1>2. q.steps \in Decided /\ (Len(q.steps) = 1 \/ Tail(q.steps) \in Decided)
  BY <1>1, Orders
<1>3. q.steps \in DecisionOnly \/ Len(q.steps) = 1 \/ Tail(q.steps) \notin DecisionOnly
  BY <1>1, Orders
<1>4. /\ q.guarded => "decision" \in q.audited /\ Passed(q)
      /\ ~q.guarded => q.denying = {}
      /\ q.operation # "none" => q.steps \notin DecisionOnly
  BY <1>1, <1>2, Classes DEF InOrder
<1>5. PICK v : v = [q EXCEPT !.audited = @ \cup {"operation"}]
  OBVIOUS
<1>6. /\ DOMAIN v = Fields /\ v.status = q.status /\ v.operation = q.operation /\ v.steps = q.steps
      /\ v.scope = q.scope /\ v.arg = q.arg /\ v.rules = q.rules /\ v.guarded = q.guarded
      /\ v.shown = q.shown /\ v.audited = q.audited \cup {"operation"}
      /\ v.denying = q.denying /\ v.withdrawn = q.withdrawn
  BY <1>1, <1>5 DEF Fields
<1>7. SeenStays(v) /\ Asks(v)
  BY <1>1, <1>6 DEF SeenStays, Asks
<1>8. Passed(v) /\ "operation" \in v.audited /\ (v.guarded => "decision" \in v.audited)
  BY <1>4, <1>6 DEF Passed
<1>9. Settled(v)
  BY <1>8 DEF Settled
<1>10. Len(q.steps) # 1 => InOrder(v, Tail(v.steps))
  BY <1>2, <1>3, <1>4, <1>6, <1>8 DEF InOrder
<1> QED BY <1>5, <1>6, <1>7, <1>9, <1>10, Proceeds

\* What the operations share: they only show something, of what may be seen.
LEMMA OperateInv ==
  ASSUME RequestsInv, NEW r \in Requests, TablesStep, NEW q, q = requests[r], At(r, "operate"),
         NEW v, Proceed(r, v), DOMAIN v = Fields, SeenStays(v),
         v.status = q.status, v.operation = q.operation, v.steps = q.steps, v.scope = q.scope, v.arg = q.arg,
         v.rules = q.rules, v.guarded = q.guarded, v.allowed = q.allowed, v.audited = q.audited,
         v.denying = q.denying
  PROVE  RequestsInv'
<1>1. q.status = "running" /\ Head(q.steps) = "operate"
  BY DEF At
<1>2. /\ DOMAIN q = Fields /\ SeenStays(q) /\ Asks(q) /\ InOrder(q, q.steps)
      /\ q.steps \in Undecided \cup Evaluated \cup Decided
  BY <1>1, Running
<1>3. /\ Len(q.steps) # 1
      /\ \/ q.steps \in Undecided /\ Tail(q.steps) \in Undecided
         \/ q.steps \in Decided /\ Tail(q.steps) \in Decided
  BY <1>1, <1>2, Orders
<1>4. q.steps \in DecisionOnly \/ Tail(q.steps) \notin DecisionOnly
  BY <1>2, <1>3, Orders
<1>5. Asks(v)
  BY <1>2 DEF Asks
<1>6. InOrder(v, Tail(v.steps))
  BY <1>2, <1>3, <1>4, Classes DEF InOrder, Passed
<1> QED BY <1>1, <1>3, <1>5, <1>6, Proceeds

\* An operation that shows nothing new.
LEMMA OperateUnshownInv ==
  ASSUME RequestsInv, NEW r \in Requests, TablesStep, At(r, "operate"), Proceed(r, requests[r])
  PROVE  RequestsInv'
<1>1. PICK q : q = requests[r]
  OBVIOUS
<1>2. DOMAIN q = Fields /\ SeenStays(q)
  BY <1>1, Running DEF At
<1> QED BY <1>1, <1>2, OperateInv

\* An operation that shows published skills of the request's workspace: none
\* of them was withdrawn when the request began.
LEMMA OperateShownInv ==
  ASSUME RequestsInv, NEW r \in Requests, TablesStep, At(r, "operate"),
         NEW set, set \subseteq Skills, NEW shown, shown \subseteq PublishedIn(set, requests[r].scope),
         Proceed(r, [requests[r] EXCEPT !.shown = shown])
  PROVE  RequestsInv'
<1>1. PICK q : q = requests[r]
  OBVIOUS
<1>2. DOMAIN q = Fields /\ SeenStays(q)
  BY <1>1, Running DEF At
<1>3. PICK v : v = [q EXCEPT !.shown = shown]
  OBVIOUS
<1>4. /\ DOMAIN v = Fields /\ v.status = q.status /\ v.operation = q.operation /\ v.steps = q.steps
      /\ v.scope = q.scope /\ v.arg = q.arg /\ v.rules = q.rules /\ v.guarded = q.guarded
      /\ v.allowed = q.allowed /\ v.audited = q.audited /\ v.denying = q.denying
      /\ v.shown = shown /\ v.withdrawn = q.withdrawn
  BY <1>2, <1>3 DEF Fields
<1>5. \A s \in shown : s \in Skills /\ skills[s].lifecycle = "active" /\ {skills[s].workspace} = q.scope
  BY <1>1 DEF PublishedIn, Published
<1>6. SeenStays(v)
  <2>1. shown \cap q.withdrawn = {}
    BY <1>2, <1>5 DEF SeenStays
  <2> QED BY <1>2, <1>4, <1>5, <2>1 DEF SeenStays
<1> QED BY <1>1, <1>3, <1>4, <1>6, OperateInv

-----------------------------------------------------------------------------
\* The theorems.

LEMMA InitRequestsInv == Init => RequestsInv
<1> SUFFICES ASSUME Init PROVE RequestsInv
  OBVIOUS
<1>1. NoKey \in Key /\ ~NoKey.issued
  BY DEF NoKey, Key, Roles
<1>2. keys \in [Keys -> Key] /\ AuthorityIsDelegated
  BY <1>1 DEF Init, AuthorityIsDelegated
<1>3. IsTable(skills, Skills) /\ IsTable(policies, Policies)
  <2>1. NoEntry.lifecycle \in Lifecycles
    BY DEF NoEntry, Lifecycles
  <2> QED BY <2>1 DEF Init, IsTable
<1>4. Free.status = "free"
  BY DEF Free
<1>5. DOMAIN requests = Requests /\ \A r \in Requests : requests[r].status = "free"
  BY <1>4 DEF Init
<1> QED BY <1>2, <1>3, <1>5 DEF RequestsInv, TypeOK

LEMMA NextRequestsInv ==
  ASSUME RequestsInv, [Next]_vars
  PROVE  RequestsInv'
<1> USE DEF RequestsInv, TypeOK, TablesOK
<1>1. ASSUME UNCHANGED <<keys, skills, policies>> PROVE TablesStep
  BY <1>1, TablesRest
<1> HIDE DEF RequestsInv, TypeOK
<1>2. TablesOK /\ AuthorityIsDelegated
  BY DEF RequestsInv, TypeOK, TablesOK
<1>3. CASE CreateOrganization
  <2>1. PICK o \in Organizations, k \in Keys :
          ~keys[k].issued /\ keys' = [keys EXCEPT ![k] = [issued |-> TRUE, role |-> "owner", scope |-> o, issuer |-> {}]]
    BY <1>3 DEF CreateOrganization
  <2>2. PICK key : key = [issued |-> TRUE, role |-> "owner", scope |-> o, issuer |-> {}]
    OBVIOUS
  <2>3. key \in Key /\ WithinAuthority(key)
    BY <2>2 DEF Key, Roles, Scopes, WithinAuthority
  <2>4. TablesStep
    BY <1>2, <1>3, <2>1, <2>2, <2>3, KeyIsIssued DEF CreateOrganization
  <2> QED BY <1>3, <2>4, RequestsRest DEF CreateOrganization
<1>4. CASE OtherClients
  <2>1. PICK w \in Workspaces, to \in {"active", "ended"} :
          \/ \E n \in Names : InsertSkill(w, n)
          \/ \E rules \in RuleSets : InsertPolicy(w, rules)
          \/ \E s \in Skills : ChangeSkill(w, s, to)
          \/ \E p \in Policies : ChangePolicy(w, p, to)
    BY <1>4 DEF OtherClients
  <2>2. TablesStep
    BY <1>2, <2>1, EntriesMove
  <2> QED BY <1>4, <2>2, RequestsRest DEF OtherClients
<1>5. CASE Die
  <2>1. TablesStep
    BY <1>1, <1>5 DEF Die
  <2>2. \A r \in Requests : requests'[r].status = "free"
    BY <1>5 DEF Die, Free
  <2> QED BY <1>5, <2>1, <2>2 DEF Die, RequestsInv, TypeOK, TablesStep, TablesOK
<1>6. ASSUME NEW r \in Requests, NEW k \in Keys, Ask(r, k) \/ AskOrganization(r, k) \/ AskApiKey(r, k)
      PROVE  RequestsInv'
  BY <1>6, AskInv, AskOrganizationInv, AskApiKeyInv
<1>7. ASSUME NEW r \in Requests, Evaluate(r) \/ Record(r) \/ Enforce(r)
      PROVE  RequestsInv'
  <2>1. TablesStep
    BY <1>1, <1>7 DEF Evaluate, Record, Enforce
  <2> QED BY <1>7, <2>1, EvaluateInv, RecordInv, EnforceInv
<1>8. ASSUME NEW r \in Requests, Audit(r) \/ OperateAndAudit(r)
      PROVE  RequestsInv'
  <2>1. TablesStep
    BY <1>1, <1>8 DEF Audit, OperateAndAudit
  <2>2. PICK q : q = requests[r]
    OBVIOUS
  <2>3. q.status = "running" /\ Head(q.steps) \in {"audit", "operate+audit"}
    BY <1>8, <2>2 DEF Audit, OperateAndAudit, At
  <2>4. Proceed(r, [q EXCEPT !.audited = @ \cup {"operation"}])
    BY <1>8, <2>2 DEF Audit, OperateAndAudit
  <2> QED BY <2>1, <2>2, <2>3, <2>4, OperationAuditedInv
<1>9. ASSUME NEW r \in Requests, Fails(r)
      PROVE  RequestsInv'
  BY <1>1, <1>9, RefuseInv DEF Fails
<1>10. ASSUME NEW r \in Requests, OperateContent(r)
       PROVE  RequestsInv'
  BY <1>1, <1>10, OperateUnshownInv DEF OperateContent, Operates
<1>11. ASSUME NEW r \in Requests, IssueApiKey(r)
       PROVE  RequestsInv'
  <2>1. PICK q : q = requests[r]
    OBVIOUS
  <2>2. q.status = "running" /\ q.operation = "issue_api_key"
    BY <1>11, <2>1 DEF IssueApiKey, Operates, At
  <2>3. q.arg \in Key /\ WithinAuthority(q.arg)
    BY <2>1, <2>2, Running DEF Asks
  <2>4. PICK k \in Keys : ~keys[k].issued /\ keys' = [keys EXCEPT ![k] = q.arg]
    BY <1>11, <2>1 DEF IssueApiKey
  <2>5. TablesStep
    BY <1>2, <1>11, <2>3, <2>4, KeyIsIssued DEF IssueApiKey
  <2> QED BY <1>11, <2>5, OperateUnshownInv DEF IssueApiKey, Operates
<1>12. ASSUME NEW r \in Requests, OperateChange(r)
       PROVE  RequestsInv'
  <2>1. PICK q : q = requests[r]
    OBVIOUS
  <2>2. PICK w \in Workspaces :
          \/ InsertSkill(w, q.arg) \/ InsertPolicy(w, q.arg)
          \/ ChangeSkill(w, q.arg[1], q.arg[2]) \/ ChangePolicy(w, q.arg[1], q.arg[2])
    BY <1>12, <2>1 DEF OperateChange
  <2>3. TablesStep
    BY <1>2, <2>2, EntriesMove
  <2> QED BY <1>12, <2>3, OperateUnshownInv DEF OperateChange, Operates
<1>13. ASSUME NEW r \in Requests, OperateListSkills(r) \/ OperateGetSkill(r)
       PROVE  RequestsInv'
  <2>1. TablesStep
    BY <1>1, <1>13 DEF OperateListSkills, OperateGetSkill
  <2>2. PICK q : q = requests[r]
    OBVIOUS
  <2>3. At(r, "operate") /\ q.operation \in {"list_published_skills", "get_published_skill"}
    BY <1>13, <2>2 DEF OperateListSkills, OperateGetSkill, Operates
  <2>4. q.arg \subseteq Skills
    BY <2>2, <2>3, Running DEF Asks, At
  <2>5. PICK shown : shown = PublishedIn(q.arg, q.scope)
    OBVIOUS
  <2>6. Proceed(r, [q EXCEPT !.shown = shown])
    BY <1>13, <2>2, <2>5 DEF OperateListSkills, OperateGetSkill
  <2> QED BY <2>1, <2>2, <2>3, <2>4, <2>5, <2>6, OperateShownInv
<1>14. CASE UNCHANGED vars
  BY <1>1, <1>14, RequestsRest DEF vars
<1> QED
  BY <1>3, <1>4, <1>5, <1>6, <1>7, <1>8, <1>9, <1>10, <1>11, <1>12, <1>13, <1>14 DEF Next

\* Invariant RequestsInv of every behaviour of the handlers of main.rs and
\* grpc.rs: a request walks its handler's order, and holds what it has seen.
THEOREM RequestsInvariance == Spec => []RequestsInv
<1>1. Init => RequestsInv
  BY InitRequestsInv
<1>2. RequestsInv /\ [Next]_vars => RequestsInv'
  BY NextRequestsInv
<1> QED BY <1>1, <1>2, PTL DEF Spec

\* Every answer has left its audit events behind (with_store and the audit
\* calls of the handlers, enforce_guardrail).
THEOREM AuditSafety == Spec => []AnsweredIsAudited
<1>1. RequestsInv => AnsweredIsAudited
  <2> SUFFICES ASSUME RequestsInv, NEW r \in Requests, Answered(r)
               PROVE  /\ requests[r].guarded => "decision" \in requests[r].audited
                      /\ requests[r].operation # "none" => "operation" \in requests[r].audited
    BY DEF AnsweredIsAudited
  <2>1. Settled(requests[r])
    BY DEF RequestsInv, Answered, Holds
  <2> QED BY <2>1 DEF Settled
<1> QED BY <1>1, RequestsInvariance, PTL

\* No request is answered that a policy denied from before it began until its
\* answer (evaluate_guardrail, under its own acquisition of the mutex).
THEOREM DenialSafety == Spec => []DenialsTakeEffect
<1>1. RequestsInv => DenialsTakeEffect
  <2> SUFFICES ASSUME RequestsInv, NEW r \in Requests, Answered(r), NEW p \in requests[r].denying
               PROVE  policies[p].lifecycle # "active"
    BY DEF DenialsTakeEffect
  <2>1. Settled(requests[r])
    BY DEF RequestsInv, Answered, Holds
  <2> QED BY <2>1 DEF Settled, Passed
<1> QED BY <1>1, RequestsInvariance, PTL

\* No answer shows a draft, a skill of another workspace, or one revoked
\* before its request began (list_published_skills, get_published_skill).
THEOREM WithdrawalSafety == Spec => []WithdrawnSkillsStayHidden
<1>1. RequestsInv => WithdrawnSkillsStayHidden
  <2> SUFFICES ASSUME RequestsInv, NEW r \in Requests, Answered(r)
               PROVE  /\ requests[r].shown \cap requests[r].withdrawn = {}
                      /\ \A s \in requests[r].shown :
                           /\ skills[s].lifecycle \in {"active", "ended"}
                           /\ {skills[s].workspace} = requests[r].scope
    BY DEF WithdrawnSkillsStayHidden
  <2>1. SeenStays(requests[r])
    BY DEF RequestsInv, Answered, Holds
  <2> QED BY <2>1 DEF SeenStays
<1> QED BY <1>1, RequestsInvariance, PTL

\* Every key is within the authority of the owner that issued it, however
\* long the chain from the bootstrap token (create_api_key).
THEOREM AuthoritySafety == Spec => []AuthorityIsDelegated
<1>1. RequestsInv => AuthorityIsDelegated
  BY DEF RequestsInv
<1> QED BY <1>1, RequestsInvariance, PTL

-----------------------------------------------------------------------------
\* Versions and events of the entries.

\* A finite set of numbers that is not empty has a greatest one.
LEMMA GreatestExists ==
  ASSUME NEW S, IsFiniteSet(S), S # {}, \A x \in S : x \in Nat
  PROVE  \E m \in S : \A y \in S : m >= y
<1> DEFINE Bad == {T \in SUBSET S : T # {} /\ ~ \E m \in T : \A y \in T : m >= y}
<1>1. ASSUME Bad # {} PROVE FALSE
  <2>1. PICK T \in Bad : \A t \in Bad : ~(t \subseteq T /\ t # T)
    <3>1. Bad \in SUBSET SUBSET S
      OBVIOUS
    <3> HIDE DEF Bad
    <3> QED BY <1>1, <3>1, SmallestSet
  <2>2. PICK x \in T : TRUE
    OBVIOUS
  <2>3. T \ {x} \notin Bad /\ T \ {x} \in SUBSET S
    BY <2>1, <2>2
  <2>4. CASE T \ {x} = {}
    <3>1. \A y \in T : x >= y
      BY <2>2, <2>4
    <3> QED BY <2>2, <3>1
  <2>5. CASE T \ {x} # {}
    <3>1. PICK m \in T \ {x} : \A y \in T \ {x} : m >= y
      BY <2>3, <2>5
    <3>2. CASE m >= x
      BY <3>1, <3>2
    <3>3. CASE ~(m >= x)
      <4>1. \A y \in T : x >= y
        BY <2>2, <3>1, <3>3
      <4> QED BY <2>2, <4>1
    <3> QED BY <3>2, <3>3
  <2> QED BY <2>4, <2>5
<1>2. S \notin Bad
  BY <1>1
<1> QED BY <1>2

\* The next version of a name is above every version it has.
LEMMA NextVersionIsNew ==
  ASSUME NEW table, Filled(table), NEW w, NEW n
  PROVE  /\ NextVersion(table, w, n) \in Nat
         /\ \A x \in DOMAIN table :
              table[x].lifecycle # "none" /\ table[x].workspace = w /\ table[x].name = n
                => table[x].version < NextVersion(table, w, n)
<1> DEFINE E == Existing(table)
           V == Versions(table, w, n) \cup {0}
           f == [x \in E |-> table[x].version]
<1>1. E \subseteq DOMAIN table /\ IsFiniteSet(E) /\ \A x \in E : table[x].version \in Nat
  BY DEF Existing, Filled
<1>2. IsFiniteSet({f[x] : x \in E})
  <2>1. f \in Surjection(E, {f[x] : x \in E})
    BY DEF Surjection
  <2> QED BY <1>1, <2>1, FS_Surjection
<1>3. Versions(table, w, n) \subseteq {f[x] : x \in E}
  BY DEF Versions
<1>4. (\A v \in V : v \in Nat) /\ IsFiniteSet(V) /\ V # {}
  <2>1. IsFiniteSet(Versions(table, w, n))
    BY <1>2, <1>3, FS_Subset
  <2>2. \A v \in V : v \in Nat
    BY <1>1, <1>3
  <2> QED BY <2>1, <2>2, FS_AddElement
<1>5. Max(V) \in V /\ \A y \in V : Max(V) >= y
  <2> HIDE DEF V
  <2>1. \E m \in V : \A y \in V : m >= y
    BY <1>4, GreatestExists
  <2> QED BY <2>1 DEF Max
<1>6. NextVersion(table, w, n) = Max(V) + 1
  BY DEF NextVersion
<1>7. ASSUME NEW x \in DOMAIN table,
             table[x].lifecycle # "none", table[x].workspace = w, table[x].name = n
      PROVE  table[x].version < NextVersion(table, w, n)
  <2>1. table[x] # NoEntry
    BY <1>7 DEF NoEntry
  <2>2. table[x].version \in V
    BY <1>7, <2>1 DEF Versions, Existing
  <2>3. table[x].version \in Nat /\ Max(V) \in Nat
    BY <1>4, <1>5, <2>2
  <2> HIDE DEF V
  <2> QED BY <1>5, <1>6, <2>2, <2>3
<1>8. Max(V) \in Nat
  <2> HIDE DEF V
  <2> QED BY <1>4, <1>5
<1> HIDE DEF V
<1> QED BY <1>6, <1>7, <1>8

\* Tells, of a table and the events of its entries.
Replays(entry, ev) ==
  IF entry.lifecycle = "none" THEN ev = <<>>
  ELSE /\ ev # <<>>
       /\ Head(ev) = "draft" /\ Last(ev) = entry.lifecycle
       /\ \A i \in 1..(Len(ev) - 1) : MayBecome(ev[i], ev[i + 1])

Apart(table) ==
  \A x, y \in DOMAIN table :
    /\ x # y /\ table[x].lifecycle # "none" /\ table[y].lifecycle # "none"
    /\ table[x].workspace = table[y].workspace /\ table[x].name = table[y].name
    => table[x].version # table[y].version

Recorded(table, ev) == Filled(table) /\ Apart(table) /\ \A x \in DOMAIN table : Replays(table[x], ev[x])

LEMMA RecordedTells ==
  /\ Filled(skills) /\ Tells(skills) <=> Recorded(skills, events)
  /\ Filled(policies) /\ Tells(policies) <=> Recorded(policies, events)
BY DEF Recorded, Tells, Apart, Replays

\* A new event of x, the last of ev2[x].
Logs(ev2, ev, domain, x, log) == ev2[x] = log /\ \A y \in domain \ {x} : ev2[y] = ev[y]

\* A draft takes a version of its own, and announces itself.
LEMMA DraftIsRecorded ==
  ASSUME NEW table, NEW domain, IsTable(table, domain), NEW ev, Recorded(table, ev),
         NEW w, NEW n, NEW rules, NEW x \in domain \ Existing(table), NEW new, NEW ev2,
         new = [table EXCEPT ![x] = Draft(table, w, n, rules)],
         Logs(ev2, ev, domain, x, <<"draft">>)
  PROVE  Recorded(new, ev2)
<1>1. PICK d : d = Draft(table, w, n, rules)
  OBVIOUS
<1>2. /\ d.lifecycle = "draft" /\ d.workspace = w /\ d.name = n
      /\ d.version = NextVersion(table, w, n)
  BY <1>1 DEF Draft
<1>3. /\ DOMAIN table = domain /\ DOMAIN new = domain /\ new[x] = d
      /\ \A y \in domain \ {x} : new[y] = table[y]
  BY <1>1 DEF IsTable
<1>4. /\ d.version \in Nat
      /\ \A y \in domain : table[y].lifecycle # "none" /\ table[y].workspace = w /\ table[y].name = n
           => table[y].version \in Nat /\ table[y].version < d.version
  BY <1>2, <1>3, NextVersionIsNew DEF Recorded, Filled
<1>5. Filled(new)
  <2>1. Existing(new) \subseteq Existing(table) \cup {x}
    BY <1>3 DEF Existing
  <2>2. IsFiniteSet(Existing(table) \cup {x})
    BY FS_AddElement DEF Recorded, Filled
  <2>3. IsFiniteSet(Existing(new))
    BY <2>1, <2>2, FS_Subset
  <2>4. \A y \in domain : new[y].version \in Nat /\ (new[y].lifecycle = "none" => new[y] = NoEntry)
    BY <1>2, <1>3, <1>4 DEF Recorded, Filled
  <2> QED BY <1>3, <2>3, <2>4 DEF Filled
<1>6. Apart(new)
  <2> SUFFICES ASSUME NEW y \in domain, NEW z \in domain, y # z,
                      new[y].lifecycle # "none", new[z].lifecycle # "none",
                      new[y].workspace = new[z].workspace, new[y].name = new[z].name,
                      new[y].version = new[z].version
               PROVE  FALSE
    BY <1>3 DEF Apart
  <2>1. CASE y # x /\ z # x
    BY <1>3, <2>1 DEF Recorded, Apart
  <2>2. CASE y = x
    BY <1>2, <1>3, <1>4, <2>2
  <2>3. CASE z = x
    BY <1>2, <1>3, <1>4, <2>3
  <2> QED BY <2>1, <2>2, <2>3
<1>7. ASSUME NEW y \in domain PROVE Replays(new[y], ev2[y])
  <2>1. CASE y # x
    BY <1>3, <2>1 DEF Recorded, Logs
  <2>2. CASE y = x
    <3>1. PICK e : e = <<"draft">>
      OBVIOUS
    <3>2. e # <<>> /\ Head(e) = "draft" /\ Last(e) = "draft" /\ Len(e) = 1
      BY <3>1 DEF Last
    <3>3. Replays(d, e)
      BY <1>2, <3>2 DEF Replays
    <3> QED BY <1>3, <2>2, <3>1, <3>3 DEF Logs
  <2> QED BY <2>1, <2>2
<1> QED BY <1>3, <1>5, <1>6, <1>7 DEF Recorded

\* A transition is the next of the entry's events, and no version changes.
LEMMA TransitionIsRecorded ==
  ASSUME NEW table, NEW domain, IsTable(table, domain), NEW ev, Recorded(table, ev),
         NEW x \in domain, ev[x] \in Seq(Lifecycles), NEW to, MayBecome(table[x].lifecycle, to),
         NEW new, NEW ev2,
         new = [table EXCEPT ![x].lifecycle = to],
         Logs(ev2, ev, domain, x, Append(ev[x], to))
  PROVE  Recorded(new, ev2)
<1>1. /\ DOMAIN table = domain /\ DOMAIN new = domain
      /\ \A y \in domain \ {x} : new[y] = table[y]
  BY DEF IsTable
<1>2. to # "none" /\ table[x].lifecycle # "none"
  BY DEF MayBecome
<1>3. /\ new[x].lifecycle = to /\ new[x].version = table[x].version
      /\ new[x].workspace = table[x].workspace /\ new[x].name = table[x].name
  <2>1. DOMAIN table[x] = DOMAIN NoEntry /\ new[x] = [table[x] EXCEPT !.lifecycle = to]
    BY DEF IsTable
  <2>2. {"lifecycle", "workspace", "name", "version"} \subseteq DOMAIN NoEntry
    BY DEF NoEntry
  <2> QED BY <2>1, <2>2
<1>4. Filled(new)
  <2>1. Existing(new) \subseteq Existing(table) \cup {x}
    BY <1>1 DEF Existing
  <2>2. IsFiniteSet(Existing(table) \cup {x})
    BY FS_AddElement DEF Recorded, Filled
  <2>3. IsFiniteSet(Existing(new))
    BY <2>1, <2>2, FS_Subset
  <2>4. \A y \in domain : new[y].version \in Nat /\ (new[y].lifecycle = "none" => new[y] = NoEntry)
    BY <1>1, <1>2, <1>3 DEF Recorded, Filled
  <2> QED BY <1>1, <2>3, <2>4 DEF Filled
<1>5. Apart(new)
  <2>1. \A y \in domain :
          /\ new[y].workspace = table[y].workspace /\ new[y].name = table[y].name
          /\ new[y].version = table[y].version
          /\ new[y].lifecycle # "none" => table[y].lifecycle # "none"
    BY <1>1, <1>2, <1>3
  <2> QED BY <1>1, <2>1 DEF Recorded, Apart
<1>6. ASSUME NEW y \in domain PROVE Replays(new[y], ev2[y])
  <2>1. CASE y # x
    BY <1>1, <2>1 DEF Recorded, Logs
  <2>2. CASE y = x
    <3>1. PICK e : e = ev[x]
      OBVIOUS
    <3>2. PICK e2 : e2 = Append(e, to)
      OBVIOUS
    <3>3. /\ e \in Seq(Lifecycles) /\ e # <<>> /\ Head(e) = "draft" /\ e[Len(e)] = table[x].lifecycle
          /\ \A i \in 1..(Len(e) - 1) : MayBecome(e[i], e[i + 1])
      BY <1>1, <1>2, <3>1 DEF Recorded, Replays, Last
    <3>4. /\ Len(e) \in Nat \ {0} /\ Len(e2) = Len(e) + 1 /\ e2[Len(e) + 1] = to
          /\ \A i \in 1..Len(e) : e2[i] = e[i]
      BY <3>2, <3>3
    <3>5. e2 # <<>> /\ Head(e2) = "draft" /\ Last(e2) = to
      BY <3>2, <3>3, <3>4 DEF Last
    <3>6. ASSUME NEW i \in 1..(Len(e2) - 1) PROVE MayBecome(e2[i], e2[i + 1])
      <4>1. CASE i = Len(e)
        BY <3>3, <3>4, <4>1
      <4>2. CASE i # Len(e)
        <5>1. i \in 1..(Len(e) - 1) /\ e2[i] = e[i] /\ e2[i + 1] = e[i + 1]
          BY <3>4, <4>2
        <5> QED BY <3>3, <5>1
      <4> QED BY <4>1, <4>2
    <3>7. ev2[y] = e2 /\ new[y].lifecycle = to
      BY <1>3, <2>2, <3>1, <3>2 DEF Logs
    <3> QED BY <1>2, <3>5, <3>6, <3>7 DEF Replays
  <2> QED BY <2>1, <2>2
<1> QED BY <1>1, <1>4, <1>5, <1>6 DEF Recorded

LEMMA RestIsRecorded ==
  ASSUME NEW table, NEW domain, IsTable(table, domain), NEW ev, Recorded(table, ev), NEW ev2,
         \A y \in domain : ev2[y] = ev[y]
  PROVE  Recorded(table, ev2)
BY DEF Recorded, IsTable

\* The four changes of the tables, whoever makes them.
LEMMA EntriesAreRecorded ==
  ASSUME TypeOK, EntriesInv, NEW w, NEW n, NEW rules, NEW s, NEW p, NEW to,
         \/ InsertSkill(w, n)
         \/ InsertPolicy(w, rules)
         \/ s \in Skills /\ ChangeSkill(w, s, to)
         \/ p \in Policies /\ ChangePolicy(w, p, to)
  PROVE  EntriesInv'
<1>1. /\ IsTable(skills, Skills) /\ IsTable(policies, Policies)
      /\ Recorded(skills, events) /\ Recorded(policies, events)
      /\ events \in [Skills \cup Policies -> Seq(Lifecycles)]
      /\ Skills \cap Policies = {}
  BY RecordedTells, TablesAssumption DEF TypeOK, EntriesInv
<1>2. ASSUME events' \in [Skills \cup Policies -> Seq(Lifecycles)],
             Recorded(skills', events'), Recorded(policies', events')
      PROVE  EntriesInv'
  BY <1>2 DEF EntriesInv, Recorded, Tells, Apart, Replays
<1>3. PICK sk, po, ev : sk = skills' /\ po = policies' /\ ev = events'
  OBVIOUS
<1>4. CASE InsertSkill(w, n)
  <2>1. PICK x \in Skills \ Existing(skills) :
          skills' = [skills EXCEPT ![x] = Draft(skills, w, n, {})] /\ events' = [events EXCEPT ![x] = <<"draft">>]
    BY <1>4 DEF InsertSkill
  <2>2. /\ ev[x] = <<"draft">> /\ \A y \in (Skills \cup Policies) \ {x} : ev[y] = events[y]
        /\ ev \in [Skills \cup Policies -> Seq(Lifecycles)]
    BY <1>1, <1>3, <2>1 DEF Lifecycles
  <2>3. Recorded(sk, ev)
    <3>1. sk = [skills EXCEPT ![x] = Draft(skills, w, n, {})]
      BY <1>3, <2>1
    <3>2. Logs(ev, events, Skills, x, <<"draft">>)
      BY <2>2 DEF Logs
    <3>3. x \in Skills \ Existing(skills)
      BY <2>1
    <3> QED BY <1>1, <2>1, <2>2, <3>1, <3>2, <3>3, DraftIsRecorded
  <2>4. Recorded(policies, ev) /\ policies' = policies
    BY <1>1, <1>4, <2>2, RestIsRecorded DEF InsertSkill
  <2> QED BY <1>2, <1>3, <2>2, <2>3, <2>4
<1>5. CASE InsertPolicy(w, rules)
  <2>1. PICK x \in Policies \ Existing(policies) :
          policies' = [policies EXCEPT ![x] = Draft(policies, w, {}, rules)] /\ events' = [events EXCEPT ![x] = <<"draft">>]
    BY <1>5 DEF InsertPolicy
  <2>2. /\ ev[x] = <<"draft">> /\ \A y \in (Skills \cup Policies) \ {x} : ev[y] = events[y]
        /\ ev \in [Skills \cup Policies -> Seq(Lifecycles)]
    BY <1>1, <1>3, <2>1 DEF Lifecycles
  <2>3. Recorded(po, ev)
    <3>1. po = [policies EXCEPT ![x] = Draft(policies, w, {}, rules)]
      BY <1>3, <2>1
    <3>2. Logs(ev, events, Policies, x, <<"draft">>)
      BY <2>2 DEF Logs
    <3>3. x \in Policies \ Existing(policies)
      BY <2>1
    <3> QED BY <1>1, <2>1, <2>2, <3>1, <3>2, <3>3, DraftIsRecorded
  <2>4. Recorded(skills, ev) /\ skills' = skills
    BY <1>1, <1>5, <2>2, RestIsRecorded DEF InsertPolicy
  <2> QED BY <1>2, <1>3, <2>2, <2>3, <2>4
<1>6. CASE s \in Skills /\ ChangeSkill(w, s, to)
  <2>1. /\ MayBecome(skills[s].lifecycle, to) /\ skills' = [skills EXCEPT ![s].lifecycle = to]
        /\ events' = [events EXCEPT ![s] = Append(@, to)] /\ policies' = policies
    BY <1>6 DEF ChangeSkill
  <2>2. /\ ev[s] = Append(events[s], to) /\ \A y \in (Skills \cup Policies) \ {s} : ev[y] = events[y]
        /\ ev \in [Skills \cup Policies -> Seq(Lifecycles)] /\ events[s] \in Seq(Lifecycles)
    <3>1. to \in Lifecycles /\ events[s] \in Seq(Lifecycles)
      BY <1>1, <1>6, <2>1 DEF MayBecome, Lifecycles
    <3>2. Append(events[s], to) \in Seq(Lifecycles)
      BY <3>1
    <3> QED BY <1>1, <1>6, <1>3, <2>1, <3>1, <3>2
  <2>3. Recorded(sk, ev)
    <3>1. sk = [skills EXCEPT ![s].lifecycle = to]
      BY <1>3, <2>1
    <3>2. Logs(ev, events, Skills, s, Append(events[s], to))
      BY <2>2 DEF Logs
    <3>3. s \in Skills
      BY <1>6
    <3> QED BY <1>1, <2>1, <2>2, <3>1, <3>2, <3>3, TransitionIsRecorded
  <2>4. Recorded(policies, ev)
    BY <1>1, <1>6, <2>2, RestIsRecorded
  <2> QED BY <1>2, <1>3, <2>1, <2>2, <2>3, <2>4
<1>7. CASE p \in Policies /\ ChangePolicy(w, p, to)
  <2>1. /\ MayBecome(policies[p].lifecycle, to) /\ policies' = [policies EXCEPT ![p].lifecycle = to]
        /\ events' = [events EXCEPT ![p] = Append(@, to)] /\ skills' = skills
    BY <1>7 DEF ChangePolicy
  <2>2. /\ ev[p] = Append(events[p], to) /\ \A y \in (Skills \cup Policies) \ {p} : ev[y] = events[y]
        /\ ev \in [Skills \cup Policies -> Seq(Lifecycles)] /\ events[p] \in Seq(Lifecycles)
    <3>1. to \in Lifecycles /\ events[p] \in Seq(Lifecycles)
      BY <1>1, <1>7, <2>1 DEF MayBecome, Lifecycles
    <3>2. Append(events[p], to) \in Seq(Lifecycles)
      BY <3>1
    <3> QED BY <1>1, <1>7, <1>3, <2>1, <3>1, <3>2
  <2>3. Recorded(po, ev)
    <3>1. po = [policies EXCEPT ![p].lifecycle = to]
      BY <1>3, <2>1
    <3>2. Logs(ev, events, Policies, p, Append(events[p], to))
      BY <2>2 DEF Logs
    <3>3. p \in Policies
      BY <1>7
    <3> QED BY <1>1, <2>1, <2>2, <3>1, <3>2, <3>3, TransitionIsRecorded
  <2>4. Recorded(skills, ev)
    BY <1>1, <1>7, <2>2, RestIsRecorded
  <2> QED BY <1>2, <1>3, <2>1, <2>2, <2>3, <2>4
<1> QED BY <1>4, <1>5, <1>6, <1>7

LEMMA NextEntriesInv ==
  ASSUME RequestsInv, EntriesInv, [Next]_vars
  PROVE  EntriesInv'
<1>1. CASE OtherClients
  <2>1. PICK w \in Workspaces, to \in {"active", "ended"} :
          \/ \E n \in Names : InsertSkill(w, n)
          \/ \E rules \in RuleSets : InsertPolicy(w, rules)
          \/ \E s \in Skills : ChangeSkill(w, s, to)
          \/ \E p \in Policies : ChangePolicy(w, p, to)
    BY <1>1 DEF OtherClients
  <2> QED BY <2>1, EntriesAreRecorded DEF RequestsInv
<1>2. ASSUME NEW r \in Requests, OperateChange(r)
      PROVE  EntriesInv'
  <2>1. PICK q : q = requests[r]
    OBVIOUS
  <2>2. PICK w \in Workspaces :
          \/ InsertSkill(w, q.arg) \/ InsertPolicy(w, q.arg)
          \/ q.operation = "transition_skill" /\ ChangeSkill(w, q.arg[1], q.arg[2])
          \/ q.operation = "transition_guardrail_policy" /\ ChangePolicy(w, q.arg[1], q.arg[2])
    BY <1>2, <2>1 DEF OperateChange, Operates
  <2>3. q.status = "running"
    BY <1>2, <2>1 DEF OperateChange
  <2>4. Asks(q)
    BY <2>1, <2>3, Running
  <2>5. /\ q.operation = "transition_skill" => q.arg[1] \in Skills
        /\ q.operation = "transition_guardrail_policy" => q.arg[1] \in Policies
    BY <2>4 DEF Asks
  <2> QED BY <2>2, <2>5, EntriesAreRecorded DEF RequestsInv
<1>3. CASE UNCHANGED <<skills, policies, events>>
  BY <1>3 DEF EntriesInv, Filled, Existing, Tells
<1>4. CASE CreateOrganization \/ Die
  BY <1>3, <1>4 DEF CreateOrganization, Die
<1>5. ASSUME NEW r \in Requests, NEW k \in Keys, Ask(r, k) \/ AskOrganization(r, k) \/ AskApiKey(r, k)
      PROVE  EntriesInv'
  <2>1. \E h, scope, arg : Begin(r, k, h, scope, arg)
    <3>1. CASE Ask(r, k)
      BY <3>1 DEF Ask
    <3>2. CASE AskOrganization(r, k)
      BY <3>2 DEF AskOrganization
    <3>3. CASE AskApiKey(r, k)
      BY <3>3 DEF AskApiKey
    <3> QED BY <1>5, <3>1, <3>2, <3>3
  <2> QED BY <1>3, <2>1 DEF Begin
<1>6. ASSUME NEW r \in Requests,
             \/ Evaluate(r) \/ Record(r) \/ Enforce(r) \/ Audit(r) \/ OperateAndAudit(r) \/ Fails(r)
             \/ OperateContent(r) \/ IssueApiKey(r) \/ OperateListSkills(r) \/ OperateGetSkill(r)
      PROVE  EntriesInv'
  BY <1>3, <1>6 DEF Evaluate, Record, Enforce, Audit, OperateAndAudit, Fails, OperateContent, IssueApiKey,
         OperateListSkills, OperateGetSkill
<1>7. CASE UNCHANGED vars
  BY <1>3, <1>7 DEF vars
<1> QED BY <1>1, <1>2, <1>4, <1>5, <1>6, <1>7 DEF Next

\* create_skill and create_guardrail_policy number the versions of a name
\* without repetition, and the outbox replays the life of every entry.
THEOREM GovernanceInvariance == Spec => []GovernanceInv
<1>1. Init => EntriesInv
  <2> SUFFICES ASSUME Init PROVE EntriesInv
    OBVIOUS
  <2>1. events \in [Skills \cup Policies -> Seq(Lifecycles)]
    BY DEF Init
  <2>2. Existing(skills) = {} /\ Existing(policies) = {}
    BY DEF Init, Existing
  <2>3. NoEntry.version = 0 /\ NoEntry.lifecycle = "none"
    BY DEF NoEntry
  <2>4. Filled(skills) /\ Filled(policies)
    <3>1. /\ DOMAIN skills = Skills /\ \A x \in Skills : skills[x] = NoEntry
          /\ DOMAIN policies = Policies /\ \A x \in Policies : policies[x] = NoEntry
      BY DEF Init
    <3> QED BY <2>2, <2>3, <3>1, FS_EmptySet DEF Filled
  <2>5. Tells(skills) /\ Tells(policies)
    BY <2>3 DEF Init, Tells
  <2> QED BY <2>1, <2>4, <2>5 DEF EntriesInv
<1>2. RequestsInv /\ EntriesInv /\ [Next]_vars => EntriesInv'
  BY NextEntriesInv
<1>3. Spec => []EntriesInv
  BY <1>1, <1>2, RequestsInvariance, PTL DEF Spec
<1> QED BY <1>3, RequestsInvariance, PTL DEF GovernanceInv
=============================================================================
