------------------------------ MODULE Governance ------------------------------
(***************************************************************************)
(* API keys, skills, guardrail policies, and the handlers around them.     *)
(*                                                                         *)
(* A handler of main.rs or grpc.rs is a row of a table: the role it needs, *)
(* the guardrail it asks, the operation of the store it calls and the      *)
(* order in which it takes the mutex.  Between two acquisitions any other  *)
(* request may run, an acquisition may fail, and the process may die.      *)
(*                                                                         *)
(* The authority of a key is the set of workspaces it covers: one, or all  *)
(* of an organization.  Keys are never changed, so a request authenticates *)
(* in the step that begins it.  What operations on memories, documents and *)
(* sessions do is in the other modules; here they are "content".           *)
(***************************************************************************)
EXTENDS Integers, FiniteSetsExt, SequencesExt

CONSTANTS
  Organizations,   \* each the set of its workspaces
  Keys, Skills, Policies,
  Names,           \* names of skills
  RuleSets,        \* the rules a policy may be created with
  Issuable,        \* the roles of the keys that owners issue
  Requests         \* the requests that are followed

ASSUME TablesAssumption == Skills \cap Policies = {} /\ Issuable \subseteq {"owner", "writer", "reader"}
ASSUME RulesAssumption == \A rules \in RuleSets : \A rule \in rules : rule.action # "none"

Workspaces == UNION Organizations
Scopes == Organizations \cup {{w} : w \in Workspaces}
Roles == {"owner", "writer", "reader"}
Lifecycles == {"none", "draft", "active", "ended"}

VARIABLES
  keys,       \* API_KEYS
  skills,     \* AGENT_SKILLS; active is published, ended is revoked
  policies,   \* GUARDRAIL_POLICIES; active is enforced, ended is retired
  events,     \* outbox: the lifecycles announced of a skill or policy
  requests    \* the requests that are followed, and their answers

vars == <<keys, skills, policies, events, requests>>

NoKey == [issued |-> FALSE, role |-> "reader", scope |-> {}, issuer |-> {}]
NoEntry == [lifecycle |-> "none", workspace |-> {}, name |-> {}, version |-> 0, rules |-> {}]
Free == [status |-> "free"]

Init ==
  /\ keys = [k \in Keys |-> NoKey]
  /\ skills = [s \in Skills |-> NoEntry]
  /\ policies = [p \in Policies |-> NoEntry]
  /\ events = [x \in Skills \cup Policies |-> <<>>]
  /\ requests = [r \in Requests |-> Free]

-----------------------------------------------------------------------------
\* The orders in which handlers take the mutex after authorize.  "evaluate"
\* and "record" are the two acquisitions of enforce_guardrail over HTTP, and
\* "enforce" the one of gRPC.
Plain == <<"operate", "audit">>
HttpGuarded == <<"evaluate", "record", "operate", "audit">>
Announced == <<"audit", "operate", "audit">>

Bug_Unaudited == <<"enforce", "operate">>

GrpcGuarded == <<"enforce", "operate", "audit">>

Handler(role, operation, steps) ==
  [role |-> role, operation |-> operation, action |-> "none", target |-> "none", steps |-> steps]
Guarded(role, operation, action, target, steps) ==
  [role |-> role, operation |-> operation, action |-> action, target |-> target, steps |-> steps]

\* main.rs
GetWorkspaceUsage == Handler("owner", "content", Plain)
ExportWorkspace == Guarded("owner", "content", "export", "workspace-export", HttpGuarded)
CreateMemory == Handler("writer", "content", Plain)
WriteSession == Handler("writer", "content", Plain)
GetWorkingSession == Guarded("reader", "content", "memory_read", "working-session", HttpGuarded)
TransitionMemory == Handler("owner", "content", Plain)
IngestDocument == Handler("writer", "content", Plain)
ReadDocument == Handler("reader", "content", Plain)
RetryIngestionJob == Handler("owner", "content", Plain)
RetrieveDocumentChunks == Guarded("reader", "content", "context_read", "documents", HttpGuarded)
RebuildVectorWorkspace == Handler("owner", "content", Announced)
RebuildTextWorkspace == Handler("owner", "content", Announced)
RebuildGraphWorkspace == Handler("owner", "content", Announced)
RetrieveGraph == Guarded("reader", "content", "context_read", "graph", HttpGuarded)
GetMemory == Guarded("reader", "content", "memory_read", "memory", HttpGuarded)
Retrieve == Guarded("reader", "content", "memory_read", "memory", HttpGuarded)
CreateMemoryShare == Guarded("writer", "content", "memory_share", "memory-share", HttpGuarded)
ReviewMemoryShare == Guarded("owner", "content", "memory_share", "memory-share", HttpGuarded)
ListMemoryShares == Handler("owner", "content", Plain)
CompileContextPackage == Guarded("reader", "content", "context_read", "context-package", HttpGuarded)
PutBlob == Handler("writer", "content", Plain)
ListOutboxEvents == Handler("owner", "content", Plain)
ListGuardrailPolicies == Handler("owner", "content", Plain)
CreateSkill == Handler("writer", "create_skill", Plain)
TransitionSkill == Handler("owner", "transition_skill", Plain)
ListSkills == Guarded("reader", "list_published_skills", "skill_read", "catalog", HttpGuarded)
GetSkill(s) == Guarded("reader", "get_published_skill", "skill_read", s, HttpGuarded)
CreateGuardrailPolicy == Handler("writer", "create_guardrail_policy", Plain)
TransitionGuardrailPolicy == Handler("owner", "transition_guardrail_policy", Plain)
EvaluateGuardrail(action, target) ==
  Guarded("reader", "none", action, target, <<"evaluate", "record">>)
CreateApiKey == Handler("owner", "issue_api_key", Plain)

\* The skill is read before the guardrail is asked about its name.
AuthorizeSkillUse(name) ==
  Guarded("reader", "get_published_skill", "skill_use", name, <<"operate", "evaluate", "record", "audit">>)

\* grpc.rs
GrpcCreateMemory == Handler("writer", "content", <<"operate+audit">>)
GrpcGetMemory == Guarded("reader", "content", "memory_read", "memory", GrpcGuarded)
GrpcRetrieveMemories == Guarded("reader", "content", "memory_read", "memories", GrpcGuarded)
GrpcRetrieveDocuments == Guarded("reader", "content", "context_read", "documents", GrpcGuarded)
GrpcCompileContextPackage == Guarded("reader", "content", "context_read", "context-package", GrpcGuarded)
GrpcWriteSession == Handler("writer", "content", Plain)
GrpcGetWorkingSession == Guarded("reader", "content", "memory_read", "working-session", GrpcGuarded)

ContentHandlers ==
  {GetWorkspaceUsage, ExportWorkspace, CreateMemory, WriteSession, GetWorkingSession, TransitionMemory,
   IngestDocument, ReadDocument, RetryIngestionJob,
   RetrieveDocumentChunks, RebuildVectorWorkspace, RebuildTextWorkspace, RebuildGraphWorkspace,
   RetrieveGraph, GetMemory, Retrieve, CreateMemoryShare, ReviewMemoryShare, ListMemoryShares,
   CompileContextPackage, PutBlob, ListOutboxEvents, ListGuardrailPolicies,
   GrpcCreateMemory, GrpcGetMemory, GrpcRetrieveMemories, GrpcRetrieveDocuments,
   GrpcCompileContextPackage, GrpcWriteSession, GrpcGetWorkingSession}

-----------------------------------------------------------------------------

\* Role::allows
Allows(role, required) ==
  \/ role = "owner"
  \/ role = "writer" /\ required # "owner"
  \/ required = "reader"

\* authorize, for a request that names a workspace or a whole organization.
Authorizes(k, role, scope) ==
  /\ keys[k].issued
  /\ scope \subseteq keys[k].scope
  /\ Allows(keys[k].role, role)

\* evaluate_guardrail: the rules that concern a request.
Matches(rule, role, action, target) ==
  /\ rule.action = action
  /\ rule.roles = {} \/ role \in rule.roles
  /\ rule.targets = {} \/ "*" \in rule.targets \/ target \in rule.targets

Concerning(role, handler) ==
  {rule \in UNION RuleSets : Matches(rule, role, handler.action, handler.target)}

EnforcedPolicies(scope) ==
  {p \in Policies : policies[p].lifecycle = "active" /\ {policies[p].workspace} = scope}

Denies(p, rules) == \E rule \in policies[p].rules \cap rules : rule.effect = "deny"

Bug_AllowsOverride(q) ==
  (\E p \in EnforcedPolicies(q.scope) : Denies(p, q.rules))
  /\ ~\E p \in EnforcedPolicies(q.scope), rule \in q.rules : rule \in policies[p].rules /\ rule.effect = "allow"

\* A deny of any enforced policy of the workspace overrides every allow.
Denied(q) == \E p \in EnforcedPolicies(q.scope) : Denies(p, q.rules)

-----------------------------------------------------------------------------
\* The skills an answer may show.
Sought(handler, arg) ==
  IF handler.operation \in {"list_published_skills", "get_published_skill"} THEN arg ELSE {}

\* A request is authorized and begins.  What it was up against is history.
Begin(r, k, handler, scope, arg) ==
  LET rules == Concerning(keys[k].role, handler) IN
  /\ requests[r].status # "running"
  /\ Authorizes(k, handler.role, scope)
  /\ requests' = [requests EXCEPT ![r] =
       [status |-> "running", operation |-> handler.operation, steps |-> handler.steps,
        scope |-> scope, arg |-> arg, rules |-> rules, guarded |-> handler.action # "none",
        allowed |-> TRUE, shown |-> {}, audited |-> {},
        denying |-> {p \in EnforcedPolicies(scope) : Denies(p, rules)},
        withdrawn |-> {s \in Sought(handler, arg) : skills[s].lifecycle = "ended"}]]
  /\ UNCHANGED <<keys, skills, policies, events>>

Existing(table) == {x \in DOMAIN table : table[x] # NoEntry}

\* The requests that clients make, about entries that they have seen.
Ask(r, k) ==
  \E w \in Workspaces :
    \/ \E h \in ContentHandlers : Begin(r, k, h, {w}, "none")
    \/ \E n \in Names : Begin(r, k, CreateSkill, {w}, n)
    \/ \E s \in Existing(skills), to \in {"active", "ended"} : Begin(r, k, TransitionSkill, {w}, <<s, to>>)
    \/ Begin(r, k, ListSkills, {w}, Skills)
    \/ \E s \in Existing(skills) : Begin(r, k, GetSkill(s), {w}, {s})
    \/ \E s \in Existing(skills) : Begin(r, k, AuthorizeSkillUse(skills[s].name), {w}, {s})
    \/ \E rules \in RuleSets : Begin(r, k, CreateGuardrailPolicy, {w}, rules)
    \/ \E p \in Existing(policies), to \in {"active", "ended"} : Begin(r, k, TransitionGuardrailPolicy, {w}, <<p, to>>)
    \/ \E rule \in UNION RuleSets :
         \E target \in rule.targets : Begin(r, k, EvaluateGuardrail(rule.action, target), {w}, "none")

\* GET /v1/outbox/events of a whole organization.
AskOrganization(r, k) == \E o \in Organizations : Begin(r, k, ListOutboxEvents, o, "none")

\* create_api_key: an owner of one workspace may not issue keys beyond it.
MayIssue(k, scope) == keys[k].scope \in Organizations \/ scope = keys[k].scope

AskApiKey(r, k) ==
  \E scope \in Scopes, role \in Issuable :
    /\ MayIssue(k, scope)
    /\ Begin(r, k, CreateApiKey, scope, [issued |-> TRUE, role |-> role, scope |-> scope, issuer |-> {k}])

-----------------------------------------------------------------------------
At(r, step) == requests[r].status = "running" /\ Head(requests[r].steps) = step

\* What a request asked for is forgotten with its last step.
Advanced(q) ==
  IF Len(q.steps) = 1
  THEN [q EXCEPT !.steps = <<>>, !.status = "answered", !.arg = "none", !.rules = {}]
  ELSE [q EXCEPT !.steps = Tail(@)]

Proceed(r, q) == requests' = [requests EXCEPT ![r] = Advanced(q)]
Refuse(r) == requests' = [requests EXCEPT ![r] = Free]

Evaluate(r) ==
  /\ At(r, "evaluate")
  /\ Proceed(r, [requests[r] EXCEPT !.allowed = ~Denied(requests[r])])
  /\ UNCHANGED <<keys, skills, policies, events>>

\* The decision is audited either way, and a denial ends the request.
Record(r) ==
  /\ At(r, "record")
  /\ IF requests[r].allowed
     THEN Proceed(r, [requests[r] EXCEPT !.audited = @ \cup {"decision"}])
     ELSE Refuse(r)
  /\ UNCHANGED <<keys, skills, policies, events>>

Enforce(r) ==
  /\ At(r, "enforce")
  /\ IF ~Denied(requests[r])
     THEN Proceed(r, [requests[r] EXCEPT !.audited = @ \cup {"decision"}])
     ELSE Refuse(r)
  /\ UNCHANGED <<keys, skills, policies, events>>

Audit(r) ==
  /\ At(r, "audit")
  /\ Proceed(r, [requests[r] EXCEPT !.audited = @ \cup {"operation"}])
  /\ UNCHANGED <<keys, skills, policies, events>>

OperateAndAudit(r) ==
  /\ At(r, "operate+audit")
  /\ Proceed(r, [requests[r] EXCEPT !.audited = @ \cup {"operation"}])
  /\ UNCHANGED <<keys, skills, policies, events>>

\* An error of the store or of the audit log, or a record that is not there.
Fails(r) ==
  /\ requests[r].status = "running"
  /\ Refuse(r)
  /\ UNCHANGED <<keys, skills, policies, events>>

Die ==
  /\ requests' = [r \in Requests |-> Free]
  /\ UNCHANGED <<keys, skills, policies, events>>

-----------------------------------------------------------------------------
Versions(table, w, n) ==
  {table[x].version : x \in {y \in Existing(table) : table[y].workspace = w /\ table[y].name = n}}

Bug_CountsActive(table, w, n) ==
  1 + Cardinality({x \in Existing(table) :
        table[x].lifecycle = "active" /\ table[x].workspace = w /\ table[x].name = n})

\* One more than the newest version of the name, whatever became of it.
NextVersion(table, w, n) == Max(Versions(table, w, n) \cup {0}) + 1

Draft(table, w, n, rules) ==
  [lifecycle |-> "draft", workspace |-> w, name |-> n, version |-> NextVersion(table, w, n), rules |-> rules]

\* draft to published or enforced, and either to revoked or retired.
MayBecome(from, to) ==
  \/ from = "draft" /\ to = "active"
  \/ from \in {"draft", "active"} /\ to = "ended"

\* A change and its outbox event are of one transaction.
InsertSkill(w, n) ==
  /\ \E s \in Skills \ Existing(skills) :
       /\ skills' = [skills EXCEPT ![s] = Draft(skills, w, n, {})]
       /\ events' = [events EXCEPT ![s] = <<"draft">>]
  /\ UNCHANGED <<keys, policies>>

InsertPolicy(w, rules) ==
  /\ \E p \in Policies \ Existing(policies) :
       /\ policies' = [policies EXCEPT ![p] = Draft(policies, w, {}, rules)]
       /\ events' = [events EXCEPT ![p] = <<"draft">>]
  /\ UNCHANGED <<keys, skills>>

ChangeSkill(w, s, to) ==
  /\ skills[s].workspace = w /\ MayBecome(skills[s].lifecycle, to)
  /\ skills' = [skills EXCEPT ![s].lifecycle = to]
  /\ events' = [events EXCEPT ![s] = Append(@, to)]
  /\ UNCHANGED <<keys, policies>>

ChangePolicy(w, p, to) ==
  /\ policies[p].workspace = w /\ MayBecome(policies[p].lifecycle, to)
  /\ policies' = [policies EXCEPT ![p].lifecycle = to]
  /\ events' = [events EXCEPT ![p] = Append(@, to)]
  /\ UNCHANGED <<keys, skills>>

\* Requests meet in the tables alone: what the clients that are not followed
\* change there, they change in one acquisition.
OtherClients ==
  /\ \E w \in Workspaces, to \in {"active", "ended"} :
       \/ \E n \in Names : InsertSkill(w, n)
       \/ \E rules \in RuleSets : InsertPolicy(w, rules)
       \/ \E s \in Skills : ChangeSkill(w, s, to)
       \/ \E p \in Policies : ChangePolicy(w, p, to)
  /\ UNCHANGED requests

\* create_organization: the bootstrap token makes an owner of everything in
\* an organization; its audit event may fail to be written.
CreateOrganization ==
  /\ \E o \in Organizations, k \in Keys :
       /\ ~keys[k].issued
       /\ keys' = [keys EXCEPT ![k] = [issued |-> TRUE, role |-> "owner", scope |-> o, issuer |-> {}]]
  /\ UNCHANGED <<skills, policies, events, requests>>

-----------------------------------------------------------------------------
Operates(r, operation) == At(r, "operate") /\ requests[r].operation = operation

OperateContent(r) ==
  /\ Operates(r, "content")
  /\ Proceed(r, requests[r])
  /\ UNCHANGED <<keys, skills, policies, events>>

IssueApiKey(r) ==
  /\ Operates(r, "issue_api_key")
  /\ \E k \in Keys : ~keys[k].issued /\ keys' = [keys EXCEPT ![k] = requests[r].arg]
  /\ Proceed(r, requests[r])
  /\ UNCHANGED <<skills, policies, events>>

\* The changes a request makes in its workspace.
OperateChange(r) ==
  /\ \E w \in Workspaces :
       /\ requests[r].status = "running" /\ requests[r].scope = {w}
       /\ \/ Operates(r, "create_skill") /\ InsertSkill(w, requests[r].arg)
          \/ Operates(r, "create_guardrail_policy") /\ InsertPolicy(w, requests[r].arg)
          \/ Operates(r, "transition_skill") /\ ChangeSkill(w, requests[r].arg[1], requests[r].arg[2])
          \/ Operates(r, "transition_guardrail_policy") /\ ChangePolicy(w, requests[r].arg[1], requests[r].arg[2])
  /\ Proceed(r, requests[r])

Bug_Revoked(s) == skills[s].lifecycle \in {"active", "ended"}

Published(s) == skills[s].lifecycle = "active"

PublishedIn(set, scope) == {s \in set : Published(s) /\ {skills[s].workspace} = scope}

\* list_published_skills
OperateListSkills(r) ==
  /\ Operates(r, "list_published_skills")
  /\ Proceed(r, [requests[r] EXCEPT !.shown = PublishedIn(requests[r].arg, requests[r].scope)])
  /\ UNCHANGED <<keys, skills, policies, events>>

\* get_published_skill, of get_skill and authorize_skill_use.
OperateGetSkill(r) ==
  /\ Operates(r, "get_published_skill")
  /\ PublishedIn(requests[r].arg, requests[r].scope) # {}
  /\ Proceed(r, [requests[r] EXCEPT !.shown = PublishedIn(requests[r].arg, requests[r].scope)])
  /\ UNCHANGED <<keys, skills, policies, events>>

Next ==
  \/ CreateOrganization
  \/ OtherClients
  \/ Die
  \/ \E r \in Requests, k \in Keys : Ask(r, k) \/ AskOrganization(r, k) \/ AskApiKey(r, k)
  \/ \E r \in Requests :
       \/ Evaluate(r) \/ Record(r) \/ Enforce(r) \/ Audit(r) \/ OperateAndAudit(r) \/ Fails(r)
       \/ OperateContent(r) \/ IssueApiKey(r) \/ OperateChange(r)
       \/ OperateListSkills(r) \/ OperateGetSkill(r)

Spec == Init /\ [][Next]_vars

-----------------------------------------------------------------------------
Key == [issued : BOOLEAN, role : Roles, scope : Scopes \cup {{}}, issuer : SUBSET Keys]

Fields == {"status", "operation", "steps", "scope", "arg", "rules", "guarded",
           "allowed", "shown", "audited", "denying", "withdrawn"}

IsTable(table, domain) ==
  /\ DOMAIN table = domain
  /\ \A x \in domain : DOMAIN table[x] = DOMAIN NoEntry /\ table[x].lifecycle \in Lifecycles

TypeOK ==
  /\ keys \in [Keys -> Key]
  /\ IsTable(skills, Skills)
  /\ IsTable(policies, Policies)
  /\ DOMAIN requests = Requests
  /\ \A r \in Requests :
       /\ requests[r].status \in {"free", "running", "answered"}
       /\ requests[r].status # "free" => DOMAIN requests[r] = Fields

\* Versions tell the entries of a name apart, so a version never means two
\* contents, and the outbox replays the life of every entry.
Tells(table) ==
  /\ \A x, y \in DOMAIN table :
       /\ x # y /\ table[x].lifecycle # "none" /\ table[y].lifecycle # "none"
       /\ table[x].workspace = table[y].workspace /\ table[x].name = table[y].name
       => table[x].version # table[y].version
  /\ \A x \in DOMAIN table :
       IF table[x].lifecycle = "none" THEN events[x] = <<>>
       ELSE /\ events[x] # <<>>
            /\ Head(events[x]) = "draft" /\ Last(events[x]) = table[x].lifecycle
            /\ \A i \in 1..(Len(events[x]) - 1) : MayBecome(events[x][i], events[x][i + 1])

\* No sequence of issued keys gains a workspace or a role: every key is within
\* the authority of an owner, up to the keys of the bootstrap.
WithinAuthority(key) ==
  \/ key.issuer = {} /\ key.scope \in Organizations
  \/ \E i \in key.issuer :
       keys[i].issued /\ keys[i].role = "owner" /\ key.scope \subseteq keys[i].scope

AuthorityIsDelegated == \A k \in Keys : keys[k].issued => WithinAuthority(keys[k])

Answered(r) == requests[r].status = "answered"

\* "Permitted and denied decisions are audited" and so are the operations: an
\* answer that a client receives has left both events behind, through every
\* order of acquisitions and every failure between them.
AnsweredIsAudited ==
  \A r \in Requests : Answered(r) =>
    /\ requests[r].guarded => "decision" \in requests[r].audited
    /\ requests[r].operation # "none" => "operation" \in requests[r].audited

\* "A matching deny overrides an allow": a request that a policy denied when
\* it began is not answered while that policy is enforced, whatever changed in
\* between.  (A policy enforced after the decision does not stop the request.)
DenialsTakeEffect ==
  \A r \in Requests : Answered(r) =>
    \A p \in requests[r].denying : policies[p].lifecycle # "active"

\* "Readers receive published skills only": an answer never shows a draft, a
\* skill of another workspace, or one that was revoked before the request
\* began, although a skill is read and shown under different acquisitions.
WithdrawnSkillsStayHidden ==
  \A r \in Requests : Answered(r) =>
    /\ requests[r].shown \cap requests[r].withdrawn = {}
    /\ \A s \in requests[r].shown :
         skills[s].lifecycle \in {"active", "ended"} /\ {skills[s].workspace} = requests[r].scope

-----------------------------------------------------------------------------
\* What the proofs add: how far along its handler's order a request is, and
\* what it has made sure of by then.
Undecided == {HttpGuarded, <<"evaluate", "record">>, <<"operate", "evaluate", "record", "audit">>,
              <<"evaluate", "record", "audit">>, GrpcGuarded}
Evaluated == {<<"record", "operate", "audit">>, <<"record", "audit">>, <<"record">>}
Decided == {Plain, Announced, <<"operate+audit">>, <<"audit">>}
DecisionOnly == {<<"evaluate", "record">>, <<"record">>}

\* None of the policies that denied the request when it began is enforced.
Passed(q) == \A p \in q.denying : policies[p].lifecycle # "active"

InOrder(q, steps) ==
  /\ q.guarded => \/ steps \in Undecided
                  \/ steps \in Evaluated /\ (q.allowed => Passed(q))
                  \/ steps \in Decided /\ "decision" \in q.audited /\ Passed(q)
  /\ ~q.guarded => steps \in Decided /\ q.denying = {}
  /\ q.operation # "none" => steps \notin DecisionOnly

Settled(q) ==
  /\ q.guarded => "decision" \in q.audited
  /\ q.operation # "none" => "operation" \in q.audited
  /\ Passed(q)

\* What a request has seen is still so: skills it shows are not drafts again,
\* withdrawn ones stay withdrawn, and policies keep their rules.
SeenStays(q) ==
  /\ q.shown \cap q.withdrawn = {}
  /\ \A s \in q.withdrawn : s \in Skills /\ skills[s].lifecycle = "ended"
  /\ \A s \in q.shown :
       s \in Skills /\ skills[s].lifecycle \in {"active", "ended"} /\ {skills[s].workspace} = q.scope
  /\ \A p \in q.denying : p \in Policies /\ policies[p].lifecycle \in {"active", "ended"}

\* A running request asks for what it was authorized for.
Asks(q) ==
  /\ q.operation = "issue_api_key" => q.arg \in Key /\ WithinAuthority(q.arg)
  /\ q.operation \in {"list_published_skills", "get_published_skill"} => q.arg \subseteq Skills
  /\ q.operation = "transition_skill" => q.arg[1] \in Skills
  /\ q.operation = "transition_guardrail_policy" => q.arg[1] \in Policies
  /\ \A p \in q.denying : {policies[p].workspace} = q.scope /\ Denies(p, q.rules)

Holds(q) ==
  /\ DOMAIN q = Fields
  /\ SeenStays(q)
  /\ \/ q.status = "running" /\ Asks(q) /\ InOrder(q, q.steps)
     \/ q.status = "answered" /\ Settled(q)

\* The inductive invariants of module GovernanceProofs: of the requests, ...
RequestsInv ==
  /\ TypeOK
  /\ AuthorityIsDelegated
  /\ \A r \in Requests : requests[r].status # "free" => Holds(requests[r])

\* ... and of the entries: there are finitely many, so a newest version exists.
Filled(table) ==
  /\ IsFiniteSet(Existing(table))
  /\ \A x \in DOMAIN table :
       table[x].version \in Nat /\ (table[x].lifecycle = "none" => table[x] = NoEntry)

EntriesInv ==
  /\ events \in [Skills \cup Policies -> Seq(Lifecycles)]
  /\ Filled(skills) /\ Filled(policies)
  /\ Tells(skills) /\ Tells(policies)

GovernanceInv == RequestsInv /\ EntriesInv
=============================================================================
