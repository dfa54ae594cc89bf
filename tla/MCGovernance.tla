----------------------------- MODULE MCGovernance -----------------------------
\* Values of Governance's constants for TLC: an organization of two workspaces,
\* two versions of one skill, a policy that allows one reading of memories
\* and denies it, and denies the skills; one request is followed.
EXTENDS Governance, TLC

CONSTANTS w1, w2, k1, k2, s1, s2, p1, q1

OneOrganization == {{w1, w2}}
TwoKeys == {k1, k2}
TwoSkills == {s1, s2}

Rule(effect, action, roles, targets) ==
  [effect |-> effect, action |-> action, roles |-> roles, targets |-> targets]
MemoryRules ==
  {Rule("allow", "memory_read", {}, {}), Rule("deny", "memory_read", {"writer"}, {"memory", "memories"})}
SkillRules == {Rule("deny", "skill_read", {}, {"*"}), Rule("deny", "skill_use", {"writer"}, {"deploy"})}
AllRules == {MemoryRules \cup SkillRules}

Interchangeable ==
  Permutations({w1, w2}) \cup Permutations(TwoKeys) \cup Permutations(TwoSkills)
=============================================================================
