SPECIFICATION Spec
CONSTANTS
  w1 = w1
  w2 = w2
  k1 = k1
  k2 = k2
  s1 = s1
  s2 = s2
  p1 = p1
  q1 = q1
  Organizations <- OneOrganization
  Keys <- TwoKeys
  Skills <- TwoSkills
  Policies = {p1}
  Names = {"deploy"}
  RuleSets <- AllRules
  Issuable = {"writer"}
  Requests = {q1}
SYMMETRY Interchangeable
INVARIANTS
  GovernanceInv
  AnsweredIsAudited
  DenialsTakeEffect
  WithdrawnSkillsStayHidden
