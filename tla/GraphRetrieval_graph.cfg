SPECIFICATION Spec
CONSTANTS
  w1 = w1
  w2 = w2
  t1 = t1
  t2 = t2
  t3 = t3
  t4 = t4
  c1 = c1
  c2 = c2
  c3 = c3
  NoWorkspace = NoWorkspace
  Workspaces <- TwoWorkspaces
  Terms <- FourTerms
  Chunks <- ThreeChunks
  MaxTerms = 2
  MaxHops = 3
  MaxEdges = 4
  MaxLimit = 2
SYMMETRY Interchangeable
INVARIANTS
  RetrievalInv
  AnswersAreNearest
