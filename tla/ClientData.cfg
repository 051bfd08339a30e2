CONSTANTS
  root = root  root2 = root2  root3 = root3  a = a  b = b  b2 = b2  g = g  h = h
  con = con  l = l  t1 = t1  t2 = t2
  ROOT = ROOT  TOP = TOP  A = A  B = B  C = C  v1 = v1  v2 = v2  Nil = Nil
  Feature = {root, root2, root3, a, b, b2}
  RootFeature = {root, root2, root3}
  Relationship = {g, h}
  Constraint = {con}
  Name = {ROOT, TOP, A, B, C}
  NameOf <- MCNameOf
  Mentions <- MCMentions
  Location = {l}
  Text = {v1, v2}
  Transaction = {t1}
  Menu <- DataMenu
  InitialModels <- MCJustRoot
  MaxQueue = 2
  MaxLocations = 1
SPECIFICATION ClientSpec
INVARIANTS
  NamesAlwaysIdentify
PROPERTIES
  ConstraintsStayBound
