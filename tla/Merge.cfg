CONSTANTS
  root = root  root2 = root2  a = a  a2 = a2  b = b  b2 = b2  grp = grp  grp2 = grp2  l = l  k = k
  q = q  q2 = q2  t = t  t2 = t2  s = s  s2 = s2  ca = ca  ca2 = ca2  la = la  la2 = la2  d = d  d2 = d2
  e = e  e2 = e2  u = u  u2 = u2  h = h  h2 = h2
  ROOT = ROOT  TOP = TOP  A = A  LA = LA  B = B  C = C
  mandatory = mandatory  optional = optional  v1 = v1  Nil = Nil
  Feature = {root, root2, a, a2, b, b2, q, q2, t, t2, s, s2, ca, ca2, la, la2, d, d2, e, e2, u, u2}
  RootFeature = {root, root2, q, q2, t, t2, s, s2}
  Relationship = {grp, grp2, h, h2}
  Constraint = {}
  Name = {ROOT, TOP, A, LA, B, C}
  NameOf <- MCNameOf
  Mentions <- MCMentions
  Location = {l, k}
  Text = {v1}
  Twin <- MCTwin
  MaxLocations = 1
  Menu <- NoMenu
  EditMenu <- OriginalMenu
  InitialModels <- MCInitialModels
  Others <- MCOthers
  UnknownFeature = {u, u2}
  PropertiesOf <- MCPropertiesOf
  LowerCase <- MCLowerCase
SPECIFICATION MergeSpec
PROPERTIES
  MergeIsTheUnion MergeRefusesConflicts MergingThrowsOnlyForAnotherRoot
