CONSTANTS
  root = root  root2 = root2  top = top  top2 = top2  a = a  a2 = a2  b = b  b2 = b2  g = g  g2 = g2
  con = con  con2 = con2  l = l  ROOT = ROOT  TOP = TOP  A = A  B = B  v1 = v1  v2 = v2  Nil = Nil
  Feature = {root, root2, top, top2, a, a2, b, b2}
  RootFeature = {root, root2, top, top2}
  Relationship = {g, g2}
  Constraint = {con, con2}
  Name = {ROOT, TOP, A, B}
  NameOf <- MCNameOf
  Mentions <- MCMentions
  Location = {l}
  Text = {v1, v2}
  Twin <- MCTwin
  UnknownFeature = {}
  Menu <- CopyMenu
  EditMenu <- OriginalMenu
  MaxLocations = 1
  InitialModels <- MCInitialModels
SPECIFICATION CopySpec
INVARIANTS
  CopyFollowsTheModel NothingIsShared OnlyTreesAreHandedOut CallsAreDefined
