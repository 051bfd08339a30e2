CONSTANTS
  root = root  a = a  b = b  e = e  grp = grp  t = t
  ROOT = ROOT  A = A  B = B  E = E  UNKNOWN = UNKNOWN  v1 = v1  Nil = Nil
  Feature = {root, a, b, e}
  RootFeature = {root}
  Relationship = {grp}
  Constraint = {}
  Name = {ROOT, A, B, E, UNKNOWN}
  NameOf <- MCNameOf
  Mentions <- MCMentions
  Location = {}
  Text = {v1}
  Transaction = {t}
  Trans = t
  Menu <- MCMenu
  InitialModels <- MCInitialModels
  MaxQueue = 7
  MaxLocations = 1
  Lists <- MCLists
SPECIFICATION RemoveSpec
INVARIANTS
  RemovesWhatItCan OnlySubtreesGo
CHECK_DEADLOCK FALSE
