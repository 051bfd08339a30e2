CONSTANTS
  root = root  top = top  a = a  b = b  g = g  con = con
  otop = otop  oa = oa  ob = ob  og = og  ocon = ocon  l = l
  fb = fb  mb = mb  rb = rb
  ROOT = ROOT  TOP = TOP  A = A  B = B  v1 = v1  v2 = v2  Nil = Nil
  Feature = {root, top, a, b, otop, oa, ob}
  RootFeature = {root, top, otop}
  Relationship = {g, og}
  Constraint = {con, ocon}
  Name = {ROOT, TOP, A, B}
  NameOf <- MCNameOf
  Mentions <- MCMentions
  Location = {l}
  Text = {v1, v2}
  Transaction = {fb, mb, rb}
  FeatureBuilder = fb
  ModelBuilder = mb
  RelationBuilder = rb
  Originals <- MCOriginals
  Twin <- MCTwin
  Menu <- BuilderMenu
  InitialModels <- MCJustRoot
  MaxQueue = 3
  MaxLocations = 1
SPECIFICATION BuilderSpec
INVARIANTS
  BuiltAsAsked BuildsWhatIsConsistent BuiltTreesAreWellFormed CloneKeepsAllButOutput
CHECK_DEADLOCK FALSE
