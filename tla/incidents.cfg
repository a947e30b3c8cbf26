SPECIFICATION Spec
CONSTANTS
  None = None  Line = Line  Local = Local
  g1 = g1  g2 = g2  a1 = a1  s1 = s1  s2 = s2
  Ids = {i1, i2}
  Groups = {g1, g2}
  LineStops = {}
  Assets = {a1}
  AssetOf <- MCAssetOf
  LineAsset = None
  Systems = {s1}
  Caps <- MCCaps
  Links = {s1, None}
  People = {p1}
  Reasoned = {g1}
  MaxActive = 2
  MaxOutbox = 3
  Retrack = FALSE
SYMMETRY Symmetric
INVARIANTS Loadable AssetFollows LedgerKept ReferencesFollow
PROPERTY KeepsBook
