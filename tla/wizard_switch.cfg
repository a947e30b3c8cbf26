SPECIFICATION WizardSpec
CONSTANTS
  None = None  Line = Line  Local = Local
  g1 = g1  g2 = g2  a1 = a1  s1 = s1  s2 = s2
  Ids = {i1}
  Groups = {g1}
  LineStops = {}
  Assets = {a1}
  AssetOf <- MCAssetOf
  LineAsset = None
  Systems = {s1, s2}
  Caps <- MCDrafted
  Links = {s1}
  People = {}
  Reasoned = {}
  MaxActive = 1
  MaxOutbox = 6
  Retrack = FALSE
INVARIANT AssetFollows
