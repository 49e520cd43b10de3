SPECIFICATION MCSpec
CONSTANTS
  Handler = {h1, h2}
  Secret = {s1}
  Payload = {p1, p2}
  None = None
  MaxVersion = 3
  Folder = {f1, f2}
  Org = Org
  Project = Project
  Item = Item
  Policies <- NoneOrIt
  Asks <- ItemOrFolder
  Custom = "custom"
  MaxDepth = 2
  MaxChanges = 2
  MaxTime = 1
INVARIANTS TypeOK DestroyedUnreadable WellNumbered SteadyGrantFound RevokedStaysOut
PROPERTIES PayloadImmutable DestroyedFinal
SYMMETRY HandlerSymmetry
