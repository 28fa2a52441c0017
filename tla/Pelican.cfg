SPECIFICATION Spec
CONSTANTS
  c1 = c1
  c2 = c2
  Callers = {c1, c2}
  Refs <- PanelRefs
  Servers = {"s1", "s12"}
  Listed <- PanelListed
  Labels <- PanelLabels
  Eggs = {1, 2}
  Games <- TwoGames
  MaxChanges = 1
SYMMETRY CallerSymmetry
INVARIANTS
  TypeOK
  OwnGameCached
  AskedOnce
PROPERTY
  EntriesSettle
