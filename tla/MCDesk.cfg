SPECIFICATION Spec
CONSTANTS
  Clip = {c1, c2}
  Group = {g1, g2}
  Name = {"a", "b"}
  Word = {"note"}
  Top = Top
  None = None
  Same = Same
  Bad = Bad
  Update <- MCUpdate
  MaxPlace = 2
  App = {"term", "vault"}
  NoApp = NoApp
  Mime = {"text"}
  RuleSpec <- MCRuleSpec
  MaxRule = 3
  Seed <- MCSeed
  Verdict <- MCVerdict
  Silent <- MCSilent
  MaxEdits = 3
INVARIANTS TypeOK Forest HomesExist StickyDistinct RowsMirrored
PROPERTIES ReorderSpares
CHECK_DEADLOCK FALSE
