SPECIFICATION StyleSpec
CONSTANTS
  Table <- TheTable
  FgNames = {"bright red", "pink"}
  BgNames = {"black", "bright white"}
  ModeNames = {"normal", "bold"}
INVARIANTS
  TreesAgree
  NamesAndCodes
PROPERTIES
  ExitFreesAll
  StyleIsShown
CHECK_DEADLOCK FALSE
