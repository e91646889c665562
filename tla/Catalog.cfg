\* Two transactions that edit two items.
SPECIFICATION Spec
CONSTANTS
  Items = {1, 2}
  Locations = {1}
  Leaves = {"ethernet", "cord"}
  Manufactured = {"ethernet"}
  Transceivers = {"ethernet"}
  Definitions <- TwoDefinitions
  Words = {"", "acme", "optic", "cord", "new", "m1", "m2", "LC", "RJ45", "near", "far"}
  Metres <- ReachWords
  MaxScale = 2
  Names <- SomeNames
  Drafts <- SomeDrafts
  Patches <- SomePatches
  Initials <- SomeInitials
  Stocked = {1}
  Txns = {t1, t2}
  Family <- TwoFamilies
  Ethernet = "ethernet"
  LongReach = 2
  Copper = {"RJ45"}
  Queries <- SomeQueries
  None = None
SYMMETRY TxnSymmetry
INVARIANTS
  EditsSurvive
  EquipmentUnique
  DatabaseAgrees
  FacetsAgree
