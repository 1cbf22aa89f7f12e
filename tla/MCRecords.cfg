SPECIFICATION RecordsSpec
SYMMETRY AllInterchangeable
CONSTANTS
  first = first
  second = second
  earlier = earlier
  Absent = Absent
  Publishers = {first, second}
  Earlier = earlier
  Snapshots <- MCSnapshots
  Context <- MCContext
  Emits <- MCEmits
  Branches = {b1, b2}
  Main = main
  Keys = {1, 2}
  MaxNumber = 3
  MaxEdits = 5
  Commands = {c1, c2}
  Urls = {1}
  a1 = a1
  Artifacts = {a1, a2}
  None = None
  MaxCommands = 2
  MaxReleases = 1
  MaxImports = 1
INVARIANTS BaselineRecoverable ReadsAreWhole TablesWellFormed StoresWhole PinsHold
PROPERTIES MainPermanent OrphansAreRecent
