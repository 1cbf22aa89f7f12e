CONSTANTS
  first = first
  second = second
  earlier = earlier
  Absent = Absent
  Publishers = {first, second}
  Earlier = earlier
  Snapshots <- MCSnapshots
  Context <- MCContext
  Emits <- OverlapEmits
SPECIFICATION PublicationSpec
INVARIANTS PublishedWholesale
