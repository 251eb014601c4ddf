CONSTANTS
  None = None
  Absent = Absent
  AnyScheme = AnyScheme
  NoSelection = NoSelection
  Slots = {s1}
  Workers = {w1}
  Capacity = 1
  DescriptionsKept = 2
  StrictCheck = TRUE
  DefaultScheme = "file"
  AsReference = FALSE
  RawDestination = FALSE
  Revisions <- MCRevisions
  MaxTime = 2
  LoadOutcomes = {"ok", "none", "error"}
  Aliases <- MCAliases
  AllowedSchemes <- MCSchemes
  Versions <- MCVersions
  Algorithms <- MCAlgorithms
  Requests <- MCRequests
  InitialFiles <- MCFiles
SPECIFICATION Spec
INVARIANTS
  TypeOK
  JobsUseCurrentProject
  SelectionIsOwn
  ParametersConform
  DescribedIsAccepted
  LayersNamedAsAsked
