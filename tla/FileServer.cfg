\* Three requests; everything may fail, and the process may die at any time.
SPECIFICATION FairSpec
CONSTANTS
  any = any
  writer = writer
  reader = reader
  Connections <- MCConnections
  Nobody = Nobody
  Nothing = Nothing
  index = index
  generated = generated
  directory = directory
  orphan = orphan
  long = long
  Requests <- MCRequests
  Files <- MCFiles
  Directories = {directory}
  Index <- MCIndex
  Generated = {generated}
  LongPaths = {long}
  Failures = {"thread", "alloc", "open", "full", "name", "leave", "break"}
INVARIANTS TypeOK SuccessIsStored ReadsSeeAnswers CreatedByOne
PROPERTIES FilesAsPromised RequestsEnd
CHECK_DEADLOCK FALSE
