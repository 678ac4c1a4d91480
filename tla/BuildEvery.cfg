SPECIFICATION FairSpec

CONSTANTS
  Cdbs <- EveryCdb
  Linkable <- AnyName
  Directories <- ObjDirectory
  Transient <- TransientFiles
  Failing <- FaultyFiles
  Parallelism = 2
  NoOptions = NoOptions
  LinkOptions <- BOOLEAN
  CdbBroken = TRUE
  i1 = i1
  i2 = i2
  i3 = i3
  i4 = i4
  i5 = i5
  i6 = i6

INVARIANT BuildInv
INVARIANT SourcesBridged
INVARIANT ScheduleIndependent
INVARIANT ArchivePathsDistinct
INVARIANT UnitsArchived
INVARIANT PropertiesRight
INVARIANT LibrariesFound
INVARIANT NoFileLeft
PROPERTY ImplementsResultLists
PROPERTY Returns

\* process has returned.
CHECK_DEADLOCK FALSE
