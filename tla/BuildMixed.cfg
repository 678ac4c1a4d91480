SPECIFICATION Spec

CONSTANTS
  Cdbs <- Mixed
  Linkable <- AnyName
  Directories <- ObjDirectory
  Transient <- None
  Failing <- None
  Parallelism = 1
  NoOptions = NoOptions
  LinkOptions <- NoLinkOption
  CdbBroken = FALSE
  i1 = i1
  i2 = i2
  i3 = i3
  i4 = i4
  i5 = i5
  i6 = i6

INVARIANT OwnScanOptions

\* process has returned.
CHECK_DEADLOCK FALSE
