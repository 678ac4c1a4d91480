SPECIFICATION Spec

CONSTANTS
  Options <- GccOptions
  Dashed <- DashedWords
  Extension <- ExtensionOf
  SourceExtensions <- Sources
  TargetExtensions <- Targets
  Binaries <- Tools
  DefaultKind = "compile"
  Elements <- SomeElements
  MaxElements = 3
  Added <- SomeAdded

INVARIANT ParsedAsMeant
INVARIANT LostAsArgument
INVARIANT OneOutput
