SPECIFICATION FairSpec

CONSTANTS
  make = make
  gxx = gxx
  ld = ld
  gcc = gcc
  rsp = rsp
  Processes <- BuildProcesses
  Root = make
  Parent <- BuildParent
  Awaited <- WaitedFor
  Executable <- BuildExecutable
  Arguments <- BuildArguments
  ResponseFile <- BuildFiles
  NoFile = "none"
  Content <- FileContent
  Protected = {gcc}
  Unreadable = {ld}
  Raises <- Exceptions
  WaitMayFail = TRUE
  ExitStatuses = {0, 2}
  Stem <- FileStem
  Extension <- FileExtension
  Toolchains <- ProfileData
  DefaultAliases <- ToolAliases
  Broken = {"ild"}
  Origins <- OriginNames
  LanguageAliases <- OwnAliases
  ProbedLanguages <- Probes
  OutputOption = {"gcc", "clang"}
  Installed <- AllBinaries
  BuildOrder <- UnixBuild
  DefaultBinaries = {"gcc", "g++"}
  AutoProfiles = {"auto"}
  Profiles = {"auto", "gnu-cc", "bare", "intel"}
  EarlierItems <- EarlierBuild

CHECK_DEADLOCK FALSE

INVARIANT IInv
INVARIANT RanMeansRecorded
INVARIANT OnlyDetachedKilled
INVARIANT OptionsOfFirstBinary
INVARIANT ProcessedOwnTrace
INVARIANT WholeTrace
INVARIANT TracedMeansProcessed
INVARIANT TempFilesRemoved

 
PROPERTY WinImplementsTraceLog
PROPERTY FaultsArePassedOn
PROPERTY RunEnds
