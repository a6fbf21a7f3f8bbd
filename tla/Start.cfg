\* Every start with none, one or both of the arguments of a local start and up to two further pairs on
\* the command line, two lines in the file, every failure of the environment, and attachments; nobody
\* logs.
SPECIFICATION FairSpec
CONSTANTS
  T1 = T1 T2 = T2
  Loggers = {"Agent", "InstrumentorAPI"}
  LogThreads = {}
  MaxRecords = 0
  Quiet = 1
  MaxTime = 1
  CommandLines <- AllCommandLines
  ConfigFiles <- AllFiles
  AttachOptions <- Attachments
  MaxAttach = 2
  MaxNumTries = 1
  OpenTries = 2
  MayFail <- Fallible
INVARIANTS TypeOK ParseFaithful Ready DeathExplained
PROPERTIES EntryEnds
\* A JVM that refused to start or died does nothing more.
CHECK_DEADLOCK FALSE
