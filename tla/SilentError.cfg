\* The environment never fails: only the options are wrong.
SPECIFICATION Spec
CONSTANTS
  T1 = T1 T2 = T2
  Loggers = {"Agent"}
  LogThreads = {}
  MaxRecords = 0
  Quiet = 1
  MaxTime = 1
  CommandLines <- AllCommandLines
  ConfigFiles <- NoFiles
  AttachOptions <- Attachments
  MaxAttach = 0
  MaxNumTries = 1
  OpenTries = 1
  MayFail = {}
INVARIANTS RefusalReported
CHECK_DEADLOCK FALSE
