\* Two threads log two records each in two loggers, at two levels; the file may refuse any of them.
SPECIFICATION Spec
CONSTANTS
  T1 = T1 T2 = T2
  Loggers = {"Agent", "InstrumentorAPI"}
  LogThreads = {T1, T2}
  MaxRecords = 2
  Quiet = 2
  MaxTime = 4
  CommandLines <- OneCommandLine
  ConfigFiles <- NoFiles
  AttachOptions <- Attachments
  MaxAttach = 0
  MaxNumTries = 0
  OpenTries = 1
  MayFail = {}
SYMMETRY LogSymmetry
INVARIANTS SinksAgree LossReported
CHECK_DEADLOCK FALSE
