-------------------------------- MODULE Logging -------------------------------
(* spdlog as the agent uses it: loggers that share a sink on stdout and one on  *)
(* distrace_agent.log, called by many threads at once, without the queue and    *)
(* the worker that set_async_mode prepares: the agent's loggers are built with  *)
(* make_shared<spdlog::logger> and write in the calling thread.                 *)
EXTENDS Integers, Sequences

CONSTANTS
  Loggers,      \* loggers_to_initialize
  LogThreads,   \* threads of the application inside the agent's callbacks
  MaxRecords,   \* bound: records a thread makes
  Quiet,        \* the 60 seconds after an error report without another one
  MaxTime       \* bound of the clock

LogLevels == {"trace", "debug", "info", "warn", "error", "fatal", "off"}
Rank == [trace |-> 0, debug |-> 1, info |-> 2, warn |-> 3, error |-> 4, fatal |-> 5, off |-> 6]
Unset == "unset"

ASSUME LoggingAssumption ==
  /\ Loggers # {}
  /\ MaxRecords \in Nat
  /\ MaxTime \in Nat
  /\ Quiet \in Nat \ {0}

VARIABLES
  level,        \* logger -> its level; Unset: not in the registry
  at,           \* thread -> where it is in logger::log
  record,       \* thread -> the record it is writing
  made,         \* thread -> how many records it has made
  out,          \* what was handed to stdout
  file,         \* what was written to the FILE of the log
  flushed,      \* how much of file has reached the disk
  lost,         \* records the file refused, and when
  reports,      \* LOG ERROR lines on stderr
  lastError,    \* logger -> _last_err_time
  seen,         \* thread -> now in _default_err_handler
  now
threadVars == <<at, record, made, seen>>
sinkVars == <<out, file, flushed, lost, reports, lastError>>
logVars == <<level, at, record, made, out, file, flushed, lost, reports, lastError, seen, now>>

NoRecord == [logger |-> Unset, by |-> Unset, n |-> 0]
LoggingInit ==
  /\ level = [l \in Loggers |-> Unset]
  /\ at = [t \in LogThreads |-> "idle"]
  /\ record = [t \in LogThreads |-> NoRecord]
  /\ made = [t \in LogThreads |-> 0]
  /\ out = <<>> /\ file = <<>> /\ flushed = 0
  /\ lost = {} /\ reports = {}
  /\ lastError = [l \in Loggers |-> 0]
  /\ seen = [t \in LogThreads |-> 0]
  /\ now = Quiet      \* any time: _last_err_time starts at the epoch

Registered(l) == level[l] # Unset
\* logger::should_log
Passes(v, threshold) == Rank[v] >= Rank[threshold]
MoveLog(t, from, to) == at[t] = from /\ at' = [at EXCEPT ![t] = to]

\* spdlog::get and the test of the level; a message below it goes no further.
Log(t, l, v) ==
  /\ Registered(l)
  /\ made[t] < MaxRecords
  /\ made' = [made EXCEPT ![t] = @ + 1]
  /\ IF Passes(v, level[l])
       THEN /\ MoveLog(t, "idle", "stdout")
            /\ record' = [record EXCEPT ![t] = [logger |-> l, by |-> t, n |-> made[t] + 1]]
       ELSE /\ at[t] = "idle"
            /\ UNCHANGED <<at, record>>
  /\ UNCHANGED <<level, seen, now, out, file, flushed, lost, reports, lastError>>

\* Mutant: the file's sink stands in the list of sinks before the one of stdout.
FileSinkFirst(t) ==
  /\ MoveLog(t, "stdout", "file")
  /\ file' = Append(file, record[t])
  /\ UNCHANGED <<level, record, made, seen, now, out, flushed, lost, reports, lastError>>
\* The first sink, under its own mutex; the outcome of its fwrite is not looked at.
StdoutSink(t) ==
  /\ MoveLog(t, "stdout", "file")
  /\ out' = Append(out, record[t])
  /\ UNCHANGED <<level, record, made, seen, now, file, flushed, lost, reports, lastError>>

\* The second sink, under its own mutex: fwrite into the buffer of the FILE.
FileSink(t) ==
  /\ MoveLog(t, "file", "idle")
  /\ file' = Append(file, record[t])
  /\ UNCHANGED <<level, record, made, seen, now, out, flushed, lost, reports, lastError>>

\* A short fwrite is thrown as spdlog_ex and caught by logger::log.
\* Mutant: the exception is swallowed.
SwallowError(t) ==
  /\ MoveLog(t, "file", "idle")
  /\ lost' = lost \cup {[record |-> record[t], at |-> now]}
  /\ UNCHANGED <<level, record, made, seen, now, out, file, flushed, reports, lastError>>
FileFails(t) ==
  /\ MoveLog(t, "file", "failed")
  /\ lost' = lost \cup {[record |-> record[t], at |-> now]}
  /\ UNCHANGED <<level, record, made, seen, now, out, file, flushed, reports, lastError>>

\* _default_err_handler looks at the time of the last report ...
SkipReport(t) ==
  /\ MoveLog(t, "failed", "idle")
  /\ now - lastError[record[t].logger] < Quiet
  /\ UNCHANGED <<level, record, made, seen, now, out, file, flushed, lost, reports, lastError>>
StartReport(t) ==
  /\ MoveLog(t, "failed", "report")
  /\ now - lastError[record[t].logger] >= Quiet
  /\ seen' = [seen EXCEPT ![t] = now]
  /\ UNCHANGED <<level, record, made, now, out, file, flushed, lost, reports, lastError>>
\* ... and sets it to the time it looked, after it has printed.
Report(t) ==
  /\ MoveLog(t, "report", "idle")
  /\ reports' = reports \cup {[logger |-> record[t].logger, at |-> seen[t]]}
  /\ lastError' = [lastError EXCEPT ![record[t].logger] = seen[t]]
  /\ UNCHANGED <<level, record, made, seen, now, out, file, flushed, lost>>

\* The FILE's buffer goes to the disk when the C library wants: no level flushes it.
Spill ==
  /\ flushed < Len(file)
  /\ flushed' \in flushed + 1 .. Len(file)
  /\ UNCHANGED <<level, at, record, made, out, file, lost, reports, lastError, seen, now>>
Tick ==
  /\ now < MaxTime
  /\ now' = now + 1
  /\ UNCHANGED <<level, at, record, made, out, file, flushed, lost, reports, lastError, seen>>

LogStep(t) ==
  \/ \E l \in Loggers, v \in {"info", "error"} : Log(t, l, v)
  \/ StdoutSink(t)
  \/ FileSink(t)
  \/ FileFails(t)
  \/ SkipReport(t)
  \/ StartReport(t)
  \/ Report(t)
LogNext == (\E t \in LogThreads : LogStep(t)) \/ Spill \/ Tick

-------------------------------------------------------------------------------
\* The two sinks agree: the file holds nothing that was not printed before, and each thread's
\* records come in the order the thread made them and once, on both (each sink has its own mutex
\* and threads overtake one another between the two).
SinksAgree ==
  /\ \A s \in {out, file} : \A i, j \in 1..Len(s) :
       i < j /\ s[i].by = s[j].by => s[i].n < s[j].n
  /\ \A i \in 1..Len(file) : \E j \in 1..Len(out) : file[i] = out[j]

\* A record the file refused is answered by a report of the same logger on stderr, less than Quiet
\* older than the refusal, unless its thread is still about to look (logger::log's catch blocks and
\* _default_err_handler, which other threads run at the same time).
LossReported ==
  \A x \in lost :
    \/ \E r \in reports : r.logger = x.record.logger /\ r.at > x.at - Quiet
    \/ at[x.record.by] \in {"failed", "report"} /\ record[x.record.by] = x.record
===============================================================================
