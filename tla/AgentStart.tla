------------------------------ MODULE AgentStart ------------------------------
(* Agent_OnLoad and Agent_OnAttach: the argument parser of AgentArgs, the       *)
(* registration of the loggers, the JVMTI set-up of initAgent and the           *)
(* connection to the Instrumentor; afterwards the application's threads log.    *)
EXTENDS Logging

CONSTANTS
  CommandLines,   \* sequences of pairs: the options string, split at ';'
  ConfigFiles,    \* sequences of pairs: the lines of the file, <<>> if it cannot be read
  AttachOptions,  \* the options strings of later attachments
  MaxAttach,      \* bound: attachments
  MaxNumTries,    \* createUniqueTempDir: 100
  OpenTries,      \* file_helper: 5
  MayFail         \* the environment's calls that can fail, of Fallible

LogDir == "log_dir"
LogLevel == "log_level"
ConnectionStr == "connection_str"
ServerJar == "instrumentor_server_jar"
ServerCp == "instrumentor_server_cp"
MainClass == "instrumentor_main_class"
Exporter == "span_exporter"
ConfigFile == "config_file"
ClassOutputDir == "class_output_dir"
Names == {LogDir, LogLevel, ConnectionStr, ServerJar, ServerCp, MainClass, Exporter, ConfigFile,
          ClassOutputDir}

\* A piece of the options string or a line: <<name, value>>, or one of
Empty == <<"empty", Unset>>          \* nothing between two separators
Malformed == <<"malformed", Unset>>  \* not exactly one '='
\* Values stand for their class: "bad" fails the check of its argument.
Values == {"ipc", "tcp", "bad", "info", "error", "off", "given", "default", "temp",
           "ipc://", "tcp://", Unset}
\* What a name is given is never the value that says it has none.
Pairs == (Names \X (Values \ {Unset})) \cup {Empty, Malformed}

Events == <<"VM_INIT", "VM_DEATH", "VM_START", "CLASS_FILE_LOAD_HOOK", "CLASS_PREPARE", "CLASS_LOAD">>
\* initAgent up to the connection, registerEvents included
JvmtiSteps == <<"env", "capabilities", "callbacks">> \o Events \o <<"lock">>
Fallible == {JvmtiSteps[i] : i \in 1..Len(JvmtiSteps)}
            \cup {"options", "current_path", "directories", "file", "tempdir", "shell", "fork",
                  "connect"}

ASSUME StartAssumption ==
  /\ MaxNumTries \in Nat /\ OpenTries \in Nat /\ MaxAttach \in Nat
  /\ MayFail \subseteq Fallible
  /\ CommandLines \cup ConfigFiles \cup AttachOptions \subseteq Seq(Pairs)

VARIABLES
  vm,         \* "starting", "running", "refused" (OnLoad said JNI_ERR) or "dead" (an exception escaped)
  entry,      \* the entry point that runs: "none", "load" or "attach"
  pc,         \* where it is
  given,      \* the options string and the lines of the configuration file
  i,          \* the next pair, try or JVMTI step of a loop
  args,       \* AgentArgs.args: name -> value or Unset
  err,        \* errorMsg, "none" if it is empty
  reported,   \* the error messages that were logged
  jvmti,      \* JVMTI steps done
  agent,      \* the rest of globalData and of what init() leaves
  attached    \* how often OnAttach was entered
startVars == <<vm, entry, pc, given, i, args, err, reported, jvmti, agent, attached>>
vars == <<startVars, logVars>>

IsSet(n) == args[n] # Unset
NoArgs == [n \in Names |-> Unset]
NoOptions == [cli |-> <<>>, file |-> <<>>]
\* server: the address the launched Instrumentor was given; connected: the one the socket has
NoAgent == [env |-> FALSE, server |-> Unset, connected |-> Unset]

Init ==
  /\ LoggingInit
  /\ vm \in {"starting", "running"}    \* with and without the agent on the command line
  /\ entry = "none" /\ pc = "idle"
  /\ given = NoOptions /\ i = 1 /\ args = NoArgs
  /\ err = "none" /\ reported = {} /\ jvmti = {} /\ agent = NoAgent /\ attached = 0

Goto(l) == pc' = l
\* initGlobalData; instApi and the lock keep what they had
Enter(e, options) ==
  /\ entry' = e /\ Goto("cli") /\ i' = 1
  /\ given' = [cli |-> options, file |-> <<>>]
  /\ args' = NoArgs /\ err' = "none"
  /\ agent' = [agent EXCEPT !.env = FALSE]
OnLoad ==
  /\ vm = "starting" /\ entry = "none"
  /\ \E o \in CommandLines : Enter("load", o)
  /\ UNCHANGED <<vm, reported, jvmti, attached, logVars>>
OnAttach ==
  /\ vm = "running" /\ entry = "none" /\ attached < MaxAttach
  /\ \E o \in AttachOptions : Enter("attach", o)
  /\ attached' = attached + 1
  /\ UNCHANGED <<vm, reported, jvmti, logVars>>

\* The entry point is left by its return value, or by an exception that nobody catches.
Return(verdict) ==
  /\ vm' = IF entry = "attach" \/ verdict = "ok" THEN "running" ELSE "refused"
  /\ entry' = "none" /\ Goto("idle") /\ i' = 1 /\ given' = NoOptions
Throw == vm' = "dead" /\ UNCHANGED <<entry, pc, i, given>>
Fails(call) == call \in MayFail
At(l) == vm \in {"starting", "running"} /\ pc = l

-------------------------------------------------------------------------------
\* AgentArgs::parseArgs

Refuse(reason) == err' = reason /\ Goto("sinks") /\ i' = 1
\* splitArgumentPair; in the code map::insert keeps the value that is there.
\* Mutant: a later value replaces it without a word.
PairReplaces(p) ==
  IF p = Malformed THEN Refuse("malformed") /\ UNCHANGED args
  ELSE /\ args' = IF p = Empty THEN args ELSE [args EXCEPT ![p[1]] = p[2]]
       /\ i' = i + 1 /\ UNCHANGED <<pc, err>>
SplitArgumentPair(p) ==
  \/ p = Empty /\ i' = i + 1 /\ UNCHANGED <<pc, args, err>>
  \/ p = Malformed /\ Refuse("malformed") /\ UNCHANGED args
  \/ /\ p \notin {Empty, Malformed} /\ IsSet(p[1])
     /\ Refuse("duplicate") /\ UNCHANGED args
  \/ /\ p \notin {Empty, Malformed} /\ ~IsSet(p[1])
     /\ args' = [args EXCEPT ![p[1]] = p[2]]
     /\ i' = i + 1 /\ UNCHANGED <<pc, err>>

Elsewhere == UNCHANGED <<reported, jvmti, agent, attached, logVars>>
Parsing == UNCHANGED <<vm, entry>> /\ Elsewhere
\* Without options the JVM passes NULL, of which no string can be made ("options").
NoOptionsString ==
  /\ At("cli") /\ given.cli = <<>> /\ Fails("options")
  /\ Throw /\ UNCHANGED <<args, err>> /\ Elsewhere
ParseCLI ==
  /\ At("cli")
  /\ \/ /\ i <= Len(given.cli)
        /\ SplitArgumentPair(given.cli[i]) /\ UNCHANGED given
     \/ /\ i > Len(given.cli) /\ IsSet(ConfigFile)
        /\ \E f \in ConfigFiles : given' = [given EXCEPT !.file = f]
        /\ Goto("lines") /\ i' = 1 /\ UNCHANGED <<args, err>>
     \/ /\ i > Len(given.cli) /\ ~IsSet(ConfigFile)
        /\ Goto("mandatory") /\ i' = 1 /\ UNCHANGED <<given, args, err>>
  /\ Parsing
ParseConfigFile ==
  /\ At("lines")
  /\ \/ /\ i > Len(given.file)
        /\ Goto("mandatory") /\ i' = 1 /\ UNCHANGED <<args, err>>
     \/ /\ i <= Len(given.file) /\ given.file[i][1] = ConfigFile
        /\ Refuse("config_file") /\ UNCHANGED args
     \/ /\ i <= Len(given.file) /\ given.file[i][1] # ConfigFile
        /\ SplitArgumentPair(given.file[i])
  /\ UNCHANGED given /\ Parsing

\* The second test, which reports the server's JAR as missing, looks at the main class again.
CheckForMandatoryArgs ==
  /\ At("mandatory")
  /\ IF args[ConnectionStr] \in {Unset, "ipc"} /\ ~IsSet(MainClass)
       THEN Refuse("mandatory")
       ELSE Goto("validate") /\ UNCHANGED <<err, i>>
  /\ UNCHANGED <<given, args>> /\ Parsing

IsValidLogLevel(v) == v \in LogLevels
ValidateArgs ==
  /\ At("validate")
  /\ \/ /\ IsSet(LogLevel) /\ ~IsValidLogLevel(args[LogLevel])
        /\ Refuse("log level")
     \/ /\ ~IsSet(LogLevel) \/ IsValidLogLevel(args[LogLevel])
        /\ IF args[ConnectionStr] = "bad" THEN Refuse("connection")
           ELSE IF args[Exporter] = "bad" THEN Refuse("exporter")
           ELSE Goto("defaults") /\ UNCHANGED <<err, i>>
  /\ UNCHANGED <<given, args>> /\ Parsing

\* Mutant: no default directory for the log.
DefaultNoLogDir == [n \in Names |->
  CASE n = LogLevel -> "error"
    [] n \in {ServerCp, Exporter} -> "default"
    [] n = ConnectionStr -> "ipc"
    [] OTHER -> Unset]
Default == [n \in Names |->
  CASE n = LogLevel -> "error"
    [] n \in {LogDir, ServerCp, Exporter} -> "default"
    [] n = ConnectionStr -> "ipc"
    [] OTHER -> Unset]
Filled(n) == IF IsSet(n) THEN args[n] ELSE Default[n]
\* The default of log_dir is the current directory, which may be gone; the log level comes before.
FillMissingWithDefaults ==
  /\ At("defaults")
  /\ \/ /\ args' = [n \in Names |-> Filled(n)]
        /\ Goto(IF IsSet(ClassOutputDir) THEN "address" ELSE "classdir")
        /\ UNCHANGED <<vm, entry, given, i>>
     \/ /\ ~IsSet(LogDir) /\ Fails("current_path") /\ Throw
        /\ args' = [args EXCEPT ![LogLevel] = Filled(LogLevel)]
  /\ UNCHANGED err /\ Elsewhere

\* Mutant: the counter starts again when it has reached its bound.
TempDirForever(n, v, next) ==
  \/ args' = [args EXCEPT ![n] = v] /\ Goto(next) /\ i' = 1 /\ UNCHANGED <<vm, entry, given>>
  \/ /\ Fails("tempdir") /\ i' = IF i <= MaxNumTries THEN i + 1 ELSE 1
     /\ UNCHANGED <<args, vm, entry, pc, given>>
\* createUniqueTempDir: a name that is there already is followed by another one, for MaxNumTries + 1
\* names; a directory that cannot be made is an exception at once.
CreateUniqueTempDir(n, v, next) ==
  \/ args' = [args EXCEPT ![n] = v] /\ Goto(next) /\ i' = 1 /\ UNCHANGED <<vm, entry, given>>
  \/ /\ Fails("tempdir") /\ i <= MaxNumTries
     /\ i' = i + 1 /\ UNCHANGED <<args, vm, entry, pc, given>>
  \/ (Fails("directories") \/ (Fails("tempdir") /\ i > MaxNumTries)) /\ Throw /\ UNCHANGED args
FillClassOutputDir ==
  /\ At("classdir")
  /\ CreateUniqueTempDir(ClassOutputDir, "temp", "address")
  /\ UNCHANGED err /\ Elsewhere
ConnectionStrToNanomsgAddr ==
  /\ At("address")
  /\ IF args[ConnectionStr] = "ipc"
       THEN CreateUniqueTempDir(ConnectionStr, "ipc://", "sinks")
       ELSE /\ args' = [args EXCEPT ![ConnectionStr] = "tcp://"]
            /\ Goto("sinks") /\ UNCHANGED <<vm, entry, given, i>>
  /\ UNCHANGED err /\ Elsewhere
IsRunningInLocalMode == args[ConnectionStr] = "ipc://"

-------------------------------------------------------------------------------
\* register_loggers and the message about the arguments

OnlyLevel(new) ==
  /\ level' = new
  /\ UNCHANGED <<args, err, reported, jvmti, agent, attached>>
  /\ UNCHANGED <<at, record, made, sinkVars, seen, now>>
\* set_level(err) reaches the loggers that an earlier registration has left.
CreateSinks ==
  /\ At("sinks")
  /\ OnlyLevel([l \in Loggers |-> IF Registered(l) THEN "error" ELSE Unset])
  /\ \/ (~IsSet(LogDir) \/ Fails("directories")) /\ Throw
     \/ IsSet(LogDir) /\ Goto("open") /\ UNCHANGED <<vm, entry, i, given>>
\* file_helper::open with truncate = true: what an earlier registration logged is cut off.
OpenLogFile ==
  /\ At("open")
  /\ \/ /\ Goto("register") /\ i' = 1 /\ UNCHANGED <<vm, entry, given>>
        /\ file' = SubSeq(file, flushed + 1, Len(file)) /\ flushed' = 0
     \/ /\ Fails("file") /\ i < OpenTries
        /\ i' = i + 1 /\ UNCHANGED <<vm, entry, pc, given, file, flushed>>
     \/ Fails("file") /\ i >= OpenTries /\ Throw /\ UNCHANGED <<file, flushed>>
  /\ UNCHANGED <<args, err, reported, jvmti, agent, attached>>
  /\ UNCHANGED <<level, at, record, made, out, lost, reports, lastError, seen, now>>
\* The registry throws on a name it knows; a new logger has level info.
RegisterLoggers ==
  /\ At("register")
  /\ IF \E l \in Loggers : Registered(l)
       THEN Throw /\ OnlyLevel(level)
       ELSE Goto("setlevel") /\ UNCHANGED <<vm, entry, i, given>> /\ OnlyLevel([l \in Loggers |-> "info"])
\* Mutant: the level is not looked up among the known ones.
SetAnyLevel ==
  /\ At("setlevel")
  /\ IF IsSet(LogLevel)
       THEN Goto("verdict") /\ UNCHANGED <<vm, entry, i, given>>
            /\ OnlyLevel([l \in Loggers |-> args[LogLevel]])
       ELSE Throw /\ OnlyLevel(level)
SetLogLevel ==
  /\ At("setlevel")
  /\ IF IsSet(LogLevel) /\ IsValidLogLevel(args[LogLevel])
       THEN Goto("verdict") /\ UNCHANGED <<vm, entry, i, given>>
            /\ OnlyLevel([l \in Loggers |-> args[LogLevel]])
       ELSE Throw /\ OnlyLevel(level)

\* Agent_OnAttach ends here, with JNI_ERR in any case.
Verdict ==
  /\ At("verdict")
  /\ reported' = reported \cup {e \in {err} : e # "none" /\ \A l \in Loggers : Passes("error", level[l])}
  /\ IF err = "none" /\ entry = "load"
       THEN Goto("jvmti") /\ UNCHANGED <<vm, entry, i, given>>
       ELSE Return("err")
  /\ UNCHANGED <<args, err, jvmti, agent, attached, logVars>>

-------------------------------------------------------------------------------
\* initAgent and InstrumentorAPI::init

\* Mutant: a step that fails is only logged, as the result of checkJVMTIError allows.
JvmtiLenient ==
  /\ At("jvmti")
  /\ jvmti' \in {jvmti, jvmti \cup {JvmtiSteps[i]}}
  /\ agent' = [agent EXCEPT !.env = TRUE]
  /\ IF i < Len(JvmtiSteps) THEN i' = i + 1 /\ Goto("jvmti") ELSE i' = 1 /\ Goto("launch")
  /\ UNCHANGED <<vm, entry, given, args, err, reported, attached, logVars>>
Jvmti ==
  /\ At("jvmti")
  /\ \/ /\ jvmti' = jvmti \cup {JvmtiSteps[i]}
        /\ agent' = [agent EXCEPT !.env = TRUE]
        /\ IF i < Len(JvmtiSteps) THEN i' = i + 1 /\ Goto("jvmti") ELSE i' = 1 /\ Goto("launch")
        /\ UNCHANGED <<vm, entry, given>>
     \/ Fails(JvmtiSteps[i]) /\ Return("err") /\ UNCHANGED <<jvmti, agent>>
  /\ UNCHANGED <<args, err, reported, attached, logVars>>
LaunchNeeds == {ServerJar, MainClass, ServerCp, LogLevel, LogDir, ClassOutputDir}
Launch ==
  /\ At("launch")
  /\ \/ /\ ~IsRunningInLocalMode
        /\ Goto("connect") /\ UNCHANGED <<vm, entry, i, given, agent>>
     \/ IsRunningInLocalMode /\ Fails("shell") /\ Return("err") /\ UNCHANGED agent
     \/ /\ IsRunningInLocalMode /\ \E n \in LaunchNeeds : ~IsSet(n)
        /\ Throw /\ UNCHANGED agent
     \/ /\ IsRunningInLocalMode /\ \A n \in LaunchNeeds : IsSet(n)
        /\ \/ Fails("fork") /\ Return("err") /\ UNCHANGED agent
           \/ /\ agent' = [agent EXCEPT !.server = args[ConnectionStr]]
              /\ Goto("connect") /\ UNCHANGED <<vm, entry, i, given>>
  /\ UNCHANGED <<args, err, reported, jvmti, attached, logVars>>
Connect ==
  /\ At("connect")
  /\ \/ Fails("connect") /\ Return("err") /\ UNCHANGED agent
     \/ /\ agent' = [agent EXCEPT !.connected = args[ConnectionStr]]
        /\ IF IsSet(ClassOutputDir) THEN Return("ok") ELSE Throw
  /\ UNCHANGED <<args, err, reported, jvmti, attached, logVars>>

\* The callbacks run, and log, once OnLoad has said JNI_OK.
Live == vm = "running" /\ agent.connected # Unset
Logs == Live /\ LogNext /\ UNCHANGED startVars

StartStep ==
  \/ NoOptionsString \/ ParseCLI \/ ParseConfigFile \/ CheckForMandatoryArgs \/ ValidateArgs
  \/ FillMissingWithDefaults \/ FillClassOutputDir \/ ConnectionStrToNanomsgAddr
  \/ CreateSinks \/ OpenLogFile \/ RegisterLoggers \/ SetLogLevel \/ Verdict
  \/ Jvmti \/ Launch \/ Connect
Next == OnLoad \/ OnAttach \/ StartStep \/ Logs
Spec == Init /\ [][Next]_vars
\* The thread that runs the entry point goes on.
FairSpec == Spec /\ WF_vars(OnLoad) /\ WF_vars(StartStep)

-------------------------------------------------------------------------------
TypeOK ==
  /\ vm \in {"starting", "running", "refused", "dead"}
  /\ entry \in {"none", "load", "attach"}
  /\ pc \in {"idle", "cli", "lines", "mandatory", "validate", "defaults", "classdir", "address",
             "sinks", "open", "register", "setlevel", "verdict", "jvmti", "launch", "connect"}
  /\ args \in [Names -> Values]
  /\ i \in Nat \ {0}
  /\ jvmti \subseteq Fallible
  /\ agent \in [env : BOOLEAN, server : Values, connected : Values]
  /\ attached \in 0..MaxAttach
  /\ level \in [Loggers -> LogLevels \cup {Unset}]
  /\ at \in [LogThreads -> {"idle", "stdout", "file", "failed", "report"}]

\* What the repository says of the options, without the order in which the parser looks at them:
\* every argument once on the command line and once in the file, where the command line has the
\* precedence (the message of splitArgumentPair); a local start names the main class and the JAR
\* (checkForMandatoryArgs, README.md:56).
GivenIn(s, n) == {s[k][2] : k \in {k \in 1..Len(s) : s[k][1] = n}}
Chosen(n) == IF GivenIn(given.cli, n) # {} THEN GivenIn(given.cli, n) ELSE GivenIn(given.file, n)
OnceEach(s) == \A j, k \in 1..Len(s) : s[j] # Empty /\ s[j][1] = s[k][1] => j = k
LocalStart == Chosen(ConnectionStr) \subseteq {"ipc"}
JarNamed == LocalStart => Chosen(ServerJar) # {}
AcceptableButJar ==
  /\ \A s \in {given.cli, given.file} : OnceEach(s) /\ \A k \in 1..Len(s) : s[k] # Malformed
  /\ \A k \in 1..Len(given.file) : given.file[k][1] # ConfigFile
  /\ LocalStart => Chosen(MainClass) # {}
  /\ "bad" \notin Chosen(ConnectionStr) \cup Chosen(Exporter)
  /\ Chosen(LogLevel) \subseteq LogLevels
Acceptable == AcceptableButJar /\ JarNamed
InBoth == \E n \in Names : GivenIn(given.cli, n) # {} /\ GivenIn(given.file, n) # {}
Expected(n) ==
  CASE n = ConnectionStr -> IF LocalStart THEN "ipc://" ELSE "tcp://"
    [] n = ClassOutputDir /\ Chosen(n) = {} -> "temp"
    [] OTHER -> IF Chosen(n) = {} THEN Default[n] ELSE CHOOSE v \in Chosen(n) : TRUE

\* The parser against what the repository says of the options, with the two places where it does
\* something else: it takes acceptable options, unless an argument is on the command line and in the
\* file; and what it takes is acceptable, but for the JAR that nobody asks for, and every argument is
\* the one given, on the command line rather than in the file, or its default.
ParseFaithful ==
  At("sinks") =>
    /\ Acceptable => err = "none" \/ InBoth
    /\ err = "none" => AcceptableButJar /\ \A n \in Names : args[n] = Expected(n)

\* A JVM that runs with the agent, and that nobody attaches the agent to again, has all it needs in
\* its callbacks: the environment, the events, the lock, every argument that is read later, loggers at
\* the level asked for, and a connection to the server that was launched, if one was to be launched
\* (initAgent, InstrumentorAPI::init).  An attachment takes args and the environment away.
Ready ==
  Live /\ entry = "none" =>
    /\ jvmti = {JvmtiSteps[k] : k \in 1..Len(JvmtiSteps)} /\ agent.env
    /\ \A n \in {ConnectionStr, LogLevel, LogDir, Exporter, ClassOutputDir} : IsSet(n)
    /\ \A l \in Loggers : level[l] = args[LogLevel]
    /\ agent.connected = args[ConnectionStr]
    /\ agent.server = IF IsRunningInLocalMode THEN agent.connected ELSE Unset

\* The only ways to take the JVM down with an exception out of an entry point: a refused option
\* without a usable log_dir and log_level, a start without options or, when it names no log_dir,
\* without a current directory, a local start without the server's JAR, an attachment to a JVM that
\* has the loggers already, and no directory or file to write to after all tries.
DeathExplained ==
  vm = "dead" =>
    \/ err # "none" /\ (~IsSet(LogDir) \/ ~IsValidLogLevel(args[LogLevel]))
    \/ pc = "cli" /\ given.cli = <<>>
    \/ pc = "defaults" /\ ~IsSet(LogDir)
    \/ pc = "launch" /\ IsRunningInLocalMode /\ ~IsSet(ServerJar)
    \/ pc = "register" /\ entry = "attach"
    \/ pc \in {"classdir", "address"}
    \/ pc = "sinks" /\ IsSet(LogDir)
    \/ pc = "open" /\ i >= OpenTries

\* An error of the arguments is logged before the agent is stopped, if the level allows errors
\* (Agent_OnLoad, "now print the result of parsing").
RefusalReported ==
  vm \in {"refused", "dead"} /\ err # "none" /\ args[LogLevel] \notin {"off", "fatal"} => err \in reported

\* Whoever loads or attaches the agent gets an answer: the entry point returns, or the JVM dies
\* (the bounded retries of createUniqueTempDir and file_helper::open).
EntryEnds == entry # "none" ~> entry = "none" \/ vm = "dead"
===============================================================================
