--------------------------- MODULE AgentStart_proofs ---------------------------
(* Proofs about AgentStart for every set of options, files and loggers and      *)
(* every failure of the environment: what a JVM that runs may rely on, the only *)
(* ways an exception can leave an entry point, and that the parser hands on     *)
(* what the options ask for and refuses what is wrong.  The second part is about *)
(* logging.                                                                     *)
EXTENDS AgentStart, SequenceTheorems, TLAPS

\* The options an entry point can be given.
Options == CommandLines \cup ConfigFiles \cup AttachOptions \cup {<<>>}
Parse == {"cli", "lines", "mandatory", "validate", "defaults", "classdir", "address"}
Register == {"sinks", "open", "register", "setlevel", "verdict"}
Initialize == {"jvmti", "launch", "connect"}

\* What the defaults leave behind.
Defaulted ==
  /\ args[LogLevel] \in LogLevels
  /\ \A n \in {LogDir, ServerCp, ConnectionStr, Exporter} : IsSet(n)

OptionsInv == given \in [cli : Options, file : Options]

\* Where the entry points are, and what they find of the JVM.
EntryInv ==
  /\ entry = "none" <=> pc = "idle"
  /\ entry = "load" => vm \in {"starting", "dead"}
  /\ entry = "attach" => vm \in {"running", "dead"}
  /\ pc \in Initialize => entry = "load"

\* What the parser has made sure of when it is at a place.
ArgsInv ==
  /\ pc \in Parse \cup Initialize => err = "none"
  /\ pc \in {"validate", "defaults"} => (args[ConnectionStr] \in {Unset, "ipc"} => IsSet(MainClass))
  /\ pc = "defaults" => args[LogLevel] \in LogLevels \cup {Unset}
  /\ pc \in {"classdir", "address"} => Defaulted /\ (args[ConnectionStr] = "ipc" => IsSet(MainClass))
  /\ pc = "address" => IsSet(ClassOutputDir)
  /\ pc \in Register \cup Initialize /\ err = "none" =>
       /\ Defaulted /\ IsSet(ClassOutputDir)
       /\ IsRunningInLocalMode => IsSet(MainClass)

\* The loggers: none before the agent has registered them, and all of them ever after.
LoggersInv ==
  /\ vm = "starting" /\ pc \notin {"setlevel", "verdict"} \cup Initialize =>
       \A l \in Loggers : level[l] = Unset
  /\ pc \in {"verdict"} \cup Initialize => \A l \in Loggers : level[l] = args[LogLevel]
  /\ agent.connected # Unset => \A l \in Loggers : level[l] # Unset
  /\ agent.connected # Unset /\ entry = "attach" => pc \notin {"setlevel", "verdict"}

\* The JVMTI steps before the one that is next.
StepsInv ==
  /\ pc \in {"register", "setlevel", "verdict"} => i = 1
  /\ pc = "jvmti" =>
       /\ i \in 1..Len(JvmtiSteps)
       /\ \A k \in 1..i - 1 : JvmtiSteps[k] \in jvmti
       /\ i > 1 => agent.env
  /\ pc \in {"launch", "connect"} =>
       (\A k \in 1..Len(JvmtiSteps) : JvmtiSteps[k] \in jvmti) /\ agent.env
  /\ jvmti \subseteq {JvmtiSteps[k] : k \in 1..Len(JvmtiSteps)}

\* The server and the connection of a start that is not over.
AgentInv ==
  vm = "starting" =>
    /\ agent.connected = Unset
    /\ pc # "connect" => agent.server = Unset
    /\ pc = "connect" => agent.server = IF IsRunningInLocalMode THEN args[ConnectionStr] ELSE Unset

StartInv ==
  /\ TypeOK /\ OptionsInv /\ EntryInv /\ ArgsInv /\ LoggersInv /\ StepsInv /\ AgentInv
  /\ Ready /\ DeathExplained

-------------------------------------------------------------------------------
\* Constants.

\* The names of the arguments are nine different ones.
LEMMA ArgNames ==
  /\ {LogDir, LogLevel, ConnectionStr, ServerJar, ServerCp, MainClass, Exporter, ConfigFile,
      ClassOutputDir} = Names
  /\ LogLevel \notin {LogDir, ConnectionStr, ServerCp, MainClass, Exporter, ClassOutputDir}
  /\ ConnectionStr \notin {LogDir, ServerCp, MainClass, Exporter, ClassOutputDir}
  /\ ClassOutputDir \notin {LogDir, ServerCp, MainClass, Exporter}
  /\ MainClass \notin {LogDir, ServerCp, Exporter}
BY DEF Names, LogDir, LogLevel, ConnectionStr, ServerJar, ServerCp, MainClass, Exporter, ConfigFile,
       ClassOutputDir

\* The values the code writes are values, and none of them says that nothing is set.
LEMMA ValueFacts ==
  /\ {"ipc", "error", "default", "temp", "ipc://", "tcp://", Unset} \subseteq Values
  /\ Unset \notin {"ipc", "error", "default", "temp", "ipc://", "tcp://", "info"}
  /\ Unset \notin LogLevels /\ {"info", "error"} \subseteq LogLevels
BY DEF Values, Unset, LogLevels

\* There is a first JVMTI step.
LEMMA StepsFacts == Len(JvmtiSteps) \in Nat \ {0}
<1> DEFINE S == {"env", "capabilities", "callbacks", "lock", "VM_INIT", "VM_DEATH", "VM_START",
                 "CLASS_FILE_LOAD_HOOK", "CLASS_PREPARE", "CLASS_LOAD"}
           first == <<"env", "capabilities", "callbacks">>
           last == <<"lock">>
<1>1. Events \in Seq(S) /\ Len(Events) = 6
  BY DEF Events
<1>2. first \in Seq(S) /\ last \in Seq(S) /\ Len(first) = 3 /\ Len(last) = 1
  OBVIOUS
<1>3. JvmtiSteps = (first \o Events) \o last
  BY Zenon DEF JvmtiSteps
<1> HIDE DEF S, first, last
<1>4. first \o Events \in Seq(S)
  BY <1>1, <1>2, ConcatProperties, Zenon
<1>5. Len(first \o Events) = Len(first) + Len(Events)
  BY <1>1, <1>2, ConcatProperties, Zenon
<1>6. Len(JvmtiSteps) = Len(first \o Events) + Len(last)
  BY <1>2, <1>3, <1>4, ConcatProperties, Zenon
<1> QED BY <1>1, <1>2, <1>5, <1>6

\* A piece of the options that is neither empty nor malformed is a name with a value.
LEMMA PairFacts ==
  ASSUME NEW p \in Pairs, p \notin {Empty, Malformed}
  PROVE  p[1] \in Names /\ p[2] \in Values \ {Unset}
BY DEF Pairs

\* The pieces that are no pairs have no name of an argument.
LEMMA OddPieces == Empty # Malformed /\ Empty[1] \notin Names /\ Malformed[1] \notin Names
BY DEF Empty, Malformed, Names, LogDir, LogLevel, ConnectionStr, ServerJar, ServerCp, MainClass,
       Exporter, ConfigFile, ClassOutputDir

\* Options are sequences of pieces.
LEMMA OptionFacts ==
  ASSUME NEW o \in Options
  PROVE  Len(o) \in Nat /\ \A k \in 1..Len(o) : o[k] \in Pairs
BY StartAssumption DEF Options

LEMMA DefaultFacts ==
  /\ Default[LogLevel] = "error" /\ Default[ConnectionStr] = "ipc"
  /\ \A n \in {LogDir, ServerCp, Exporter} : Default[n] = "default"
  /\ Default \in [Names -> Values]
BY ArgNames, ValueFacts DEF Default

-------------------------------------------------------------------------------
\* The initial states.
LEMMA StartInit == Init => StartInv
<1> SUFFICES ASSUME Init PROVE StartInv
  OBVIOUS
<1>1. TypeOK
  <2>1. args \in [Names -> Values]
    BY ValueFacts DEF Init, NoArgs
  <2>2. agent \in [env : BOOLEAN, server : Values, connected : Values]
    BY ValueFacts DEF Init, NoAgent
  <2>3. /\ level \in [Loggers -> LogLevels \cup {Unset}]
        /\ at \in [LogThreads -> {"idle", "stdout", "file", "failed", "report"}]
    BY DEF Init, LoggingInit
  <2>4. attached \in 0..MaxAttach
    <3>1. attached = 0
      BY DEF Init
    <3>2. MaxAttach \in Nat
      BY StartAssumption
    <3> QED BY <3>1, <3>2
  <2>5. vm \in {"starting", "running"} /\ entry = "none" /\ pc = "idle" /\ i = 1 /\ jvmti = {}
    BY DEF Init
  <2> QED BY <2>1, <2>2, <2>3, <2>4, <2>5 DEF TypeOK
<1>2. OptionsInv
  BY DEF Init, OptionsInv, NoOptions, Options
<1>3. EntryInv /\ ArgsInv
  BY DEF Init, EntryInv, ArgsInv, Parse, Register, Initialize
<1>4. LoggersInv
  BY DEF Init, LoggingInit, LoggersInv, Initialize, NoAgent
<1>5. StepsInv /\ AgentInv
  BY DEF Init, StepsInv, AgentInv, NoAgent
<1>6. Ready /\ DeathExplained
  BY DEF Init, Ready, Live, DeathExplained, NoAgent
<1> QED BY <1>1, <1>2, <1>3, <1>4, <1>5, <1>6 DEF StartInv

-------------------------------------------------------------------------------
\* What several actions do.

\* The variables of the parser's steps that no step of the parser changes.
Kept == UNCHANGED <<vm, reported, jvmti, agent, attached, logVars>>

\* An exception leaves everything as it was, but the JVM is dead.
LEMMA ThrowKeeps ==
  ASSUME StartInv, Throw, UNCHANGED <<args, err, jvmti, agent, attached, at>>, DeathExplained',
         level' = level \/ (level' \in [Loggers -> LogLevels \cup {Unset}] /\ LoggersInv')
  PROVE  StartInv'
<1> USE DEF StartInv, Throw
<1>1. TypeOK' /\ OptionsInv'
  BY DEF TypeOK, OptionsInv
<1>2. EntryInv'
  BY DEF EntryInv
<1>3. ArgsInv'
  BY DEF ArgsInv, Defaulted, IsSet, IsRunningInLocalMode
<1>4. LoggersInv'
  <2>1. CASE level' = level
    BY <2>1 DEF LoggersInv
  <2> QED BY <2>1
<1>5. StepsInv'
  BY DEF StepsInv
<1>6. AgentInv' /\ Ready'
  BY DEF AgentInv, Ready, Live
<1> QED BY <1>1, <1>2, <1>3, <1>4, <1>5, <1>6

\* JNI_ERR leaves a JVM that was attached to running, and stops the one that starts.
LEMMA ReturnKeeps ==
  ASSUME StartInv, At(pc), pc \in {"verdict"} \cup Initialize, Return("err"),
         UNCHANGED <<args, err, jvmti, agent, attached, level, at>>
  PROVE  StartInv'
<1> USE DEF StartInv, Return, Goto
<1>0. vm \in {"starting", "running"} /\ pc # "idle" /\ entry \in {"load", "attach"}
  BY DEF At, EntryInv, TypeOK, Initialize
<1>1. vm' \in {"running", "refused"} /\ (vm' = "running" => entry = "attach")
  BY DEF Return
<1>2. TypeOK' /\ OptionsInv'
  <2>1. OptionsInv'
    BY DEF OptionsInv, NoOptions, Options
  <2> QED BY <2>1, <1>1 DEF TypeOK
<1>3. EntryInv'
  BY DEF EntryInv, Initialize
<1>4. ArgsInv'
  BY DEF ArgsInv, Parse, Register, Initialize
<1>5. LoggersInv'
  BY <1>1 DEF LoggersInv, Initialize
<1>6. StepsInv' /\ AgentInv' /\ DeathExplained'
  BY <1>1 DEF StepsInv, AgentInv, DeathExplained
<1>7. Ready'
  <2>1. entry = "attach" => agent.connected = Unset
    BY <1>0 DEF LoggersInv, EntryInv, Initialize
  <2> QED BY <1>1, <2>1 DEF Ready, Live
<1> QED BY <1>2, <1>3, <1>4, <1>5, <1>6, <1>7

\* A step of the parser that stays in the entry point and says what it leaves in args.
LEMMA ParseKeeps ==
  ASSUME StartInv, At(pc), pc \in Parse, pc' \in Parse \cup {"sinks"}, Kept, entry' = entry,
         i' \in Nat \ {0}, args' \in [Names -> Values], OptionsInv', ArgsInv'
  PROVE  StartInv'
<1> USE DEF StartInv, Kept, logVars
<1>0. vm \in {"starting", "running"} /\ pc # "idle" /\ entry \in {"load", "attach"}
  BY DEF At, EntryInv, TypeOK, Parse
<1>1. TypeOK'
  BY DEF TypeOK, Parse
<1>2. EntryInv'
  BY <1>0 DEF EntryInv, Parse, Initialize
<1>3. LoggersInv'
  BY DEF LoggersInv, Parse, Initialize
<1>4. StepsInv' /\ AgentInv'
  BY DEF StepsInv, AgentInv, Parse
<1>5. Ready' /\ DeathExplained'
  BY <1>0 DEF Ready, DeathExplained
<1> QED BY <1>1, <1>2, <1>3, <1>4, <1>5

-------------------------------------------------------------------------------
\* The entry points.

LEMMA EnterKeeps ==
  ASSUME StartInv, NEW e \in {"load", "attach"}, NEW o \in Options, entry = "none",
         vm = (IF e = "load" THEN "starting" ELSE "running"), Enter(e, o),
         attached' \in 0..MaxAttach, vm' = vm, jvmti' = jvmti, level' = level, at' = at
  PROVE  StartInv'
<1>0. /\ entry' = e /\ pc' = "cli" /\ i' = 1 /\ args' = NoArgs /\ err' = "none"
      /\ given' = [cli |-> o, file |-> <<>>]
  BY DEF Enter, Goto
<1>1. /\ agent' \in [env : BOOLEAN, server : Values, connected : Values]
      /\ agent'.server = agent.server /\ agent'.connected = agent.connected
  BY DEF Enter, StartInv, TypeOK
<1> USE DEF StartInv
<1>2. TypeOK'
  <2>1. args' \in [Names -> Values]
    BY <1>0, ValueFacts DEF NoArgs
  <2>2. vm' \in {"starting", "running", "refused", "dead"} /\ jvmti' \subseteq Fallible
    BY <1>0 DEF TypeOK
  <2>3. /\ level' \in [Loggers -> LogLevels \cup {Unset}]
        /\ at' \in [LogThreads -> {"idle", "stdout", "file", "failed", "report"}]
    BY <1>0 DEF TypeOK
  <2>4. entry' \in {"none", "load", "attach"} /\ i' \in Nat \ {0}
    BY <1>0
  <2>5. pc' = "cli"
    BY <1>0
  <2> QED BY <1>1, <2>1, <2>2, <2>3, <2>4, <2>5 DEF TypeOK
<1>3. OptionsInv'
  BY <1>0 DEF OptionsInv, Options
<1>4. EntryInv' /\ ArgsInv'
  BY <1>0 DEF EntryInv, ArgsInv, Parse, Register, Initialize
<1>5. LoggersInv'
  <2>1. pc = "idle"
    BY DEF EntryInv
  <2> QED BY <1>0, <1>1, <2>1 DEF LoggersInv, Initialize
<1>6. StepsInv' /\ AgentInv'
  <2>1. pc = "idle"
    BY DEF EntryInv
  <2> QED BY <1>0, <1>1, <2>1 DEF StepsInv, AgentInv
<1>7. Ready' /\ DeathExplained'
  BY <1>0 DEF Ready, DeathExplained
<1> QED BY <1>2, <1>3, <1>4, <1>5, <1>6, <1>7

LEMMA OnLoadKeeps == StartInv /\ OnLoad => StartInv'
<1> SUFFICES ASSUME StartInv, OnLoad PROVE StartInv'
  OBVIOUS
<1>1. PICK o \in CommandLines : Enter("load", o)
  BY DEF OnLoad
<1>2. attached' \in 0..MaxAttach
  BY DEF OnLoad, StartInv, TypeOK
<1>3. entry = "none" /\ vm = "starting" /\ vm' = vm /\ jvmti' = jvmti /\ level' = level /\ at' = at
  BY DEF OnLoad, logVars
<1> QED BY <1>1, <1>2, <1>3, EnterKeeps DEF Options

LEMMA OnAttachKeeps == StartInv /\ OnAttach => StartInv'
<1> SUFFICES ASSUME StartInv, OnAttach PROVE StartInv'
  OBVIOUS
<1>1. PICK o \in AttachOptions : Enter("attach", o)
  BY DEF OnAttach
<1>2. attached' \in 0..MaxAttach
  <2>1. attached \in 0..MaxAttach /\ attached < MaxAttach /\ attached' = attached + 1
    BY DEF OnAttach, StartInv, TypeOK
  <2>2. MaxAttach \in Nat
    BY StartAssumption
  <2> QED BY <2>1, <2>2
<1>3. entry = "none" /\ vm = "running" /\ vm' = vm /\ jvmti' = jvmti /\ level' = level /\ at' = at
  BY DEF OnAttach, logVars
<1> QED BY <1>1, <1>2, <1>3, EnterKeeps DEF Options

-------------------------------------------------------------------------------
\* The parser.

\* A piece of the options is taken into args, or refused with a message.
LEMMA PairKeeps ==
  ASSUME StartInv, NEW p \in Pairs, SplitArgumentPair(p)
  PROVE  /\ i' \in Nat \ {0} /\ args' \in [Names -> Values]
         /\ \/ pc' = pc /\ err' = err
            \/ pc' = "sinks" /\ err' # "none"
<1>0. i \in Nat \ {0} /\ i + 1 \in Nat \ {0} /\ args \in [Names -> Values]
  BY DEF StartInv, TypeOK
<1>1. Empty # Malformed /\ {"malformed", "duplicate"} \cap {"none"} = {}
  BY DEF Empty, Malformed
<1>2. CASE i' = i + 1 /\ UNCHANGED <<pc, args, err>>
  BY <1>0, <1>2
<1>3. CASE p \in {Empty, Malformed} /\ ~(i' = i + 1 /\ UNCHANGED <<pc, args, err>>)
  <2>1. Refuse("malformed") /\ UNCHANGED args
    BY <1>3, Zenon DEF SplitArgumentPair
  <2> QED BY <1>0, <1>1, <2>1 DEF Refuse, Goto
<1>4. CASE p \notin {Empty, Malformed} /\ IsSet(p[1])
  <2>1. Refuse("duplicate") /\ UNCHANGED args
    BY <1>4, Zenon DEF SplitArgumentPair
  <2> QED BY <1>0, <1>1, <2>1 DEF Refuse, Goto
<1>5. CASE p \notin {Empty, Malformed} /\ ~IsSet(p[1])
  <2>1. /\ args' = [args EXCEPT ![p[1]] = p[2]]
        /\ i' = i + 1 /\ UNCHANGED <<pc, err>>
    BY <1>5, Zenon DEF SplitArgumentPair
  <2> QED BY <1>0, <1>5, <2>1, PairFacts
<1> QED BY <1>2, <1>3, <1>4, <1>5

LEMMA ParseCLIKeeps == StartInv /\ ParseCLI => StartInv'
<1> SUFFICES ASSUME StartInv, ParseCLI PROVE StartInv'
  OBVIOUS
<1>0. /\ pc = "cli" /\ At(pc) /\ pc \in Parse /\ err = "none" /\ Kept /\ entry' = entry
      /\ given \in [cli : Options, file : Options] /\ i \in Nat \ {0}
      /\ args \in [Names -> Values]
  BY DEF ParseCLI, At, Parsing, Elsewhere, Kept, Parse, StartInv, ArgsInv, OptionsInv, TypeOK
<1> DEFINE o == given.cli
<1>1. o \in Options /\ Len(o) \in Nat /\ \A k \in 1..Len(o) : o[k] \in Pairs
  BY <1>0, OptionFacts
<1>2. \/ i <= Len(o) /\ SplitArgumentPair(o[i]) /\ UNCHANGED given
      \/ /\ i' = 1 /\ args' = args /\ err' = err /\ pc' \in {"lines", "mandatory"}
         /\ given' = given \/ \E f \in ConfigFiles : given' = [given EXCEPT !.file = f]
  BY Zenon DEF ParseCLI, Goto
<1> HIDE DEF o
<1>3. CASE i <= Len(o) /\ SplitArgumentPair(o[i]) /\ UNCHANGED given
  <2>1. i \in 1..Len(o)
    BY <1>0, <1>1, <1>3
  <2>2. o[i] \in Pairs
    BY <1>1, <2>1
  <2>3. /\ i' \in Nat \ {0} /\ args' \in [Names -> Values]
        /\ (pc' = "cli" /\ err' = "none") \/ (pc' = "sinks" /\ err' # "none")
    BY <1>0, <1>3, <2>2, PairKeeps
  <2>4. OptionsInv' /\ ArgsInv'
    BY <1>0, <1>3, <2>3 DEF OptionsInv, ArgsInv, Parse, Register, Initialize
  <2> QED BY <1>0, <2>3, <2>4, ParseKeeps DEF Parse
<1>4. CASE /\ i' = 1 /\ args' = args /\ err' = err /\ pc' \in {"lines", "mandatory"}
           /\ given' = given \/ \E f \in ConfigFiles : given' = [given EXCEPT !.file = f]
  <2>1. given' \in [cli : Options, file : Options]
    <3>1. CASE given' = given
      BY <1>0, <3>1
    <3>2. CASE \E f \in ConfigFiles : given' = [given EXCEPT !.file = f]
      BY <1>0, <3>2 DEF Options
    <3> QED BY <1>4, <3>1, <3>2
  <2>2. OptionsInv' /\ ArgsInv'
    BY <1>0, <1>4, <2>1 DEF OptionsInv, ArgsInv, Parse, Register, Initialize
  <2>3. i' \in Nat \ {0} /\ args' \in [Names -> Values] /\ pc' \in Parse
    BY <1>0, <1>4 DEF Parse
  <2> QED BY <1>0, <2>2, <2>3, ParseKeeps
<1> QED BY <1>2, <1>3, <1>4

LEMMA ParseConfigFileKeeps == StartInv /\ ParseConfigFile => StartInv'
<1> SUFFICES ASSUME StartInv, ParseConfigFile PROVE StartInv'
  OBVIOUS
<1>0. /\ pc = "lines" /\ At(pc) /\ pc \in Parse /\ err = "none" /\ Kept /\ entry' = entry
      /\ given \in [cli : Options, file : Options] /\ i \in Nat \ {0}
      /\ args \in [Names -> Values] /\ UNCHANGED given
  BY DEF ParseConfigFile, At, Parsing, Elsewhere, Kept, Parse, StartInv, ArgsInv, OptionsInv, TypeOK
<1> DEFINE o == given.file
<1>1. o \in Options /\ Len(o) \in Nat /\ \A k \in 1..Len(o) : o[k] \in Pairs
  BY <1>0, OptionFacts
<1>2. \/ i <= Len(o) /\ SplitArgumentPair(o[i])
      \/ i' = 1 /\ args' = args /\ err' = err /\ pc' = "mandatory"
      \/ i' = 1 /\ UNCHANGED args /\ err' = "config_file" /\ pc' = "sinks"
  BY Zenon DEF ParseConfigFile, Goto, Refuse
<1> HIDE DEF o
<1>3. /\ i' \in Nat \ {0} /\ args' \in [Names -> Values]
      /\ (pc' \in {"lines", "mandatory"} /\ err' = "none") \/ (pc' = "sinks" /\ err' # "none")
  <2>1. CASE i <= Len(o) /\ SplitArgumentPair(o[i])
    <3>1. i \in 1..Len(o)
      BY <1>0, <1>1, <2>1
    <3>2. o[i] \in Pairs
      BY <1>1, <3>1
    <3> QED BY <1>0, <2>1, <3>2, PairKeeps
  <2> QED BY <1>0, <1>2, <2>1
<1>4. OptionsInv' /\ ArgsInv'
  BY <1>0, <1>3 DEF OptionsInv, ArgsInv, Parse, Register, Initialize
<1> QED BY <1>0, <1>3, <1>4, ParseKeeps DEF Parse

LEMMA CheckForMandatoryArgsKeeps == StartInv /\ CheckForMandatoryArgs => StartInv'
<1> SUFFICES ASSUME StartInv, CheckForMandatoryArgs PROVE StartInv'
  OBVIOUS
<1>0. /\ pc = "mandatory" /\ At(pc) /\ pc \in Parse /\ err = "none" /\ Kept /\ entry' = entry
      /\ OptionsInv /\ given' = given /\ i \in Nat \ {0} /\ args \in [Names -> Values] /\ args' = args
  BY DEF CheckForMandatoryArgs, At, Parsing, Elsewhere, Kept, Parse, StartInv, ArgsInv, TypeOK
<1>1. \/ pc' = "sinks" /\ i' = 1 /\ err' = "mandatory"
      \/ pc' = "validate" /\ i' = i /\ err' = err /\ (args[ConnectionStr] \in {Unset, "ipc"} => IsSet(MainClass))
  BY DEF CheckForMandatoryArgs, Refuse, Goto
<1>2. OptionsInv'
  BY <1>0 DEF OptionsInv
<1>3. ArgsInv'
  BY <1>0, <1>1 DEF ArgsInv, Parse, Register, Initialize, IsSet
<1>4. i' \in Nat \ {0} /\ args' \in [Names -> Values] /\ pc' \in Parse \cup {"sinks"}
  BY <1>0, <1>1 DEF Parse
<1> QED BY <1>0, <1>2, <1>3, <1>4, ParseKeeps

LEMMA ValidateArgsKeeps == StartInv /\ ValidateArgs => StartInv'
<1> SUFFICES ASSUME StartInv, ValidateArgs PROVE StartInv'
  OBVIOUS
<1>0. /\ pc = "validate" /\ At(pc) /\ pc \in Parse /\ err = "none" /\ Kept /\ entry' = entry
      /\ OptionsInv /\ given' = given /\ i \in Nat \ {0} /\ args \in [Names -> Values] /\ args' = args
      /\ (args[ConnectionStr] \in {Unset, "ipc"} => IsSet(MainClass))
  BY DEF ValidateArgs, At, Parsing, Elsewhere, Kept, Parse, StartInv, ArgsInv, TypeOK
<1>1. \/ pc' = "sinks" /\ i' = 1 /\ err' # "none"
      \/ pc' = "defaults" /\ i' = i /\ err' = err /\ args[LogLevel] \in LogLevels \cup {Unset}
  BY DEF ValidateArgs, Refuse, Goto, IsSet, IsValidLogLevel
<1>2. OptionsInv'
  BY <1>0 DEF OptionsInv
<1>3. ArgsInv'
  BY <1>0, <1>1 DEF ArgsInv, Parse, Register, Initialize, IsSet
<1>4. i' \in Nat \ {0} /\ args' \in [Names -> Values] /\ pc' \in Parse \cup {"sinks"}
  BY <1>0, <1>1 DEF Parse
<1> QED BY <1>0, <1>2, <1>3, <1>4, ParseKeeps

\* There is no current directory: the log level is filled in, and the JVM is dead.
LEMMA NoDirectoryKeeps ==
  ASSUME StartInv, At("defaults"), Throw, ~IsSet(LogDir), err' = err, Elsewhere,
         args' = [args EXCEPT ![LogLevel] = Filled(LogLevel)]
  PROVE  StartInv'
<1>0. /\ pc = "defaults" /\ vm' = "dead" /\ UNCHANGED <<entry, pc, i, given>> /\ err = "none"
      /\ UNCHANGED <<jvmti, agent, attached, level, at>> /\ args \in [Names -> Values]
      /\ (args[ConnectionStr] \in {Unset, "ipc"} => IsSet(MainClass))
      /\ args[LogLevel] \in LogLevels \cup {Unset}
  BY DEF At, Throw, Elsewhere, logVars, StartInv, TypeOK, ArgsInv, Parse
<1>1. /\ args' \in [Names -> Values] /\ args'[LogLevel] \in LogLevels
      /\ \A n \in {LogDir, ConnectionStr, MainClass} : args'[n] = args[n]
  BY <1>0, ArgNames, ValueFacts, DefaultFacts DEF Filled, IsSet
<1> USE DEF StartInv
<1>2. TypeOK' /\ OptionsInv' /\ EntryInv'
  BY <1>0, <1>1 DEF TypeOK, OptionsInv, EntryInv
<1>3. ArgsInv'
  BY <1>0, <1>1 DEF ArgsInv, Parse, Register, Initialize, IsSet
<1>4. LoggersInv' /\ StepsInv' /\ AgentInv'
  BY <1>0 DEF LoggersInv, StepsInv, AgentInv, Initialize
<1>5. Ready' /\ DeathExplained'
  BY <1>0, <1>1 DEF Ready, Live, DeathExplained, IsSet
<1> QED BY <1>2, <1>3, <1>4, <1>5

\* Without options there is nothing to parse.
LEMMA NoOptionsStringKeeps == StartInv /\ NoOptionsString => StartInv'
<1> SUFFICES ASSUME StartInv, NoOptionsString PROVE StartInv'
  OBVIOUS
<1>1. DeathExplained'
  BY DEF NoOptionsString, At, Throw, DeathExplained
<1> QED BY <1>1, ThrowKeeps DEF NoOptionsString, Elsewhere, logVars

LEMMA FillMissingWithDefaultsKeeps == StartInv /\ FillMissingWithDefaults => StartInv'
<1> SUFFICES ASSUME StartInv, FillMissingWithDefaults PROVE StartInv'
  OBVIOUS
<1>1. CASE Throw
  BY <1>1, NoDirectoryKeeps DEF FillMissingWithDefaults, Throw, At, Goto
<1> SUFFICES ASSUME /\ args' = [n \in Names |-> Filled(n)]
                    /\ pc' = IF IsSet(ClassOutputDir) THEN "address" ELSE "classdir"
                    /\ UNCHANGED <<vm, entry, given, i>>
             PROVE  StartInv'
  BY <1>1 DEF FillMissingWithDefaults, Goto
<1>2. /\ pc = "defaults" /\ At(pc) /\ pc \in Parse /\ err = "none" /\ Kept /\ entry' = entry
      /\ OptionsInv /\ given' = given /\ i \in Nat \ {0} /\ args \in [Names -> Values]
      /\ (args[ConnectionStr] \in {Unset, "ipc"} => IsSet(MainClass))
      /\ args[LogLevel] \in LogLevels \cup {Unset}
  BY DEF FillMissingWithDefaults, At, Parsing, Elsewhere, Kept, Parse, StartInv, ArgsInv, TypeOK
<1>3. /\ args' = [n \in Names |-> IF IsSet(n) THEN args[n] ELSE Default[n]]
      /\ pc' = IF IsSet(ClassOutputDir) THEN "address" ELSE "classdir"
      /\ i' = i /\ err' = err
  BY DEF FillMissingWithDefaults, Goto, Filled
<1>4. OptionsInv'
  BY <1>2 DEF OptionsInv
<1>5. /\ args' \in [Names -> Values]
      /\ args'[LogLevel] \in LogLevels
      /\ \A n \in {LogDir, ServerCp, ConnectionStr, Exporter} : args'[n] # Unset
      /\ \A n \in {MainClass, ClassOutputDir} : IsSet(n) => args'[n] # Unset
      /\ args'[ConnectionStr] = "ipc" => args[ConnectionStr] \in {Unset, "ipc"}
  BY <1>2, <1>3, ArgNames, ValueFacts, DefaultFacts DEF IsSet
<1>6. ArgsInv'
  BY <1>2, <1>3, <1>5 DEF ArgsInv, Defaulted, Parse, Register, Initialize, IsSet
<1>7. i' \in Nat \ {0} /\ pc' \in Parse \cup {"sinks"}
  BY <1>2, <1>3 DEF Parse
<1> QED BY <1>2, <1>4, <1>5, <1>6, <1>7, ParseKeeps

\* A directory is made: the argument is set, another name is tried, or the JVM is gone.
LEMMA DirectoryCases ==
  ASSUME StartInv, NEW n \in Names, NEW v \in Values, NEW next, CreateUniqueTempDir(n, v, next)
  PROVE  /\ args' \in [Names -> Values]
         /\ \/ Throw /\ args' = args
            \/ /\ vm' = vm /\ entry' = entry /\ given' = given /\ i' \in Nat \ {0}
               /\ \/ args' = [args EXCEPT ![n] = v] /\ pc' = next
                  \/ args' = args /\ pc' = pc
<1>0. i \in Nat \ {0} /\ i + 1 \in Nat \ {0} /\ args \in [Names -> Values]
  BY DEF StartInv, TypeOK
<1> QED BY <1>0 DEF CreateUniqueTempDir, Goto

LEMMA FillClassOutputDirKeeps == StartInv /\ FillClassOutputDir => StartInv'
<1> SUFFICES ASSUME StartInv, FillClassOutputDir PROVE StartInv'
  OBVIOUS
<1>0. /\ pc = "classdir" /\ At(pc) /\ pc \in Parse /\ err = "none"
      /\ OptionsInv /\ args \in [Names -> Values]
      /\ Defaulted /\ (args[ConnectionStr] = "ipc" => IsSet(MainClass))
      /\ err' = err /\ UNCHANGED <<reported, jvmti, agent, attached, logVars>>
  BY DEF FillClassOutputDir, Elsewhere, At, Parse, StartInv, ArgsInv, TypeOK
<1>1. /\ args' \in [Names -> Values]
      /\ \/ Throw /\ args' = args
         \/ /\ vm' = vm /\ entry' = entry /\ given' = given /\ i' \in Nat \ {0}
            /\ \/ args' = [args EXCEPT ![ClassOutputDir] = "temp"] /\ pc' = "address"
               \/ args' = args /\ pc' = pc
  BY ArgNames, ValueFacts, DirectoryCases DEF FillClassOutputDir
<1>2. CASE Throw /\ args' = args
  <2>1. DeathExplained'
    BY <1>0, <1>2 DEF DeathExplained, Throw
  <2> QED BY <1>0, <1>2, <2>1, ThrowKeeps DEF logVars
<1>3. CASE /\ vm' = vm /\ entry' = entry /\ given' = given /\ i' \in Nat \ {0}
           /\ args' = args /\ pc' = pc
  <2>1. OptionsInv'
    BY <1>0, <1>3 DEF OptionsInv
  <2>2. ArgsInv'
    BY <1>0, <1>3 DEF ArgsInv, Defaulted, Parse, Register, Initialize, IsSet
  <2> QED BY <1>0, <1>1, <1>3, <2>1, <2>2, ParseKeeps DEF Kept
<1>4. CASE /\ vm' = vm /\ entry' = entry /\ given' = given /\ i' \in Nat \ {0}
           /\ args' = [args EXCEPT ![ClassOutputDir] = "temp"] /\ pc' = "address"
  <2>1. OptionsInv'
    BY <1>0, <1>4 DEF OptionsInv
  <2>2. /\ args'[ClassOutputDir] # Unset
        /\ \A n \in {LogDir, LogLevel, ServerCp, ConnectionStr, Exporter, MainClass} :
             args'[n] = args[n]
    BY <1>0, <1>4, ArgNames, ValueFacts
  <2>3. ArgsInv'
    BY <1>0, <1>4, <2>2 DEF ArgsInv, Defaulted, Parse, Register, Initialize, IsSet
  <2> QED BY <1>0, <1>1, <1>4, <2>1, <2>3, ParseKeeps DEF Kept, Parse
<1> QED BY <1>1, <1>2, <1>3, <1>4

LEMMA ConnectionStrToNanomsgAddrKeeps == StartInv /\ ConnectionStrToNanomsgAddr => StartInv'
<1> SUFFICES ASSUME StartInv, ConnectionStrToNanomsgAddr PROVE StartInv'
  OBVIOUS
<1>0. /\ pc = "address" /\ At(pc) /\ pc \in Parse /\ err = "none"
      /\ OptionsInv /\ args \in [Names -> Values] /\ i \in Nat \ {0}
      /\ Defaulted /\ (args[ConnectionStr] = "ipc" => IsSet(MainClass)) /\ IsSet(ClassOutputDir)
      /\ err' = err /\ UNCHANGED <<reported, jvmti, agent, attached, logVars>>
  BY DEF ConnectionStrToNanomsgAddr, Elsewhere, At, Parse, StartInv, ArgsInv, TypeOK
<1>1. /\ args' \in [Names -> Values]
      /\ \/ Throw /\ args' = args
         \/ /\ vm' = vm /\ entry' = entry /\ given' = given /\ i' \in Nat \ {0}
            /\ \/ pc' = "sinks" /\ args' = [args EXCEPT ![ConnectionStr] = "ipc://"] /\ args[ConnectionStr] = "ipc"
               \/ pc' = "sinks" /\ args' = [args EXCEPT ![ConnectionStr] = "tcp://"]
               \/ args' = args /\ pc' = pc
  <2>1. CASE args[ConnectionStr] = "ipc"
    <3>1. CreateUniqueTempDir(ConnectionStr, "ipc://", "sinks")
      BY <2>1 DEF ConnectionStrToNanomsgAddr
    <3> QED BY <2>1, <3>1, ArgNames, ValueFacts, DirectoryCases
  <2>2. CASE args[ConnectionStr] # "ipc"
    BY <1>0, <2>2, ArgNames, ValueFacts DEF ConnectionStrToNanomsgAddr, Goto
  <2> QED BY <2>1, <2>2
<1>2. CASE Throw /\ args' = args
  <2>1. DeathExplained'
    BY <1>0, <1>2 DEF DeathExplained, Throw
  <2> QED BY <1>0, <1>2, <2>1, ThrowKeeps DEF logVars
<1>3. CASE /\ vm' = vm /\ entry' = entry /\ given' = given /\ i' \in Nat \ {0}
           /\ args' = args /\ pc' = pc
  <2>1. OptionsInv'
    BY <1>0, <1>3 DEF OptionsInv
  <2>2. ArgsInv'
    BY <1>0, <1>3 DEF ArgsInv, Defaulted, Parse, Register, Initialize, IsSet
  <2> QED BY <1>0, <1>1, <1>3, <2>1, <2>2, ParseKeeps DEF Kept
<1>4. CASE /\ vm' = vm /\ entry' = entry /\ given' = given /\ i' \in Nat \ {0}
           /\ pc' = "sinks"
           /\ \/ args' = [args EXCEPT ![ConnectionStr] = "ipc://"] /\ args[ConnectionStr] = "ipc"
              \/ args' = [args EXCEPT ![ConnectionStr] = "tcp://"]
  <2>1. OptionsInv'
    BY <1>0, <1>4 DEF OptionsInv
  <2>2. /\ args'[ConnectionStr] # Unset
        /\ args'[ConnectionStr] = "ipc://" => args[ConnectionStr] = "ipc"
        /\ \A n \in {LogDir, LogLevel, ServerCp, Exporter, MainClass, ClassOutputDir} :
             args'[n] = args[n]
    BY <1>0, <1>4, ArgNames, ValueFacts
  <2>3. ArgsInv'
    BY <1>0, <1>4, <2>2 DEF ArgsInv, Defaulted, Parse, Register, Initialize, IsSet, IsRunningInLocalMode
  <2> QED BY <1>0, <1>1, <1>4, <2>1, <2>3, ParseKeeps DEF Kept, Parse
<1> QED BY <1>1, <1>2, <1>3, <1>4

-------------------------------------------------------------------------------
\* The loggers.

\* A step of the registration, which goes to its next place and changes no more than the levels.
LEMMA RegisterKeeps ==
  ASSUME StartInv, At(pc), pc \in {"sinks", "open", "register", "setlevel"}, pc' \in Register,
         vm' = vm, entry' = entry, given' = given, args' = args, err' = err, jvmti' = jvmti,
         agent' = agent, attached' = attached, at' = at, i' \in Nat \ {0},
         pc' \in {"register", "setlevel", "verdict"} => i' = 1,
         level' \in [Loggers -> LogLevels \cup {Unset}], LoggersInv'
  PROVE  StartInv'
<1> USE DEF StartInv
<1>0. vm \in {"starting", "running"} /\ pc # "idle" /\ entry \in {"load", "attach"}
  BY DEF At, EntryInv, TypeOK
<1>1. TypeOK'
  BY DEF TypeOK, Register
<1>2. OptionsInv' /\ EntryInv'
  BY <1>0 DEF OptionsInv, EntryInv, Register, Initialize
<1>3. ArgsInv'
  BY DEF ArgsInv, Defaulted, Parse, Register, Initialize, IsSet, IsRunningInLocalMode
<1>4. StepsInv'
  BY DEF StepsInv, Register
<1>5. AgentInv'
  BY DEF AgentInv, Register
<1>6. Ready' /\ DeathExplained'
  BY <1>0 DEF Ready, DeathExplained
<1> QED BY <1>1, <1>2, <1>3, <1>4, <1>5, <1>6

\* What a change of the levels leaves alone.
LEMMA LevelFacts ==
  ASSUME NEW new, OnlyLevel(new)
  PROVE  /\ level' = new /\ args' = args /\ err' = err /\ jvmti' = jvmti
         /\ agent' = agent /\ attached' = attached /\ at' = at
BY DEF OnlyLevel

LEMMA CreateSinksKeeps == StartInv /\ CreateSinks => StartInv'
<1> SUFFICES ASSUME StartInv, CreateSinks PROVE StartInv'
  OBVIOUS
<1> DEFINE new == [l \in Loggers |-> IF Registered(l) THEN "error" ELSE Unset]
<1>0. /\ pc = "sinks" /\ At(pc) /\ i \in Nat \ {0}
      /\ level \in [Loggers -> LogLevels \cup {Unset}] /\ ArgsInv /\ LoggersInv
  BY DEF CreateSinks, At, StartInv, TypeOK
<1>1. /\ level' = new /\ args' = args /\ err' = err /\ jvmti' = jvmti
      /\ agent' = agent /\ attached' = attached /\ at' = at
  BY LevelFacts DEF CreateSinks
<1>2. /\ new \in [Loggers -> LogLevels \cup {Unset}]
      /\ \A l \in Loggers : new[l] = Unset <=> level[l] = Unset
  BY <1>0, ValueFacts DEF Registered
<1> HIDE DEF new
<1>3. CASE Throw /\ (~IsSet(LogDir) \/ Fails("directories"))
  <2>1. LoggersInv'
    BY <1>0, <1>1, <1>2, <1>3 DEF LoggersInv, Initialize, Throw
  <2>2. DeathExplained'
    <3>1. ~IsSet(LogDir) => err # "none"
      BY <1>0 DEF ArgsInv, Register, Defaulted
    <3> QED BY <1>0, <1>1, <1>3, <3>1 DEF DeathExplained, Throw, IsSet
  <2> QED BY <1>1, <1>2, <1>3, <2>1, <2>2, ThrowKeeps
<1>4. CASE IsSet(LogDir) /\ pc' = "open" /\ vm' = vm /\ entry' = entry /\ i' = i /\ given' = given
  <2>1. LoggersInv'
    BY <1>0, <1>1, <1>2, <1>4 DEF LoggersInv, Initialize
  <2> QED BY <1>0, <1>1, <1>2, <1>4, <2>1, RegisterKeeps DEF Register
<1> QED BY <1>3, <1>4 DEF CreateSinks, Goto

LEMMA OpenLogFileKeeps == StartInv /\ OpenLogFile => StartInv'
<1> SUFFICES ASSUME StartInv, OpenLogFile PROVE StartInv'
  OBVIOUS
<1>0. /\ pc = "open" /\ At(pc) /\ i \in Nat \ {0} /\ i + 1 \in Nat \ {0}
      /\ level \in [Loggers -> LogLevels \cup {Unset}] /\ LoggersInv
  BY DEF OpenLogFile, At, StartInv, TypeOK
<1>1. /\ args' = args /\ err' = err /\ jvmti' = jvmti /\ agent' = agent /\ attached' = attached
      /\ at' = at /\ level' = level
  BY DEF OpenLogFile
<1>2. CASE Throw /\ i >= OpenTries
  <2>1. DeathExplained'
    BY <1>0, <1>2 DEF DeathExplained, Throw
  <2> QED BY <1>1, <1>2, <2>1, ThrowKeeps
<1>3. CASE /\ vm' = vm /\ entry' = entry /\ given' = given
           /\ \/ pc' = "register" /\ i' = 1
              \/ pc' = "open" /\ i' = i + 1
  <2>1. LoggersInv'
    BY <1>0, <1>1, <1>3 DEF LoggersInv, Initialize
  <2>2. pc' \in Register /\ i' \in Nat \ {0} /\ (pc' \in {"register", "setlevel", "verdict"} => i' = 1)
    BY <1>0, <1>3 DEF Register
  <2> QED BY <1>0, <1>1, <1>3, <2>1, <2>2, RegisterKeeps
<1>4. \/ Throw /\ i >= OpenTries
      \/ /\ vm' = vm /\ entry' = entry /\ given' = given
         /\ \/ pc' = "register" /\ i' = 1
            \/ pc' = "open" /\ i' = i + 1
  BY <1>0 DEF OpenLogFile, Goto
<1> QED BY <1>2, <1>3, <1>4

LEMMA RegisterLoggersKeeps == StartInv /\ RegisterLoggers => StartInv'
<1> SUFFICES ASSUME StartInv, RegisterLoggers PROVE StartInv'
  OBVIOUS
<1> DEFINE new == [l \in Loggers |-> "info"]
<1>0. /\ pc = "register" /\ At(pc) /\ i = 1 /\ vm \in {"starting", "running"}
      /\ entry \in {"none", "load", "attach"}
      /\ level \in [Loggers -> LogLevels \cup {Unset}] /\ LoggersInv /\ EntryInv
  BY DEF RegisterLoggers, At, StartInv, TypeOK, StepsInv
<1>1. CASE \E l \in Loggers : Registered(l)
  <2>1. Throw /\ OnlyLevel(level)
    BY <1>1 DEF RegisterLoggers
  <2>2. entry = "attach"
    BY <1>0, <1>1 DEF LoggersInv, EntryInv, Registered, Initialize
  <2>3. DeathExplained'
    BY <1>0, <2>1, <2>2 DEF DeathExplained, Throw
  <2> QED BY <2>1, <2>3, LevelFacts, ThrowKeeps
<1>2. CASE \A l \in Loggers : ~Registered(l)
  <2>1. /\ pc' = "setlevel" /\ vm' = vm /\ entry' = entry /\ i' = i /\ given' = given
        /\ OnlyLevel(new)
    BY <1>2 DEF RegisterLoggers, Goto
  <2> HIDE DEF new
  <2>2. level' = new /\ agent' = agent
    BY <2>1, LevelFacts
  <2>3. new \in [Loggers -> LogLevels \cup {Unset}]
    BY ValueFacts DEF new
  <2>4. agent.connected = Unset
    BY <1>0, <1>2, LoggingAssumption DEF LoggersInv, Registered
  <2>5. LoggersInv'
    BY <2>1, <2>2, <2>4 DEF LoggersInv, Initialize
  <2>6. pc' \in Register /\ i' = 1 /\ i' \in Nat \ {0}
    BY <1>0, <2>1 DEF Register
  <2> QED BY <1>0, <2>1, <2>2, <2>3, <2>5, <2>6, LevelFacts, RegisterKeeps
<1> QED BY <1>1, <1>2

LEMMA SetLogLevelKeeps == StartInv /\ SetLogLevel => StartInv'
<1> SUFFICES ASSUME StartInv, SetLogLevel PROVE StartInv'
  OBVIOUS
<1> DEFINE new == [l \in Loggers |-> args[LogLevel]]
<1>0. /\ pc = "setlevel" /\ At(pc) /\ i = 1 /\ vm \in {"starting", "running"} /\ ArgsInv
      /\ level \in [Loggers -> LogLevels \cup {Unset}] /\ LoggersInv /\ EntryInv
  BY DEF SetLogLevel, At, StartInv, TypeOK, StepsInv
<1>1. CASE IsSet(LogLevel) /\ IsValidLogLevel(args[LogLevel])
  <2>1. /\ pc' = "verdict" /\ vm' = vm /\ entry' = entry /\ i' = i /\ given' = given
        /\ OnlyLevel(new)
    BY <1>1 DEF SetLogLevel, Goto
  <2> HIDE DEF new
  <2>2. level' = new /\ agent' = agent /\ args' = args
    BY <2>1, LevelFacts
  <2>3. /\ new \in [Loggers -> LogLevels \cup {Unset}]
        /\ \A l \in Loggers : new[l] = args[LogLevel] /\ new[l] # Unset
    BY <1>1, ValueFacts DEF new, IsSet, IsValidLogLevel
  <2>4. LoggersInv'
    BY <1>0, <2>1, <2>2, <2>3 DEF LoggersInv, Initialize
  <2>5. pc' \in Register /\ i' = 1 /\ i' \in Nat \ {0}
    BY <1>0, <2>1 DEF Register
  <2> QED BY <1>0, <2>1, <2>2, <2>3, <2>4, <2>5, LevelFacts, RegisterKeeps
<1>2. CASE ~(IsSet(LogLevel) /\ IsValidLogLevel(args[LogLevel]))
  <2>1. Throw /\ OnlyLevel(level)
    BY <1>2 DEF SetLogLevel
  <2>2. err # "none" /\ ~IsValidLogLevel(args[LogLevel])
    BY <1>0, <1>2, ValueFacts DEF ArgsInv, Register, Defaulted, IsSet, IsValidLogLevel
  <2>3. err' # "none" /\ ~IsValidLogLevel(args'[LogLevel])
    BY <2>1, <2>2, LevelFacts
  <2>4. DeathExplained'
    BY <2>3 DEF DeathExplained, IsValidLogLevel
  <2> QED BY <2>1, <2>4, LevelFacts, ThrowKeeps
<1> QED BY <1>1, <1>2

LEMMA VerdictKeeps == StartInv /\ Verdict => StartInv'
<1> SUFFICES ASSUME StartInv, Verdict PROVE StartInv'
  OBVIOUS
<1>0. /\ pc = "verdict" /\ At(pc) /\ vm \in {"starting", "running"} /\ i = 1
      /\ args' = args /\ err' = err /\ jvmti' = jvmti /\ agent' = agent /\ attached' = attached
      /\ level' = level /\ at' = at
  BY DEF Verdict, At, StartInv, StepsInv, logVars
<1>1. CASE Return("err")
  BY <1>0, <1>1, ReturnKeeps
<1>2. CASE /\ err = "none" /\ entry = "load"
           /\ pc' = "jvmti" /\ vm' = vm /\ entry' = entry /\ i' = i /\ given' = given
  <2> USE DEF StartInv
  <2>1. TypeOK' /\ OptionsInv' /\ EntryInv'
    BY <1>0, <1>2 DEF TypeOK, OptionsInv, EntryInv, Initialize
  <2>2. ArgsInv'
    BY <1>0, <1>2 DEF ArgsInv, Defaulted, Parse, Register, Initialize, IsSet, IsRunningInLocalMode
  <2>3. LoggersInv'
    BY <1>0, <1>2 DEF LoggersInv, Initialize
  <2>4. i' \in 1..Len(JvmtiSteps) /\ ~(i' > 1) /\ 1..i' - 1 = {}
    BY <1>0, <1>2, StepsFacts
  <2>5. StepsInv'
    BY <1>0, <1>2, <2>4 DEF StepsInv
  <2>6. AgentInv' /\ Ready' /\ DeathExplained'
    BY <1>0, <1>2 DEF AgentInv, Ready, DeathExplained
  <2> QED BY <2>1, <2>2, <2>3, <2>5, <2>6
<1> QED BY <1>1, <1>2 DEF Verdict, Goto

-------------------------------------------------------------------------------
\* initAgent.

\* A step of initAgent that goes to its next place.
LEMMA InitializeKeeps ==
  ASSUME StartInv, At(pc), pc \in Initialize, pc' \in Initialize,
         vm' = vm, entry' = entry, given' = given, args' = args, err' = err, attached' = attached,
         at' = at, level' = level, i' \in Nat \ {0}, jvmti' \subseteq Fallible,
         agent' \in [env : BOOLEAN, server : Values, connected : Values],
         StepsInv', AgentInv'
  PROVE  StartInv'
<1> USE DEF StartInv
<1>0. vm = "starting" /\ entry = "load"
  BY DEF At, EntryInv
<1>1. TypeOK'
  BY DEF TypeOK, Initialize
<1>2. OptionsInv' /\ EntryInv'
  BY <1>0 DEF OptionsInv, EntryInv, Initialize
<1>3. ArgsInv'
  BY DEF ArgsInv, Defaulted, Parse, Register, Initialize, IsSet, IsRunningInLocalMode
<1>4. LoggersInv'
  BY <1>0 DEF LoggersInv, AgentInv, Initialize
<1>5. Ready' /\ DeathExplained'
  BY <1>0 DEF Ready, DeathExplained
<1> QED BY <1>1, <1>2, <1>3, <1>4, <1>5

LEMMA JvmtiKeeps == StartInv /\ Jvmti => StartInv'
<1> SUFFICES ASSUME StartInv, Jvmti PROVE StartInv'
  OBVIOUS
<1> DEFINE step == JvmtiSteps[i]
<1>0. /\ pc = "jvmti" /\ At(pc) /\ pc \in Initialize
      /\ args' = args /\ err' = err /\ attached' = attached /\ level' = level /\ at' = at
      /\ i \in 1..Len(JvmtiSteps) /\ i \in Nat \ {0} /\ i + 1 \in Nat \ {0} /\ jvmti \subseteq Fallible
      /\ StepsInv /\ AgentInv /\ vm = "starting"
      /\ agent \in [env : BOOLEAN, server : Values, connected : Values]
  BY DEF Jvmti, At, Initialize, StartInv, TypeOK, StepsInv, EntryInv, logVars
<1>1. CASE Return("err") /\ UNCHANGED <<jvmti, agent>>
  BY <1>0, <1>1, ReturnKeeps
<1>2. CASE /\ jvmti' = jvmti \cup {step} /\ agent' = [agent EXCEPT !.env = TRUE]
           /\ vm' = vm /\ entry' = entry /\ given' = given
           /\ \/ i < Len(JvmtiSteps) /\ i' = i + 1 /\ pc' = "jvmti"
              \/ ~(i < Len(JvmtiSteps)) /\ i' = 1 /\ pc' = "launch"
  <2>1. step \in Fallible /\ step \in {JvmtiSteps[k] : k \in 1..Len(JvmtiSteps)}
    BY <1>0 DEF Fallible
  <2>2. /\ agent' \in [env : BOOLEAN, server : Values, connected : Values]
        /\ agent'.env /\ agent'.server = agent.server /\ agent'.connected = agent.connected
    BY <1>0, <1>2
  <2>3. \A k \in 1..i : JvmtiSteps[k] \in jvmti'
    BY <1>0, <1>2 DEF StepsInv
  <2> HIDE DEF step
  <2>4. StepsInv'
    <3>1. CASE i < Len(JvmtiSteps) /\ i' = i + 1 /\ pc' = "jvmti"
      <4>1. i' \in 1..Len(JvmtiSteps) /\ i' - 1 = i
        BY <1>0, <3>1, StepsFacts
      <4> QED BY <1>0, <1>2, <2>1, <2>2, <2>3, <3>1, <4>1 DEF StepsInv
    <3>2. CASE ~(i < Len(JvmtiSteps)) /\ i' = 1 /\ pc' = "launch"
      <4>1. i = Len(JvmtiSteps)
        BY <1>0, <3>2, StepsFacts
      <4> QED BY <1>0, <1>2, <2>1, <2>2, <2>3, <3>2, <4>1 DEF StepsInv
    <3> QED BY <1>2, <3>1, <3>2
  <2>5. AgentInv'
    BY <1>0, <1>2, <2>2 DEF AgentInv
  <2>6. i' \in Nat \ {0} /\ pc' \in Initialize /\ jvmti' \subseteq Fallible
    BY <1>0, <1>2, <2>1 DEF Initialize
  <2> QED BY <1>0, <1>2, <2>2, <2>4, <2>5, <2>6, InitializeKeeps
<1>3. \/ Return("err") /\ UNCHANGED <<jvmti, agent>>
      \/ /\ jvmti' = jvmti \cup {step} /\ agent' = [agent EXCEPT !.env = TRUE]
         /\ vm' = vm /\ entry' = entry /\ given' = given
         /\ \/ i < Len(JvmtiSteps) /\ i' = i + 1 /\ pc' = "jvmti"
            \/ ~(i < Len(JvmtiSteps)) /\ i' = 1 /\ pc' = "launch"
  BY Zenon DEF Jvmti, Goto
<1> QED BY <1>1, <1>2, <1>3

LEMMA LaunchKeeps == StartInv /\ Launch => StartInv'
<1> SUFFICES ASSUME StartInv, Launch PROVE StartInv'
  OBVIOUS
<1>0. /\ pc = "launch" /\ At(pc) /\ pc \in Initialize
      /\ args' = args /\ err' = err /\ attached' = attached /\ level' = level /\ at' = at
      /\ jvmti' = jvmti /\ i \in Nat \ {0} /\ jvmti \subseteq Fallible
      /\ StepsInv /\ AgentInv /\ ArgsInv /\ vm = "starting" /\ args \in [Names -> Values]
      /\ agent \in [env : BOOLEAN, server : Values, connected : Values]
  BY DEF Launch, At, Initialize, StartInv, TypeOK, EntryInv, logVars
<1>1. CASE Return("err") /\ UNCHANGED agent
  BY <1>0, <1>1, ReturnKeeps
<1>2. CASE Throw /\ UNCHANGED agent /\ IsRunningInLocalMode /\ \E n \in LaunchNeeds : ~IsSet(n)
  <2>1. \A n \in LaunchNeeds \ {ServerJar} : IsSet(n)
    BY <1>0, <1>2, ValueFacts DEF ArgsInv, Initialize, Defaulted, LaunchNeeds, IsSet
  <2>2. DeathExplained'
    BY <1>0, <1>2, <2>1 DEF DeathExplained, Throw, IsSet, IsRunningInLocalMode
  <2> QED BY <1>0, <1>2, <2>2, ThrowKeeps
<1>3. CASE /\ pc' = "connect" /\ vm' = vm /\ entry' = entry /\ i' = i /\ given' = given
           /\ \/ ~IsRunningInLocalMode /\ agent' = agent
              \/ IsRunningInLocalMode /\ agent' = [agent EXCEPT !.server = args[ConnectionStr]]
  <2>1. args[ConnectionStr] \in Values
    BY <1>0, ArgNames
  <2>2. /\ agent' \in [env : BOOLEAN, server : Values, connected : Values]
        /\ agent'.env = agent.env /\ agent'.connected = Unset
        /\ agent'.server = IF IsRunningInLocalMode THEN args[ConnectionStr] ELSE Unset
    BY <1>0, <1>3, <2>1 DEF AgentInv
  <2>3. StepsInv'
    BY <1>0, <1>3, <2>2 DEF StepsInv
  <2>4. AgentInv'
    BY <1>0, <1>3, <2>2 DEF AgentInv, IsRunningInLocalMode
  <2>5. i' \in Nat \ {0} /\ pc' \in Initialize /\ jvmti' \subseteq Fallible
    BY <1>0, <1>3 DEF Initialize
  <2> QED BY <1>0, <1>3, <2>2, <2>3, <2>4, <2>5, InitializeKeeps
<1>4. \/ Return("err") /\ UNCHANGED agent
      \/ Throw /\ UNCHANGED agent /\ IsRunningInLocalMode /\ \E n \in LaunchNeeds : ~IsSet(n)
      \/ /\ pc' = "connect" /\ vm' = vm /\ entry' = entry /\ i' = i /\ given' = given
         /\ \/ ~IsRunningInLocalMode /\ agent' = agent
            \/ IsRunningInLocalMode /\ agent' = [agent EXCEPT !.server = args[ConnectionStr]]
  BY Zenon DEF Launch, Goto
<1> QED BY <1>1, <1>2, <1>3, <1>4

\* The step that lets the JVM run with the agent.
LEMMA ConnectKeeps == StartInv /\ Connect => StartInv'
<1> SUFFICES ASSUME StartInv, Connect PROVE StartInv'
  OBVIOUS
<1>0. /\ pc = "connect" /\ At(pc) /\ pc \in Initialize /\ args' = args /\ err' = err
      /\ attached' = attached /\ level' = level /\ at' = at /\ jvmti' = jvmti
      /\ args \in [Names -> Values] /\ vm = "starting" /\ entry = "load"
      /\ agent \in [env : BOOLEAN, server : Values, connected : Values]
  BY DEF Connect, At, Initialize, StartInv, TypeOK, EntryInv, logVars
<1>1. CASE Return("err") /\ UNCHANGED agent
  BY <1>0, <1>1, ReturnKeeps
<1>2. CASE agent' = [agent EXCEPT !.connected = args[ConnectionStr]] /\ Return("ok")
  <2>1. /\ vm' = "running" /\ entry' = "none" /\ pc' = "idle" /\ i' = 1 /\ given' = NoOptions
    BY <1>2 DEF Return, Goto
  <2>2. args[ConnectionStr] \in Values
    BY <1>0, ArgNames
  <2>3. /\ agent' \in [env : BOOLEAN, server : Values, connected : Values]
        /\ agent'.env = agent.env /\ agent'.server = agent.server
        /\ agent'.connected = args[ConnectionStr]
    BY <1>0, <1>2, <2>2
  <2> USE DEF StartInv
  <2>4. TypeOK' /\ OptionsInv'
    <3>1. OptionsInv'
      BY <2>1 DEF OptionsInv, NoOptions, Options
    <3> QED BY <1>0, <2>1, <2>3, <3>1 DEF TypeOK
  <2>5. EntryInv' /\ ArgsInv'
    BY <2>1 DEF EntryInv, ArgsInv, Parse, Register, Initialize
  <2>6. err = "none" /\ Defaulted /\ IsSet(ClassOutputDir)
    BY <1>0 DEF ArgsInv
  <2>7. \A l \in Loggers : level[l] = args[LogLevel] /\ level[l] # Unset
    BY <1>0, <2>6, ValueFacts DEF LoggersInv, Initialize, Defaulted
  <2>8. LoggersInv'
    BY <1>0, <2>1, <2>7 DEF LoggersInv, Initialize
  <2>9. StepsInv' /\ AgentInv' /\ DeathExplained'
    BY <1>0, <2>1 DEF StepsInv, AgentInv, DeathExplained
  <2>10. Ready'
    <3>1. jvmti = {JvmtiSteps[k] : k \in 1..Len(JvmtiSteps)} /\ agent.env
      BY <1>0 DEF StepsInv
    <3>2. \A n \in {ConnectionStr, LogLevel, LogDir, Exporter, ClassOutputDir} : IsSet(n)
      BY <2>6, ValueFacts DEF Defaulted, IsSet
    <3>3. agent.server = IF IsRunningInLocalMode THEN args[ConnectionStr] ELSE Unset
      BY <1>0 DEF AgentInv
    <3> QED BY <1>0, <2>3, <2>7, <3>1, <3>2, <3>3 DEF Ready, IsSet, IsRunningInLocalMode
  <2> QED BY <2>4, <2>5, <2>8, <2>9, <2>10
<1>3. IsSet(ClassOutputDir)
  BY <1>0 DEF StartInv, ArgsInv
<1> QED BY <1>1, <1>2, <1>3 DEF Connect

-------------------------------------------------------------------------------
\* The other steps, and the theorems.

\* Logging leaves the levels alone.
LEMMA LogKeeps ==
  ASSUME TypeOK, LogNext
  PROVE  level' = level /\ at' \in [LogThreads -> {"idle", "stdout", "file", "failed", "report"}]
<1> DEFINE Places == {"idle", "stdout", "file", "failed", "report"}
<1>0. at \in [LogThreads -> Places]
  BY DEF TypeOK
<1>1. ASSUME NEW t \in LogThreads, NEW from, NEW to \in Places, MoveLog(t, from, to)
      PROVE  at' \in [LogThreads -> Places]
  BY <1>0, <1>1 DEF MoveLog
<1>2. CASE Spill \/ Tick
  BY <1>0, <1>2 DEF Spill, Tick
<1>3. ASSUME NEW t \in LogThreads, LogStep(t)
      PROVE  level' = level /\ at' \in [LogThreads -> Places]
  <2>1. CASE \E l \in Loggers, v \in {"info", "error"} : Log(t, l, v)
    BY <1>0, <1>1, <2>1 DEF Log
  <2>2. CASE StdoutSink(t) \/ FileSink(t) \/ FileFails(t)
    BY <1>1, <2>2 DEF StdoutSink, FileSink, FileFails
  <2>3. CASE SkipReport(t) \/ StartReport(t) \/ Report(t)
    BY <1>1, <2>3 DEF SkipReport, StartReport, Report
  <2> QED BY <1>3, <2>1, <2>2, <2>3 DEF LogStep
<1> QED BY <1>2, <1>3 DEF LogNext

LEMMA LogsKeeps == StartInv /\ Logs => StartInv'
<1> SUFFICES ASSUME StartInv, Logs PROVE StartInv'
  OBVIOUS
<1> USE DEF StartInv
<1>1. level' = level /\ at' \in [LogThreads -> {"idle", "stdout", "file", "failed", "report"}]
  BY LogKeeps DEF Logs
<1>2. UNCHANGED startVars
  BY DEF Logs
<1>3. TypeOK' /\ OptionsInv' /\ EntryInv'
  BY <1>1, <1>2 DEF startVars, TypeOK, OptionsInv, EntryInv
<1>4. ArgsInv'
  BY <1>2 DEF startVars, ArgsInv, Defaulted, IsSet, IsRunningInLocalMode
<1>5. LoggersInv' /\ StepsInv' /\ AgentInv'
  BY <1>1, <1>2 DEF startVars, LoggersInv, StepsInv, AgentInv, IsRunningInLocalMode
<1>6. Ready'
  BY <1>1, <1>2 DEF startVars, Ready, Live, IsSet, IsRunningInLocalMode
<1>7. DeathExplained'
  BY <1>2 DEF startVars, DeathExplained, IsSet, IsValidLogLevel, IsRunningInLocalMode
<1> QED BY <1>3, <1>4, <1>5, <1>6, <1>7

LEMMA StutterKeeps == StartInv /\ UNCHANGED vars => StartInv'
BY DEF vars, startVars, logVars, StartInv, TypeOK, OptionsInv, EntryInv, ArgsInv, Defaulted,
       LoggersInv, StepsInv, AgentInv, Ready, Live, DeathExplained, IsSet, IsValidLogLevel,
       IsRunningInLocalMode

\* StartInv is an inductive invariant of every instance.
THEOREM StartCorrect == Spec => []StartInv
<1>1. StartInv /\ [Next]_vars => StartInv'
  BY OnLoadKeeps, OnAttachKeeps, NoOptionsStringKeeps, ParseCLIKeeps, ParseConfigFileKeeps,
     CheckForMandatoryArgsKeeps,
     ValidateArgsKeeps, FillMissingWithDefaultsKeeps, FillClassOutputDirKeeps,
     ConnectionStrToNanomsgAddrKeeps, CreateSinksKeeps, OpenLogFileKeeps, RegisterLoggersKeeps,
     SetLogLevelKeeps, VerdictKeeps, JvmtiKeeps, LaunchKeeps, ConnectKeeps, LogsKeeps, StutterKeeps
  DEF Next, StartStep
<1> QED BY StartInit, <1>1, PTL DEF Spec

\* Every variable stays in its type: the arguments are values the parser takes or sets, and the
\* number of attachments and the places of the threads are what the code can be at.
THEOREM StartTypes == Spec => []TypeOK
<1>1. StartInv => TypeOK
  BY DEF StartInv
<1> QED BY StartCorrect, <1>1, PTL

\* Whatever the options, the configuration file and the environment are, a JVM in which the agent's
\* callbacks run, and which nobody attaches the agent to again, has had every JVMTI step done, the
\* arguments that are read later set, the loggers at the level asked for, and a connection to the
\* server that was launched.
THEOREM CallbacksReady == Spec => []Ready
<1>1. StartInv => Ready
  BY DEF StartInv
<1> QED BY StartCorrect, <1>1, PTL

\* No other place of Agent_OnLoad and Agent_OnAttach lets an exception out than the ones
\* DeathExplained names.
THEOREM DeathsNamed == Spec => []DeathExplained
<1>1. StartInv => DeathExplained
  BY DEF StartInv
<1> QED BY StartCorrect, <1>1, PTL

-------------------------------------------------------------------------------
\* The option parser, as an invariant of its loops: what it has read and what it knows of it.

\* What the parser has found when it has read the first m pieces of s, of which the first c are from
\* the command line: nothing to refuse, and in args what the names were given.
PickedIn(s, n, m) == {s[k][2] : k \in {k \in 1..m : s[k][1] = n}}
NothingWrong(s, c, m) ==
  /\ \A j, k \in 1..m : s[j] # Empty /\ s[j][1] = s[k][1] => j = k
  /\ \A k \in 1..m : s[k] # Malformed
  /\ \A k \in 1..m : k > c => s[k][1] # ConfigFile
TakenFrom(a, s, m) == \A n \in Names : PickedIn(s, n, m) = {a[n]} \ {Unset}

\* The options as the loops see them, the command line and the file in one: what a name was given,
\* and what is not refused.
AllPairs == given.cli \o given.file
Picked(n) == {AllPairs[k][2] : k \in {k \in 1..Len(AllPairs) : AllPairs[k][1] = n}}
Accepted ==
  /\ OnceEach(AllPairs) /\ \A k \in 1..Len(AllPairs) : AllPairs[k] # Malformed
  /\ \A k \in 1..Len(given.file) : given.file[k][1] # ConfigFile
  /\ Picked(ConnectionStr) \subseteq {"ipc"} => Picked(MainClass) # {}
  /\ "bad" \notin Picked(ConnectionStr) \cup Picked(Exporter)
  /\ Picked(LogLevel) \subseteq LogLevels
Parsed(n) ==
  CASE n = ConnectionStr -> IF Picked(n) \subseteq {"ipc"} THEN "ipc://" ELSE "tcp://"
    [] n = ClassOutputDir /\ Picked(n) = {} -> "temp"
    [] OTHER -> IF Picked(n) = {} THEN Default[n] ELSE CHOOSE v \in Picked(n) : TRUE

\* What was read when all defaults are in args, but for the directory and the address.
PickedOrDefault(n) == IF Picked(n) = {} THEN Default[n] ELSE CHOOSE v \in Picked(n) : TRUE
FilledDirectory(n) == IF n = ClassOutputDir /\ Picked(n) = {} THEN "temp" ELSE PickedOrDefault(n)

\* Where the parser is, what it has read and what it knows of it: the invariant of its loops, and of
\* the checks that follow them.
ReadInv ==
  LET c == Len(given.cli) IN
  /\ pc = "cli" =>
       /\ given.file = <<>> /\ i \in 1..c + 1
       /\ NothingWrong(AllPairs, c, i - 1) /\ TakenFrom(args, AllPairs, i - 1)
  /\ pc = "lines" =>
       /\ i \in 1..Len(given.file) + 1
       /\ NothingWrong(AllPairs, c, c + (i - 1)) /\ TakenFrom(args, AllPairs, c + (i - 1))
  /\ pc \in {"mandatory", "validate", "defaults"} /\ vm # "dead" =>
       NothingWrong(AllPairs, c, Len(AllPairs)) /\ TakenFrom(args, AllPairs, Len(AllPairs))
  /\ pc = "defaults" /\ vm # "dead" => "bad" \notin {args[ConnectionStr], args[Exporter]}
  /\ pc \in {"classdir", "address"} => Accepted
  /\ pc = "classdir" => Picked(ClassOutputDir) = {} /\ \A n \in Names : args[n] = PickedOrDefault(n)
  /\ pc = "address" => \A n \in Names : args[n] = FilledDirectory(n)
  /\ pc = "sinks" =>
       /\ err = "none" <=> Accepted
       /\ err = "none" => \A n \in Names : args[n] = Parsed(n)

-------------------------------------------------------------------------------
\* One more piece.

\* The options in the order in which they are read.
LEMMA PiecesInOrder ==
  ASSUME NEW s \in Options, NEW t \in Options
  PROVE  /\ Len(s) \in Nat /\ Len(t) \in Nat /\ Len(s \o t) = Len(s) + Len(t)
         /\ \A k \in 1..Len(s \o t) : (s \o t)[k] \in Pairs
         /\ \A k \in 1..Len(s) : (s \o t)[k] = s[k]
         /\ \A k \in 1..Len(t) : (s \o t)[Len(s) + k] = t[k]
         /\ \A k \in Len(s) + 1..Len(s \o t) : k - Len(s) \in 1..Len(t)
<1>1. s \in Seq(Pairs) /\ t \in Seq(Pairs)
  <2>1. <<>> \in Seq(Pairs)
    OBVIOUS
  <2> HIDE DEF Pairs
  <2> QED BY <2>1, StartAssumption DEF Options
<1>2. /\ s \o t \in Seq(Pairs) /\ Len(s \o t) = Len(s) + Len(t)
      /\ \A k \in 1..Len(s) + Len(t) : (s \o t)[k] = IF k <= Len(s) THEN s[k] ELSE t[k - Len(s)]
  BY <1>1, ConcatProperties, Zenon
<1>3. Len(s) \in Nat /\ Len(t) \in Nat
  BY <1>1
<1>4. \A k \in 1..Len(s \o t) : (s \o t)[k] \in Pairs
  BY <1>2
<1> HIDE DEF Pairs
<1>5. \A k \in 1..Len(s) : (s \o t)[k] = s[k]
  <2> TAKE k \in 1..Len(s)
  <2>1. k \in 1..Len(s) + Len(t) /\ k <= Len(s)
    BY <1>3
  <2> QED BY <1>2, <2>1
<1>6. \A k \in 1..Len(t) : (s \o t)[Len(s) + k] = t[k]
  <2> TAKE k \in 1..Len(t)
  <2>1. Len(s) + k \in 1..Len(s) + Len(t) /\ ~(Len(s) + k <= Len(s)) /\ (Len(s) + k) - Len(s) = k
    BY <1>3
  <2> QED BY <1>2, <2>1
<1> QED BY <1>2, <1>3, <1>4, <1>5, <1>6

\* Nothing has been chosen before anything is read.
LEMMA PickedInNothing == \A s, n : PickedIn(s, n, 0) = {}
BY DEF PickedIn

\* One more piece adds its value to what its name was given.
LEMMA PickedInNext ==
  ASSUME NEW s, NEW n, NEW m \in Nat
  PROVE  /\ s[m + 1][1] # n => PickedIn(s, n, m + 1) = PickedIn(s, n, m)
         /\ s[m + 1][1] = n => PickedIn(s, n, m + 1) = PickedIn(s, n, m) \cup {s[m + 1][2]}
<1>1. 1..m + 1 = (1..m) \cup {m + 1}
  OBVIOUS
<1> QED BY <1>1 DEF PickedIn

\* The pieces read so far are pairs or empty.
LEMMA PiecesRead ==
  ASSUME NEW s, NEW c, NEW m \in Nat, \A k \in 1..m : s[k] \in Pairs, NothingWrong(s, c, m)
  PROVE  \A k \in 1..m : s[k] = Empty \/ (s[k] # Empty /\ s[k][1] \in Names)
BY PairFacts DEF NothingWrong

\* An empty piece is passed over.
LEMMA EmptyRead ==
  ASSUME NEW s, NEW c, NEW m \in Nat, NEW a, \A k \in 1..m : s[k] \in Pairs,
         NothingWrong(s, c, m), TakenFrom(a, s, m), s[m + 1] = Empty
  PROVE  NothingWrong(s, c, m + 1) /\ TakenFrom(a, s, m + 1)
<1>1. 1..m + 1 = (1..m) \cup {m + 1}
  OBVIOUS
<1>2. \A k \in 1..m : s[k] = Empty \/ (s[k] # Empty /\ s[k][1] \in Names)
  BY PiecesRead
<1>3. \A j, k \in 1..m + 1 : s[j] # Empty /\ s[j][1] = s[k][1] => j = k
  BY <1>1, <1>2, OddPieces DEF NothingWrong
<1>4. NothingWrong(s, c, m + 1)
  BY <1>1, <1>3, OddPieces, ArgNames DEF NothingWrong
<1>5. ASSUME NEW n \in Names
      PROVE  PickedIn(s, n, m + 1) = {a[n]} \ {Unset}
  <2>1. s[m + 1][1] # n
    BY OddPieces
  <2> QED BY <2>1, PickedInNext DEF TakenFrom
<1> QED BY <1>4, <1>5 DEF TakenFrom

\* A pair whose name has no value yet is taken.
LEMMA PairRead ==
  ASSUME NEW s, NEW c, NEW m \in Nat, NEW a \in [Names -> Values], \A k \in 1..m + 1 : s[k] \in Pairs,
         NothingWrong(s, c, m), TakenFrom(a, s, m),
         NEW p, p = s[m + 1], p \notin {Empty, Malformed}, a[p[1]] = Unset,
         m + 1 > c => p[1] # ConfigFile
  PROVE  NothingWrong(s, c, m + 1) /\ TakenFrom([a EXCEPT ![p[1]] = p[2]], s, m + 1)
<1>0. m + 1 \in 1..m + 1 /\ 1..m + 1 = (1..m) \cup {m + 1}
  OBVIOUS
<1>1. p[1] \in Names /\ p[2] \in Values \ {Unset}
  BY <1>0, PairFacts
<1>2. \A k \in 1..m : s[k] = Empty \/ (s[k] # Empty /\ s[k][1] \in Names)
  BY <1>0, PiecesRead
<1>3. \A k \in 1..m : s[k][1] # p[1]
  <2> SUFFICES ASSUME NEW k \in 1..m, s[k][1] = p[1] PROVE FALSE
    OBVIOUS
  <2>1. s[k] # Empty /\ s[k] \in Pairs /\ s[k] # Malformed
    BY <1>0, <1>1, OddPieces DEF NothingWrong
  <2>2. s[k][2] \in Values \ {Unset}
    BY <2>1, PairFacts
  <2>3. s[k][2] \in PickedIn(s, p[1], m)
    BY DEF PickedIn
  <2> QED BY <1>1, <2>2, <2>3 DEF TakenFrom
<1>4. \A j, k \in 1..m + 1 : s[j] # Empty /\ s[j][1] = s[k][1] => j = k
  BY <1>0, <1>3 DEF NothingWrong
<1>5. NothingWrong(s, c, m + 1)
  BY <1>0, <1>4 DEF NothingWrong
<1>6. ASSUME NEW n \in Names
      PROVE  PickedIn(s, n, m + 1) = {[a EXCEPT ![p[1]] = p[2]][n]} \ {Unset}
  <2>1. PickedIn(s, n, m) = {a[n]} \ {Unset}
    BY DEF TakenFrom
  <2>2. CASE n = p[1]
    <3>1. PickedIn(s, n, m) = {} /\ s[m + 1][1] = n
      BY <2>1, <2>2
    <3>2. [a EXCEPT ![p[1]] = p[2]][n] = p[2]
      BY <1>1, <2>2
    <3>3. PickedIn(s, n, m + 1) = {p[2]}
      BY <3>1, PickedInNext
    <3> QED BY <1>1, <3>2, <3>3
  <2>3. CASE n # p[1]
    <3>1. s[m + 1][1] # n
      BY <2>3
    <3>2. [a EXCEPT ![p[1]] = p[2]][n] = a[n]
      BY <1>1, <2>3
    <3>3. PickedIn(s, n, m + 1) = PickedIn(s, n, m)
      BY <3>1, PickedInNext
    <3> QED BY <2>1, <3>2, <3>3
  <2> QED BY <2>2, <2>3
<1> QED BY <1>5, <1>6 DEF TakenFrom

\* A piece that is refused makes all of the options wrong, whatever follows it.
LEMMA PieceRefused ==
  ASSUME NEW s, NEW c, NEW m \in Nat, NEW l \in Nat, m < l, NEW a, \A k \in 1..l : s[k] \in Pairs,
         NEW p, p = s[m + 1], TakenFrom(a, s, m),
         \/ p = Malformed
         \/ p \notin {Empty, Malformed} /\ a[p[1]] # Unset
         \/ m + 1 > c /\ p[1] = ConfigFile
  PROVE  ~NothingWrong(s, c, l)
<1>0. m + 1 \in 1..l /\ \A k \in 1..m : k \in 1..l /\ k # m + 1
  OBVIOUS
<1>1. CASE p = Malformed \/ (m + 1 > c /\ p[1] = ConfigFile)
  BY <1>0, <1>1 DEF NothingWrong
<1>2. CASE p \notin {Empty, Malformed} /\ a[p[1]] # Unset
  <2>1. p[1] \in Names
    BY <1>0, <1>2, PairFacts
  <2>2. a[p[1]] \in PickedIn(s, p[1], m)
    BY <1>2, <2>1 DEF TakenFrom
  <2>3. PICK k \in 1..m : s[k][1] = p[1]
    BY <2>2 DEF PickedIn
  <2> QED BY <1>0, <1>2, <2>3 DEF NothingWrong
<1> QED BY <1>1, <1>2

-------------------------------------------------------------------------------
\* The options as a whole.

\* All options, in the terms of the loops that read them.
LEMMA AcceptedIs ==
  ASSUME given \in [cli : Options, file : Options]
  PROVE  /\ Len(AllPairs) \in Nat /\ \A k \in 1..Len(AllPairs) : AllPairs[k] \in Pairs
         /\ \A n : Picked(n) = PickedIn(AllPairs, n, Len(AllPairs))
         /\ Accepted <=>
              /\ NothingWrong(AllPairs, Len(given.cli), Len(AllPairs))
              /\ Picked(ConnectionStr) \subseteq {"ipc"} => Picked(MainClass) # {}
              /\ "bad" \notin Picked(ConnectionStr) \cup Picked(Exporter)
              /\ Picked(LogLevel) \subseteq LogLevels
<1> DEFINE c == Len(given.cli)
           l == Len(AllPairs)
<1>1. /\ c \in Nat /\ Len(given.file) \in Nat /\ l = c + Len(given.file)
      /\ \A k \in 1..l : AllPairs[k] \in Pairs
      /\ \A k \in 1..Len(given.file) : AllPairs[c + k] = given.file[k]
      /\ \A k \in c + 1..l : k - c \in 1..Len(given.file)
  <2>1. given.cli \in Options /\ given.file \in Options
    OBVIOUS
  <2> QED BY <2>1, PiecesInOrder DEF AllPairs
<1>2. \A n : Picked(n) = PickedIn(AllPairs, n, l)
  BY DEF Picked, PickedIn
<1>3. (\A k \in 1..Len(given.file) : given.file[k][1] # ConfigFile)
      <=> \A k \in 1..l : k > c => AllPairs[k][1] # ConfigFile
  <2>1. ASSUME \A k \in 1..Len(given.file) : given.file[k][1] # ConfigFile, NEW k \in 1..l, k > c
        PROVE  AllPairs[k][1] # ConfigFile
    <3>1. k \in c + 1..l /\ c + (k - c) = k
      BY <1>1, <2>1
    <3>2. k - c \in 1..Len(given.file)
      BY <1>1, <3>1
    <3>3. AllPairs[k] = given.file[k - c]
      BY <1>1, <3>1, <3>2
    <3> QED BY <2>1, <3>2, <3>3
  <2>2. ASSUME \A k \in 1..l : k > c => AllPairs[k][1] # ConfigFile, NEW k \in 1..Len(given.file)
        PROVE  given.file[k][1] # ConfigFile
    <3>1. c + k \in 1..l /\ c + k > c
      BY <1>1
    <3> QED BY <1>1, <2>2, <3>1
  <2> QED BY <2>1, <2>2
<1> HIDE DEF c, l
<1>4. NothingWrong(AllPairs, c, l) <=>
        /\ \A j, k \in 1..l : AllPairs[j] # Empty /\ AllPairs[j][1] = AllPairs[k][1] => j = k
        /\ \A k \in 1..l : AllPairs[k] # Malformed
        /\ \A k \in 1..Len(given.file) : given.file[k][1] # ConfigFile
  BY <1>3, Zenon DEF NothingWrong
<1>5. Accepted <=>
        /\ NothingWrong(AllPairs, c, l)
        /\ Picked(ConnectionStr) \subseteq {"ipc"} => Picked(MainClass) # {}
        /\ "bad" \notin Picked(ConnectionStr) \cup Picked(Exporter)
        /\ Picked(LogLevel) \subseteq LogLevels
  BY <1>4 DEF Accepted, OnceEach, l
<1> QED BY <1>1, <1>2, <1>5 DEF c, l

\* While the same options are read, they say the same.
LEMMA SamePairs == given' = given => AllPairs' = AllPairs
BY DEF AllPairs

\* ... and choose the same values,
LEMMA SameChoices == given' = given => \A n \in Names : Picked(n)' = Picked(n)
BY SamePairs, Zenon DEF Picked

\* ... and are acceptable or not, as before.
LEMMA SameVerdict == given' = given => (Accepted' <=> Accepted)
<1> SUFFICES ASSUME given' = given PROVE Accepted' <=> Accepted
  OBVIOUS
<1>1. \A n \in {ConnectionStr, MainClass, Exporter, LogLevel} : Picked(n)' = Picked(n)
  BY SameChoices, ArgNames
<1> QED BY <1>1, SamePairs DEF Accepted, OnceEach

\* A piece is read: the next one is looked at, or the options are refused because they are wrong.
LEMMA SplitReads ==
  ASSUME StartInv, given' = given, NEW m \in Nat, m < Len(AllPairs), NEW p, p = AllPairs[m + 1],
         NothingWrong(AllPairs, Len(given.cli), m), TakenFrom(args, AllPairs, m),
         m + 1 > Len(given.cli) => p[1] # ConfigFile, SplitArgumentPair(p)
  PROVE  \/ /\ pc' = pc /\ err' = err /\ i' = i + 1
            /\ NothingWrong(AllPairs, Len(given.cli), m + 1) /\ TakenFrom(args', AllPairs, m + 1)
         \/ pc' = "sinks" /\ err' # "none" /\ ~Accepted
<1> DEFINE s == AllPairs
           c == Len(given.cli)
           l == Len(s)
<1>0. /\ args \in [Names -> Values] /\ l \in Nat /\ \A k \in 1..l : s[k] \in Pairs
      /\ Accepted => NothingWrong(s, c, l)
  BY AcceptedIs DEF StartInv, TypeOK, OptionsInv
<1>1. m + 1 \in 1..l /\ 1..m + 1 \subseteq 1..l /\ 1..m \subseteq 1..l
  BY <1>0
<1> HIDE DEF s, c, l
<1>2. p \in Pairs /\ Empty # Malformed
  BY <1>0, <1>1, OddPieces DEF s, l
<1>3. /\ NothingWrong(s, c, m) /\ TakenFrom(args, s, m)
      /\ m + 1 > c => p[1] # ConfigFile
      /\ p = s[m + 1]
  BY DEF s, c
<1>4. CASE p = Empty
  <2>1. i' = i + 1 /\ pc' = pc /\ err' = err /\ args' = args
    BY <1>2, <1>4, Zenon DEF SplitArgumentPair
  <2>2. NothingWrong(s, c, m + 1) /\ TakenFrom(args, s, m + 1)
    BY <1>0, <1>1, <1>3, <1>4, EmptyRead
  <2> QED BY <2>1, <2>2 DEF s, c
<1>5. CASE p = Malformed \/ (p \notin {Empty, Malformed} /\ IsSet(p[1]))
  <2>1. Refuse("malformed") \/ Refuse("duplicate")
    BY <1>2, <1>5, Zenon DEF SplitArgumentPair
  <2>2. ~NothingWrong(s, c, l)
    BY <1>0, <1>1, <1>3, <1>5, PieceRefused DEF IsSet, l
  <2> QED BY <1>0, <2>1, <2>2 DEF Refuse, Goto
<1>6. CASE p \notin {Empty, Malformed} /\ ~IsSet(p[1])
  <2>1. /\ args' = [args EXCEPT ![p[1]] = p[2]]
        /\ i' = i + 1 /\ pc' = pc /\ err' = err
    BY <1>6, Zenon DEF SplitArgumentPair
  <2>2. NothingWrong(s, c, m + 1) /\ TakenFrom(args', s, m + 1)
    BY <1>0, <1>1, <1>3, <1>6, <2>1, PairRead DEF IsSet
  <2> QED BY <2>1, <2>2 DEF s, c
<1> QED BY <1>2, <1>4, <1>5, <1>6

-------------------------------------------------------------------------------
\* The steps of the parser.

\* From the command line to the file, or to the checks.
LEMMA ParseCLIReads == StartInv /\ ReadInv /\ ParseCLI => ReadInv'
<1> SUFFICES ASSUME StartInv, ReadInv, ParseCLI PROVE ReadInv'
  OBVIOUS
<1> DEFINE c == Len(given.cli)
<1>0. /\ pc = "cli" /\ err = "none" /\ given \in [cli : Options, file : Options]
      /\ c \in Nat /\ given.file = <<>> /\ i \in 1..c + 1
      /\ NothingWrong(AllPairs, c, i - 1) /\ TakenFrom(args, AllPairs, i - 1)
  BY OptionFacts DEF ParseCLI, At, StartInv, ArgsInv, Parse, OptionsInv, ReadInv
<1>1. /\ Len(AllPairs) = c /\ \A k \in 1..c : AllPairs[k] = given.cli[k]
  <2>1. given.cli \in Options /\ <<>> \in Options /\ Len(<<>>) = 0
    BY <1>0 DEF Options
  <2> QED BY <1>0, <2>1, PiecesInOrder DEF AllPairs
<1>2. CASE i <= c /\ SplitArgumentPair(given.cli[i]) /\ given' = given
  <2>1. i - 1 \in Nat /\ i - 1 < Len(AllPairs) /\ (i - 1) + 1 = i /\ (i + 1) - 1 = i /\ i \in 1..c
        /\ ~(i > c) /\ i + 1 \in 1..c + 1
    BY <1>0, <1>1, <1>2
  <2>2. given.cli[i] = AllPairs[i]
    BY <1>1, <2>1
  <2>3. \/ /\ pc' = pc /\ err' = err /\ i' = i + 1
           /\ NothingWrong(AllPairs, c, i) /\ TakenFrom(args', AllPairs, i)
        \/ pc' = "sinks" /\ err' # "none" /\ ~Accepted
    BY <1>0, <1>2, <2>1, <2>2, SplitReads
  <2>4. AllPairs' = AllPairs /\ (Accepted' <=> Accepted)
    BY <1>2, SamePairs, SameVerdict
  <2> QED BY <1>0, <1>2, <2>1, <2>3, <2>4 DEF ReadInv
<1>3. CASE i > c /\ i' = 1 /\ args' = args /\ pc' = "mandatory" /\ given' = given
  <2>1. i - 1 = c
    BY <1>0, <1>3
  <2>2. AllPairs' = AllPairs
    BY <1>3, SamePairs
  <2> QED BY <1>0, <1>1, <1>3, <2>1, <2>2 DEF ReadInv
<1>4. CASE /\ i > c /\ i' = 1 /\ args' = args /\ pc' = "lines"
           /\ \E f \in ConfigFiles : given' = [given EXCEPT !.file = f]
  <2>1. PICK f \in ConfigFiles : given' = [given EXCEPT !.file = f]
    BY <1>4
  <2>2. i - 1 = c
    BY <1>0, <1>4
  <2>3. given'.cli = given.cli /\ given'.file = f /\ given.cli \in Options /\ f \in Options
    BY <1>0, <2>1 DEF Options
  <2>4. Len(f) \in Nat /\ \A k \in 1..c : AllPairs'[k] = AllPairs[k]
    <3>1. Len(f) \in Nat /\ \A k \in 1..c : (given.cli \o f)[k] = given.cli[k]
      BY <2>3, PiecesInOrder
    <3>2. AllPairs' = given.cli \o f
      BY <2>3 DEF AllPairs
    <3> QED BY <1>1, <3>1, <3>2
  <2>5. NothingWrong(AllPairs', c, c) /\ TakenFrom(args, AllPairs', c)
    <3>1. \A n : PickedIn(AllPairs', n, c) = PickedIn(AllPairs, n, c)
      BY <2>4 DEF PickedIn
    <3> QED BY <1>0, <2>2, <2>4, <3>1 DEF NothingWrong, TakenFrom
  <2>6. c + (1 - 1) = c /\ 1 \in 1..Len(f) + 1
    BY <1>0, <2>4
  <2> QED BY <1>4, <2>3, <2>5, <2>6 DEF ReadInv
<1> QED BY <1>2, <1>3, <1>4 DEF ParseCLI, Goto

\* The lines of the file, none of which may name another file.
LEMMA ParseConfigFileReads == StartInv /\ ReadInv /\ ParseConfigFile => ReadInv'
<1> SUFFICES ASSUME StartInv, ReadInv, ParseConfigFile PROVE ReadInv'
  OBVIOUS
<1> DEFINE c == Len(given.cli)
           d == Len(given.file)
<1>0. /\ pc = "lines" /\ err = "none" /\ given \in [cli : Options, file : Options] /\ given' = given
      /\ c \in Nat /\ d \in Nat /\ i \in 1..d + 1
      /\ NothingWrong(AllPairs, c, c + (i - 1)) /\ TakenFrom(args, AllPairs, c + (i - 1))
  BY OptionFacts DEF ParseConfigFile, At, StartInv, ArgsInv, Parse, OptionsInv, ReadInv
<1>1. /\ Len(AllPairs) = c + d /\ \A k \in 1..d : AllPairs[c + k] = given.file[k]
  <2>1. given.cli \in Options /\ given.file \in Options
    BY <1>0
  <2> QED BY <2>1, PiecesInOrder DEF AllPairs
<1>2. AllPairs' = AllPairs /\ (Accepted' <=> Accepted)
  BY <1>0, SamePairs, SameVerdict
<1>3. CASE i > d /\ i' = 1 /\ args' = args /\ pc' = "mandatory"
  <2>1. c + (i - 1) = Len(AllPairs)
    BY <1>0, <1>1, <1>3
  <2> QED BY <1>0, <1>2, <1>3, <2>1 DEF ReadInv
<1>4. ASSUME i <= d
      PROVE  /\ c + (i - 1) \in Nat /\ c + (i - 1) < Len(AllPairs) /\ (c + (i - 1)) + 1 = c + i
             /\ c + i > c /\ given.file[i] = AllPairs[c + i]
  <2>1. i \in 1..d
    BY <1>0, <1>4
  <2>2. given.file[i] = AllPairs[c + i]
    BY <1>1, <2>1
  <2>3. Len(AllPairs) = c + d
    BY <1>1
  <2> HIDE DEF c, d
  <2> QED BY <1>0, <2>1, <2>2, <2>3
<1>5. CASE i <= d /\ given.file[i][1] = ConfigFile /\ pc' = "sinks" /\ err' = "config_file"
  <2>1. /\ Len(AllPairs) \in Nat /\ \A k \in 1..Len(AllPairs) : AllPairs[k] \in Pairs
        /\ Accepted => NothingWrong(AllPairs, c, Len(AllPairs))
    BY <1>0, AcceptedIs
  <2>2. ~NothingWrong(AllPairs, c, Len(AllPairs))
    BY <1>0, <1>4, <1>5, <2>1, PieceRefused
  <2> QED BY <1>2, <1>5, <2>1, <2>2 DEF ReadInv
<1>6. CASE i <= d /\ given.file[i][1] # ConfigFile /\ SplitArgumentPair(given.file[i])
  <2>1. \/ /\ pc' = pc /\ err' = err /\ i' = i + 1
           /\ NothingWrong(AllPairs, c, c + i) /\ TakenFrom(args', AllPairs, c + i)
        \/ pc' = "sinks" /\ err' # "none" /\ ~Accepted
    BY <1>0, <1>4, <1>6, SplitReads
  <2>2. (i + 1) - 1 = i /\ i + 1 \in 1..d + 1
    BY <1>0, <1>6
  <2> QED BY <1>0, <1>2, <2>1, <2>2 DEF ReadInv
<1> QED BY <1>3, <1>5, <1>6 DEF ParseConfigFile, Goto, Refuse

\* When all is read, args says what was chosen.
LEMMA AllRead ==
  ASSUME StartInv, ReadInv, pc \in {"mandatory", "validate", "defaults"}, vm # "dead"
  PROVE  /\ NothingWrong(AllPairs, Len(given.cli), Len(AllPairs))
         /\ TakenFrom(args, AllPairs, Len(AllPairs))
         /\ \A n \in Names : Picked(n) = {args[n]} \ {Unset}
<1>1. /\ NothingWrong(AllPairs, Len(given.cli), Len(AllPairs))
      /\ TakenFrom(args, AllPairs, Len(AllPairs))
  BY DEF ReadInv
<1> QED BY <1>1, AcceptedIs DEF StartInv, OptionsInv, TakenFrom

\* What the mandatory arguments need of the choices.
LEMMA CheckForMandatoryArgsReads == StartInv /\ ReadInv /\ CheckForMandatoryArgs => ReadInv'
<1> SUFFICES ASSUME StartInv, ReadInv, CheckForMandatoryArgs PROVE ReadInv'
  OBVIOUS
<1>0. /\ pc = "mandatory" /\ vm # "dead" /\ given' = given /\ args' = args
      /\ given \in [cli : Options, file : Options]
  BY DEF CheckForMandatoryArgs, At, StartInv, OptionsInv
<1>1. /\ NothingWrong(AllPairs, Len(given.cli), Len(AllPairs))
      /\ TakenFrom(args, AllPairs, Len(AllPairs))
      /\ \A n \in Names : Picked(n) = {args[n]} \ {Unset}
  BY <1>0, AllRead
<1>2. AllPairs' = AllPairs /\ (Accepted' <=> Accepted)
  BY <1>0, SamePairs, SameVerdict
<1>3. CASE args[ConnectionStr] \in {Unset, "ipc"} /\ ~IsSet(MainClass)
  <2>1. pc' = "sinks" /\ err' = "mandatory"
    BY <1>3 DEF CheckForMandatoryArgs, Refuse, Goto
  <2>2. Picked(ConnectionStr) \subseteq {"ipc"} /\ Picked(MainClass) = {}
    BY <1>1, <1>3, ArgNames DEF IsSet
  <2>3. ~Accepted
    BY <2>2, Zenon DEF Accepted
  <2> QED BY <1>2, <2>1, <2>3 DEF ReadInv
<1>4. CASE ~(args[ConnectionStr] \in {Unset, "ipc"} /\ ~IsSet(MainClass))
  <2>1. pc' = "validate"
    BY <1>4 DEF CheckForMandatoryArgs, Goto
  <2> QED BY <1>0, <1>1, <1>2, <2>1 DEF ReadInv
<1> QED BY <1>3, <1>4

\* What the values of the choices have to be.
LEMMA ValidateArgsReads == StartInv /\ ReadInv /\ ValidateArgs => ReadInv'
<1> SUFFICES ASSUME StartInv, ReadInv, ValidateArgs PROVE ReadInv'
  OBVIOUS
<1>0. /\ pc = "validate" /\ vm # "dead" /\ given' = given /\ args' = args
      /\ given \in [cli : Options, file : Options]
  BY DEF ValidateArgs, At, StartInv, OptionsInv
<1>1. /\ NothingWrong(AllPairs, Len(given.cli), Len(AllPairs))
      /\ TakenFrom(args, AllPairs, Len(AllPairs))
      /\ \A n \in Names : Picked(n) = {args[n]} \ {Unset}
  BY <1>0, AllRead
<1>2. AllPairs' = AllPairs /\ (Accepted' <=> Accepted)
  BY <1>0, SamePairs, SameVerdict
<1>3. CASE /\ pc' = "sinks" /\ err' \in {"log level", "connection", "exporter"}
           /\ \/ IsSet(LogLevel) /\ ~IsValidLogLevel(args[LogLevel])
              \/ "bad" \in {args[ConnectionStr], args[Exporter]}
  <2>1. \/ ~(Picked(LogLevel) \subseteq LogLevels)
        \/ "bad" \in Picked(ConnectionStr) \cup Picked(Exporter)
    BY <1>1, <1>3, ArgNames DEF IsSet, IsValidLogLevel, Unset
  <2>2. ~Accepted
    BY <2>1, Zenon DEF Accepted
  <2> QED BY <1>2, <1>3, <2>2 DEF ReadInv
<1>4. CASE pc' = "defaults" /\ "bad" \notin {args[ConnectionStr], args[Exporter]}
  BY <1>0, <1>1, <1>2, <1>4 DEF ReadInv
<1>5. \/ /\ pc' = "sinks" /\ err' \in {"log level", "connection", "exporter"}
         /\ \/ IsSet(LogLevel) /\ ~IsValidLogLevel(args[LogLevel])
            \/ "bad" \in {args[ConnectionStr], args[Exporter]}
      \/ pc' = "defaults" /\ "bad" \notin {args[ConnectionStr], args[Exporter]}
  BY DEF ValidateArgs, Refuse, Goto
<1> QED BY <1>3, <1>4, <1>5

\* What the same choices are filled up to.
LEMMA SameFilled ==
  ASSUME given' = given
  PROVE  \A n \in Names : PickedOrDefault(n)' = PickedOrDefault(n) /\ FilledDirectory(n)' = FilledDirectory(n)
<1>1. \A n \in Names : PickedOrDefault(n)' = PickedOrDefault(n)
  <2> TAKE n \in Names
  <2>1. Picked(n)' = Picked(n)
    BY SameChoices
  <2> QED BY <2>1 DEF PickedOrDefault
<1>2. \A n \in Names : FilledDirectory(n)' = FilledDirectory(n)
  <2> TAKE n \in Names
  <2>1. Picked(n)' = Picked(n) /\ PickedOrDefault(n)' = PickedOrDefault(n)
    BY SameChoices, <1>1
  <2> QED BY <2>1 DEF FilledDirectory
<1> QED BY <1>1, <1>2

\* The defaults take the places nothing was chosen for.
LEMMA FillMissingWithDefaultsReads == StartInv /\ ReadInv /\ FillMissingWithDefaults => ReadInv'
<1> SUFFICES ASSUME StartInv, ReadInv, FillMissingWithDefaults PROVE ReadInv'
  OBVIOUS
<1>0. /\ pc = "defaults" /\ vm # "dead" /\ given' = given /\ given \in [cli : Options, file : Options]
      /\ args[ConnectionStr] \in {Unset, "ipc"} => IsSet(MainClass)
      /\ args[LogLevel] \in LogLevels \cup {Unset}
      /\ "bad" \notin {args[ConnectionStr], args[Exporter]}
  BY DEF FillMissingWithDefaults, At, StartInv, OptionsInv, ArgsInv, ReadInv, Throw
<1>1. CASE Throw
  BY <1>0, <1>1 DEF ReadInv, Throw
<1> SUFFICES ASSUME /\ args' = [n \in Names |-> IF IsSet(n) THEN args[n] ELSE Default[n]]
                    /\ pc' = IF IsSet(ClassOutputDir) THEN "address" ELSE "classdir"
             PROVE  ReadInv'
  BY <1>1 DEF FillMissingWithDefaults, Goto, Filled
<1>2. /\ NothingWrong(AllPairs, Len(given.cli), Len(AllPairs))
      /\ \A n \in Names : Picked(n) = {args[n]} \ {Unset}
  BY <1>0, AllRead
<1>3. Accepted
  <2>1. Picked(ConnectionStr) \subseteq {"ipc"} => Picked(MainClass) # {}
    <3>1. /\ Picked(ConnectionStr) = {args[ConnectionStr]} \ {Unset}
          /\ Picked(MainClass) = {args[MainClass]} \ {Unset}
      BY <1>2, ArgNames
    <3> QED BY <1>0, <3>1, Zenon DEF IsSet
  <2>2. /\ "bad" \notin Picked(ConnectionStr) \cup Picked(Exporter)
        /\ Picked(LogLevel) \subseteq LogLevels
    BY <1>0, <1>2, ArgNames
  <2> QED BY <1>0, <1>2, <2>1, <2>2, AcceptedIs
<1>4. ASSUME NEW n \in Names
      PROVE  args'[n] = PickedOrDefault(n) /\ (IsSet(n) <=> Picked(n) # {})
  <2>1. Picked(n) = {args[n]} \ {Unset}
    BY <1>2
  <2> QED BY <2>1 DEF PickedOrDefault, IsSet
<1>5. Accepted' /\ \A n \in Names : /\ Picked(n)' = Picked(n) /\ PickedOrDefault(n)' = PickedOrDefault(n)
                                     /\ FilledDirectory(n)' = FilledDirectory(n)
  BY <1>0, <1>3, SameVerdict, SameChoices, SameFilled
<1>6. CASE IsSet(ClassOutputDir)
  <2>1. \A n \in Names : args'[n] = FilledDirectory(n)
    BY <1>4, <1>6 DEF FilledDirectory
  <2>2. pc' = "address"
    BY <1>6
  <2> QED BY <1>5, <2>1, <2>2 DEF ReadInv
<1>7. CASE ~IsSet(ClassOutputDir)
  <2>1. Picked(ClassOutputDir) = {}
    BY <1>4, <1>7, ArgNames
  <2>2. pc' = "classdir" /\ ClassOutputDir \in Names
    BY <1>7, ArgNames
  <2> QED BY <1>4, <1>5, <2>1, <2>2 DEF ReadInv
<1> QED BY <1>6, <1>7

\* The directory for the classes, once it could be made.
LEMMA FillClassOutputDirReads == StartInv /\ ReadInv /\ FillClassOutputDir => ReadInv'
<1> SUFFICES ASSUME StartInv, ReadInv, FillClassOutputDir PROVE ReadInv'
  OBVIOUS
<1>0. /\ pc = "classdir" /\ Accepted /\ Picked(ClassOutputDir) = {}
      /\ \A n \in Names : args[n] = PickedOrDefault(n)
      /\ args \in [Names -> Values]
  BY DEF FillClassOutputDir, At, ReadInv, StartInv, TypeOK
<1>1. /\ given' = given
      /\ \/ args' = args /\ pc' = pc
         \/ args' = [args EXCEPT ![ClassOutputDir] = "temp"] /\ pc' = "address"
  BY ArgNames, ValueFacts, DirectoryCases DEF FillClassOutputDir, Throw
<1>2. Accepted' /\ \A n \in Names : /\ Picked(n)' = Picked(n) /\ PickedOrDefault(n)' = PickedOrDefault(n)
                                     /\ FilledDirectory(n)' = FilledDirectory(n)
  BY <1>0, <1>1, SameVerdict, SameChoices, SameFilled
<1>3. CASE args' = args /\ pc' = pc
  BY <1>0, <1>2, <1>3, ArgNames DEF ReadInv
<1>4. CASE args' = [args EXCEPT ![ClassOutputDir] = "temp"] /\ pc' = "address"
  <2>1. \A n \in Names : args'[n] = FilledDirectory(n)
    BY <1>0, <1>4, ArgNames DEF FilledDirectory
  <2> QED BY <1>2, <1>4, <2>1 DEF ReadInv
<1> QED BY <1>1, <1>3, <1>4

\* The address replaces the choice of the connection.
LEMMA ConnectionStrToNanomsgAddrReads == StartInv /\ ReadInv /\ ConnectionStrToNanomsgAddr => ReadInv'
<1> SUFFICES ASSUME StartInv, ReadInv, ConnectionStrToNanomsgAddr PROVE ReadInv'
  OBVIOUS
<1>0. /\ pc = "address" /\ Accepted /\ err = "none" /\ err' = err
      /\ \A n \in Names : args[n] = FilledDirectory(n)
      /\ args \in [Names -> Values] /\ given \in [cli : Options, file : Options]
  BY DEF ConnectionStrToNanomsgAddr, At, ReadInv, StartInv, TypeOK, ArgsInv, Parse, OptionsInv
<1>1. /\ given' = given
      /\ \/ args' = args /\ pc' = pc
         \/ /\ args' = [args EXCEPT ![ConnectionStr] =
                          IF args[ConnectionStr] = "ipc" THEN "ipc://" ELSE "tcp://"]
            /\ pc' = "sinks"
  <2>1. CASE args[ConnectionStr] = "ipc"
    <3>1. CreateUniqueTempDir(ConnectionStr, "ipc://", "sinks")
      BY <2>1 DEF ConnectionStrToNanomsgAddr
    <3> QED BY <2>1, <3>1, ArgNames, ValueFacts, DirectoryCases DEF Throw
  <2>2. CASE args[ConnectionStr] # "ipc"
    BY <2>2 DEF ConnectionStrToNanomsgAddr, Goto
  <2> QED BY <2>1, <2>2
<1>2. /\ Accepted'
      /\ \A n \in Names : Picked(n)' = Picked(n) /\ FilledDirectory(n)' = FilledDirectory(n)
  BY <1>0, <1>1, SameVerdict, SameChoices, SameFilled
<1>3. CASE args' = args /\ pc' = pc
  BY <1>0, <1>2, <1>3 DEF ReadInv
<1>4. CASE /\ args' = [args EXCEPT ![ConnectionStr] =
                        IF args[ConnectionStr] = "ipc" THEN "ipc://" ELSE "tcp://"]
           /\ pc' = "sinks"
  <2>1. args[ConnectionStr] = "ipc" <=> Picked(ConnectionStr) \subseteq {"ipc"}
    <3>1. CASE Picked(ConnectionStr) = {}
      BY <1>0, <3>1, ArgNames, DefaultFacts DEF FilledDirectory, PickedOrDefault
    <3>2. CASE Picked(ConnectionStr) # {}
      <4>1. args[ConnectionStr] \in Picked(ConnectionStr)
        BY <1>0, <3>2, ArgNames DEF FilledDirectory, PickedOrDefault
      <4>2. \A v \in Picked(ConnectionStr) : v = args[ConnectionStr]
        <5>1. NothingWrong(AllPairs, Len(given.cli), Len(AllPairs))
          BY <1>0, AcceptedIs
        <5>2. \A k \in 1..Len(AllPairs) : AllPairs[k][1] = ConnectionStr => AllPairs[k] # Empty
          BY OddPieces, ArgNames
        <5> QED BY <4>1, <5>1, <5>2, Zenon DEF Picked, NothingWrong
      <4> QED BY <4>1, <4>2
    <3> QED BY <3>1, <3>2
  <2>2. ASSUME NEW n \in Names
        PROVE  args'[n] = Parsed(n)'
    <3>1. Picked(n)' = Picked(n)
      BY <1>2
    <3>2. CASE n = ConnectionStr
      <4>1. args'[n] = IF Picked(n) \subseteq {"ipc"} THEN "ipc://" ELSE "tcp://"
        BY <1>0, <1>4, <2>1, <3>2
      <4> QED BY <3>1, <3>2, <4>1, ArgNames DEF Parsed
    <3>3. CASE n # ConnectionStr
      <4>1. args'[n] = FilledDirectory(n)
        BY <1>0, <1>4, <3>3
      <4> QED BY <3>1, <3>3, <4>1 DEF FilledDirectory, PickedOrDefault, Parsed
    <3> QED BY <3>2, <3>3
  <2> QED BY <1>0, <1>2, <1>4, <2>2 DEF ReadInv
<1> QED BY <1>1, <1>3, <1>4

-------------------------------------------------------------------------------
\* The other steps.

\* Outside the parser there is nothing to know of it, until it starts on new options.
LEMMA ReadElsewhere ==
  ASSUME pc' \notin Parse \cup {"sinks"}
  PROVE  ReadInv'
BY DEF ReadInv, Parse

\* A step that leaves the parser alone.
LEMMA ReadUnchanged ==
  ASSUME ReadInv, given' = given, pc' = pc, i' = i, args' = args, err' = err, vm' \in {vm, "dead"}
  PROVE  ReadInv'
<1>1. /\ AllPairs' = AllPairs /\ (Accepted' <=> Accepted)
      /\ \A n \in Names : /\ Picked(n)' = Picked(n) /\ PickedOrDefault(n)' = PickedOrDefault(n)
                          /\ FilledDirectory(n)' = FilledDirectory(n)
  BY SamePairs, SameVerdict, SameChoices, SameFilled
<1>2. ASSUME NEW n \in Names
      PROVE  Parsed(n)' = Parsed(n)
  <2>1. Picked(n)' = Picked(n)
    BY <1>1
  <2> QED BY <2>1 DEF Parsed
<1> QED BY <1>1, <1>2, ArgNames DEF ReadInv

\* New options, of which nothing was read.
LEMMA EnterReads ==
  ASSUME NEW e, NEW o \in Options, Enter(e, o)
  PROVE  ReadInv'
<1>1. /\ pc' = "cli" /\ i' = 1 /\ args' = NoArgs
      /\ given' = [cli |-> o, file |-> <<>>] /\ given'.cli = o /\ given'.file = <<>>
  BY DEF Enter, Goto
<1>2. Len(o) \in Nat /\ 1 \in 1..Len(o) + 1 /\ 1 - 1 = 0 /\ 1..0 = {}
  BY OptionFacts
<1>3. NothingWrong(AllPairs', Len(o), 0) /\ TakenFrom(NoArgs, AllPairs', 0)
  BY <1>2, PickedInNothing DEF NothingWrong, TakenFrom, NoArgs
<1> QED BY <1>1, <1>2, <1>3 DEF ReadInv

\* ReadInv is inductive, given StartInv.
LEMMA ReadStep == StartInv /\ ReadInv /\ [Next]_vars => ReadInv'
<1> SUFFICES ASSUME StartInv, ReadInv, [Next]_vars PROVE ReadInv'
  OBVIOUS
<1>1. CASE OnLoad \/ OnAttach
  BY <1>1, EnterReads DEF OnLoad, OnAttach, Options
<1>2. CASE CreateSinks
  <2>1. CASE Throw
    BY <1>2, <2>1, ReadUnchanged DEF CreateSinks, OnlyLevel, Throw
  <2>2. CASE pc' = "open"
    BY <2>2, ReadElsewhere DEF Parse
  <2> QED BY <1>2, <2>1, <2>2 DEF CreateSinks, Goto
<1>3. CASE OpenLogFile \/ RegisterLoggers \/ SetLogLevel \/ Verdict \/ Jvmti \/ Launch \/ Connect
  <2>1. pc' \notin Parse \cup {"sinks"}
    BY <1>3 DEF OpenLogFile, RegisterLoggers, SetLogLevel, Verdict, Jvmti, Launch, Connect, At, Goto,
                Return, Throw, Parse
  <2> QED BY <2>1, ReadElsewhere
<1>4. CASE Logs \/ UNCHANGED vars
  BY <1>4, ReadUnchanged DEF Logs, vars, startVars
<1>5. CASE NoOptionsString
  BY <1>5, ReadUnchanged DEF NoOptionsString, Throw
<1> QED BY <1>1, <1>2, <1>3, <1>4, <1>5, ParseCLIReads, ParseConfigFileReads, CheckForMandatoryArgsReads,
           ValidateArgsReads, FillMissingWithDefaultsReads, FillClassOutputDirReads,
           ConnectionStrToNanomsgAddrReads
        DEF Next, StartStep

\* What the two parts of the options give a name, of what their one sequence gives it.
LEMMA PickedFromBoth ==
  ASSUME given \in [cli : Options, file : Options]
  PROVE  \A n : Picked(n) = GivenIn(given.cli, n) \cup GivenIn(given.file, n)
<1> DEFINE c == Len(given.cli)
           l == Len(AllPairs)
<1>1. /\ c \in Nat /\ Len(given.file) \in Nat /\ l = c + Len(given.file)
      /\ \A k \in 1..c : AllPairs[k] = given.cli[k]
      /\ \A k \in 1..Len(given.file) : AllPairs[c + k] = given.file[k]
      /\ \A k \in c + 1..l : k - c \in 1..Len(given.file)
  <2>1. given.cli \in Options /\ given.file \in Options
    OBVIOUS
  <2> QED BY <2>1, PiecesInOrder DEF AllPairs
<1> HIDE DEF c, l
<1>2. /\ \A k \in 1..c : k \in 1..l
      /\ \A k \in 1..Len(given.file) : c + k \in 1..l
      /\ \A k \in 1..l : k \in 1..c \/ (k - c \in 1..Len(given.file) /\ c + (k - c) = k)
  <2>1. \A k \in 1..l : k \in 1..c \/ k \in c + 1..l
    BY <1>1
  <2> QED BY <1>1, <2>1
<1> TAKE n
<1>3. GivenIn(given.cli, n) \cup GivenIn(given.file, n) \subseteq Picked(n)
  <2>1. GivenIn(given.cli, n) \subseteq Picked(n)
    BY <1>1, <1>2 DEF GivenIn, Picked, c, l
  <2>2. ASSUME NEW k \in 1..Len(given.file), given.file[k][1] = n
        PROVE  given.file[k][2] \in Picked(n)
    <3>1. c + k \in 1..l /\ AllPairs[c + k] = given.file[k]
      BY <1>1, <1>2
    <3> QED BY <2>2, <3>1 DEF Picked, l
  <2>3. GivenIn(given.file, n) \subseteq Picked(n)
    BY <2>2 DEF GivenIn
  <2> QED BY <2>1, <2>3
<1>4. Picked(n) \subseteq GivenIn(given.cli, n) \cup GivenIn(given.file, n)
  <2> SUFFICES ASSUME NEW v \in Picked(n) PROVE v \in GivenIn(given.cli, n) \cup GivenIn(given.file, n)
    OBVIOUS
  <2>1. PICK k \in 1..l : AllPairs[k][1] = n /\ AllPairs[k][2] = v
    BY DEF Picked, l
  <2>2. CASE k \in 1..c
    BY <1>1, <2>1, <2>2 DEF GivenIn, c
  <2>3. CASE k - c \in 1..Len(given.file) /\ c + (k - c) = k
    <3>1. given.file[k - c] = AllPairs[k]
      BY <1>1, <2>3
    <3> QED BY <2>1, <2>3, <3>1 DEF GivenIn
  <2> QED BY <1>2, <2>2, <2>3
<1> QED BY <1>3, <1>4

\* One sequence names everything once if and only if its two parts do, and no name is in both.
LEMMA OnceInBoth ==
  ASSUME given \in [cli : Options, file : Options], \A k \in 1..Len(AllPairs) : AllPairs[k] # Malformed
  PROVE  OnceEach(AllPairs) <=> OnceEach(given.cli) /\ OnceEach(given.file) /\ ~InBoth
<1> DEFINE c == Len(given.cli)
           d == Len(given.file)
           s == AllPairs
<1>1. /\ c \in Nat /\ d \in Nat /\ Len(s) = c + d
      /\ \A k \in 1..Len(s) : s[k] \in Pairs
      /\ \A k \in 1..c : s[k] = given.cli[k]
      /\ \A k \in 1..d : s[c + k] = given.file[k]
  <2>1. given.cli \in Options /\ given.file \in Options
    OBVIOUS
  <2> QED BY <2>1, PiecesInOrder DEF AllPairs
<1>a. \A k \in 1..Len(s) : s[k] # Malformed
  OBVIOUS
<1> HIDE DEF c, d, s
<1>2. /\ \A k \in 1..c : k \in 1..Len(s)
      /\ \A k \in 1..d : c + k \in 1..Len(s)
      /\ \A k \in 1..c, j \in 1..d : k # c + j
      /\ \A j, k \in 1..d : c + j = c + k => j = k
      /\ \A k \in 1..Len(s) : k \in 1..c \/ \E j \in 1..d : k = c + j
  <2>1. ASSUME NEW k \in 1..Len(s), k \notin 1..c PROVE \E j \in 1..d : k = c + j
    <3>1. k - c \in 1..d /\ k = c + (k - c)
      BY <1>1, <2>1
    <3> QED BY <3>1
  <2> QED BY <1>1, <2>1
<1>3. \A k \in 1..Len(s) : s[k] # Empty => s[k][1] \in Names
  BY <1>1, <1>a, PairFacts
<1>4. ASSUME OnceEach(s)
      PROVE  OnceEach(given.cli) /\ OnceEach(given.file) /\ ~InBoth
  <2>1. OnceEach(given.cli)
    BY <1>1, <1>2, <1>4 DEF OnceEach, c
  <2>2. OnceEach(given.file)
    <3> SUFFICES ASSUME NEW j \in 1..d, NEW k \in 1..d, given.file[j] # Empty,
                        given.file[j][1] = given.file[k][1]
                 PROVE  j = k
      BY DEF OnceEach, d
    <3>1. s[c + j] # Empty /\ s[c + j][1] = s[c + k][1] /\ c + j \in 1..Len(s) /\ c + k \in 1..Len(s)
      BY <1>1, <1>2
    <3>2. c + j = c + k
      BY <1>4, <3>1, Zenon DEF OnceEach
    <3> QED BY <1>2, <3>2
  <2>3. ASSUME InBoth PROVE FALSE
    <3>1. PICK n \in Names : GivenIn(given.cli, n) # {} /\ GivenIn(given.file, n) # {}
      BY <2>3 DEF InBoth
    <3>2. PICK j \in 1..c : given.cli[j][1] = n
      BY <3>1 DEF GivenIn, c
    <3>3. PICK k \in 1..d : given.file[k][1] = n
      BY <3>1 DEF GivenIn, d
    <3>4. s[j][1] = n /\ s[c + k][1] = n /\ j \in 1..Len(s) /\ c + k \in 1..Len(s)
      BY <1>1, <1>2, <3>2, <3>3
    <3>5. s[j] # Empty
      BY <3>4, OddPieces
    <3>6. j = c + k
      BY <1>4, <3>4, <3>5, Zenon DEF OnceEach
    <3> QED BY <1>2, <3>6
  <2> QED BY <2>1, <2>2, <2>3
<1>5. ASSUME OnceEach(given.cli), OnceEach(given.file), ~InBoth
      PROVE  OnceEach(s)
  <2> SUFFICES ASSUME NEW j \in 1..Len(s), NEW k \in 1..Len(s), s[j] # Empty, s[j][1] = s[k][1]
               PROVE  j = k
    BY DEF OnceEach
  <2>1. s[j][1] \in Names
    BY <1>3
  <2>2. CASE j \in 1..c /\ k \in 1..c
    BY <1>1, <1>5, <2>2 DEF OnceEach, c
  <2>3. ASSUME NEW m \in 1..d, NEW n \in 1..d, j = c + m, k = c + n PROVE j = k
    <3>1. given.file[m] # Empty /\ given.file[m][1] = given.file[n][1]
      BY <1>1, <2>3
    <3>2. m = n
      BY <1>5, <3>1 DEF OnceEach, d
    <3> QED BY <2>3, <3>2
  <2>4. ASSUME NEW a \in 1..c, NEW m \in 1..d, s[a][1] = s[c + m][1], s[a][1] \in Names PROVE FALSE
    <3>1. given.cli[a][1] = s[a][1] /\ given.file[m][1] = s[a][1]
      BY <1>1, <2>4
    <3>2. given.cli[a][2] \in GivenIn(given.cli, s[a][1]) /\ given.file[m][2] \in GivenIn(given.file, s[a][1])
      BY <3>1 DEF GivenIn, c, d
    <3> QED BY <1>5, <2>4, <3>2 DEF InBoth
  <2> QED BY <1>2, <2>1, <2>2, <2>3, <2>4
<1> QED BY <1>4, <1>5 DEF s

\* What the loops take is what the repository calls acceptable, but for the JAR and for the arguments
\* that are given on both sides, and they read it as it is meant.
LEMMA AcceptedFacts ==
  ASSUME given \in [cli : Options, file : Options]
  PROVE  /\ Accepted <=> AcceptableButJar /\ ~InBoth
         /\ ~InBoth => \A n \in Names : Parsed(n) = Expected(n)
<1>1. ASSUME ~InBoth, NEW n \in Names
      PROVE  Picked(n) = Chosen(n)
  <2>1. Picked(n) = GivenIn(given.cli, n) \cup GivenIn(given.file, n)
    BY PickedFromBoth
  <2> QED BY <1>1, <2>1 DEF InBoth, Chosen
<1>2. ASSUME ~InBoth, NEW n \in Names
      PROVE  Parsed(n) = Expected(n)
  <2>1. Picked(n) = Chosen(n)
    BY <1>1, <1>2
  <2> QED BY <2>1 DEF Parsed, Expected, LocalStart
<1>3. (\A k \in 1..Len(AllPairs) : AllPairs[k] # Malformed)
      <=> \A s \in {given.cli, given.file} : \A k \in 1..Len(s) : s[k] # Malformed
  <2> DEFINE c == Len(given.cli)
             d == Len(given.file)
             l == Len(AllPairs)
  <2>1. /\ c \in Nat /\ d \in Nat /\ l = c + d
        /\ \A k \in 1..c : AllPairs[k] = given.cli[k]
        /\ \A k \in 1..d : AllPairs[c + k] = given.file[k]
    <3>1. given.cli \in Options /\ given.file \in Options
      OBVIOUS
    <3> QED BY <3>1, PiecesInOrder DEF AllPairs
  <2> HIDE DEF c, d, l
  <2>2. /\ \A k \in 1..c : k \in 1..l
        /\ \A k \in 1..d : c + k \in 1..l
        /\ \A k \in 1..l : k \in 1..c \/ (k - c \in 1..d /\ c + (k - c) = k)
    BY <2>1
  <2>3. ASSUME \A k \in 1..l : AllPairs[k] # Malformed
        PROVE  (\A k \in 1..c : given.cli[k] # Malformed) /\ (\A k \in 1..d : given.file[k] # Malformed)
    BY <2>1, <2>2, <2>3
  <2>4. ASSUME \A k \in 1..c : given.cli[k] # Malformed, \A k \in 1..d : given.file[k] # Malformed,
               NEW k \in 1..l
        PROVE  AllPairs[k] # Malformed
    <3>1. CASE k \in 1..c
      BY <2>1, <2>4, <3>1
    <3>2. CASE k - c \in 1..d /\ c + (k - c) = k
      <4>1. AllPairs[k] = given.file[k - c]
        BY <2>1, <3>2
      <4> QED BY <2>4, <3>2, <4>1
    <3> QED BY <2>2, <3>1, <3>2
  <2> QED BY <2>3, <2>4 DEF c, d, l
<1>4. Accepted => ~InBoth
  BY OnceInBoth DEF Accepted
<1>5. ASSUME ~InBoth
      PROVE  Accepted <=> AcceptableButJar
  <2>1. /\ Picked(ConnectionStr) = Chosen(ConnectionStr) /\ Picked(MainClass) = Chosen(MainClass)
        /\ Picked(Exporter) = Chosen(Exporter) /\ Picked(LogLevel) = Chosen(LogLevel)
    BY <1>1, <1>5, ArgNames
  <2>2. ASSUME \A k \in 1..Len(AllPairs) : AllPairs[k] # Malformed
        PROVE  OnceEach(AllPairs) <=> OnceEach(given.cli) /\ OnceEach(given.file)
    BY <1>5, <2>2, OnceInBoth
  <2>3. (OnceEach(AllPairs) /\ \A k \in 1..Len(AllPairs) : AllPairs[k] # Malformed)
        <=> \A s \in {given.cli, given.file} : OnceEach(s) /\ \A k \in 1..Len(s) : s[k] # Malformed
    BY <1>3, <2>2
  <2> QED BY <2>1, <2>3, Zenon DEF Accepted, AcceptableButJar, LocalStart
<1> QED BY <1>2, <1>4, <1>5

\* Whatever the options and the configuration file are, and whatever fails: the parser takes what the
\* repository calls acceptable, unless an argument is on the command line and in the file; what it
\* takes is acceptable but for the JAR, and every argument is the one given or its default.
THEOREM OptionsParsed == Spec => []ParseFaithful
<1>1. Init => ReadInv
  BY DEF Init, ReadInv
<1>2. StartInv /\ ReadInv => ParseFaithful
  <2> SUFFICES ASSUME StartInv, ReadInv, At("sinks")
               PROVE  /\ Acceptable => err = "none" \/ InBoth
                      /\ err = "none" => AcceptableButJar /\ \A n \in Names : args[n] = Expected(n)
    BY DEF ParseFaithful
  <2>1. (err = "none" <=> Accepted) /\ (err = "none" => \A n \in Names : args[n] = Parsed(n))
    BY DEF ReadInv, At
  <2>2. given \in [cli : Options, file : Options]
    BY DEF StartInv, OptionsInv
  <2>3. Acceptable => AcceptableButJar
    BY DEF Acceptable
  <2> QED BY <2>1, <2>2, <2>3, AcceptedFacts
<1> QED BY StartCorrect, <1>1, <1>2, ReadStep, PTL DEF Spec

-------------------------------------------------------------------------------
\* Logging, for every set of loggers and threads, every bound and every order of the threads' steps,
\* with attachments that open the file again: what the two sinks hold, and what a refused record
\* leaves on stderr.

Places == {"idle", "stdout", "file", "failed", "report"}
Records == [logger : Loggers, by : LogThreads, n : Nat]

\* Everything but the registry is in its type.
LogTypes ==
  /\ at \in [LogThreads -> Places]
  /\ record \in [LogThreads -> Records \cup {NoRecord}]
  /\ made \in [LogThreads -> Nat]
  /\ seen \in [LogThreads -> Nat]
  /\ lastError \in [Loggers -> Nat]
  /\ out \in Seq(Records) /\ file \in Seq(Records) /\ flushed \in 0..Len(file)
  /\ now \in Nat /\ now >= Quiet

\* A thread inside logger::log holds its own record, the last one it made.
OwnRecord == \A t \in LogThreads :
  at[t] # "idle" => record[t] \in Records /\ record[t].by = t /\ record[t].n = made[t]

\* The times: of the last report of a logger, of a thread that is about to report, of a loss.
TimesInv ==
  /\ \A l \in Loggers :
       /\ lastError[l] <= now
       /\ lastError[l] = 0 \/ [logger |-> l, at |-> lastError[l]] \in reports
  /\ \A t \in LogThreads : at[t] = "report" => seen[t] <= now
  /\ \A x \in lost :
       /\ x.at \in Nat /\ x.at <= now /\ x.record \in Records
       /\ \A t \in LogThreads : at[t] = "report" /\ record[t] = x.record => x.at <= seen[t]

LossInv == LogTypes /\ OwnRecord /\ TimesInv /\ LossReported

\* A sink does not hold the record of a thread that has not come to it, nor a later one.
Before(s, t) == \A k \in 1..Len(s) : s[k].by = t => s[k].n < made[t]
SinkInv ==
  /\ \A s \in {out, file} : \A k \in 1..Len(s) : s[k].n <= made[s[k].by]
  /\ \A t \in LogThreads :
       /\ at[t] = "stdout" => Before(out, t)
       /\ at[t] \in {"stdout", "file"} => Before(file, t)
       /\ at[t] = "file" => \E k \in 1..Len(out) : out[k] = record[t]

AgreeInv == LogTypes /\ OwnRecord /\ SinkInv /\ SinksAgree

-------------------------------------------------------------------------------
\* Every step but those of the threads leaves the log alone, or cuts off the start of the file.
LogFrame ==
  /\ at' = at /\ record' = record /\ made' = made /\ seen' = seen /\ now' = now
  /\ out' = out /\ lost' = lost /\ reports' = reports /\ lastError' = lastError
  /\ \/ file' = file /\ flushed' = flushed
     \/ file' = SubSeq(file, flushed + 1, Len(file)) /\ flushed' = 0

LEMMA StepsFrame == [Next]_vars => Logs \/ LogFrame
<1>1. OnLoad \/ OnAttach => LogFrame
  BY DEF OnLoad, OnAttach, LogFrame, logVars
<1>2. NoOptionsString \/ ParseCLI \/ ParseConfigFile \/ CheckForMandatoryArgs \/ ValidateArgs
      \/ FillMissingWithDefaults => LogFrame
  BY DEF NoOptionsString, ParseCLI, ParseConfigFile, CheckForMandatoryArgs, ValidateArgs,
         FillMissingWithDefaults, Parsing, Elsewhere, LogFrame, logVars
<1>3. FillClassOutputDir \/ ConnectionStrToNanomsgAddr \/ Verdict \/ Jvmti \/ Launch \/ Connect
      => LogFrame
  BY DEF FillClassOutputDir, ConnectionStrToNanomsgAddr, Elsewhere, Verdict, Jvmti, Launch, Connect,
         LogFrame, logVars
<1>4. \A new : OnlyLevel(new) => LogFrame
  BY DEF OnlyLevel, sinkVars, LogFrame
<1>5. CreateSinks \/ RegisterLoggers \/ SetLogLevel => LogFrame
  BY <1>4 DEF CreateSinks, RegisterLoggers, SetLogLevel
<1>6. OpenLogFile => LogFrame
  BY DEF OpenLogFile, LogFrame
<1>7. UNCHANGED vars => LogFrame
  BY DEF vars, logVars, LogFrame
<1> QED BY <1>1, <1>2, <1>3, <1>5, <1>6, <1>7 DEF Next, StartStep

\* What is left of a sequence whose start is cut off.
LEMMA CutFacts ==
  ASSUME NEW S, NEW s \in Seq(S), NEW m \in 0..Len(s)
  PROVE  LET r == SubSeq(s, m + 1, Len(s)) IN
           /\ r \in Seq(S) /\ Len(r) = Len(s) - m
           /\ \A k \in 1..Len(r) : k + m \in 1..Len(s) /\ r[k] = s[k + m]
BY SubSeqProperties

LEMMA AppendFacts ==
  ASSUME NEW S, NEW s \in Seq(S), NEW e \in S
  PROVE  /\ Append(s, e) \in Seq(S) /\ Len(Append(s, e)) = Len(s) + 1 /\ Len(s) \in Nat
         /\ \A k \in 1..Len(s) : Append(s, e)[k] = s[k]
         /\ Append(s, e)[Len(s) + 1] = e
BY AppendProperties, LenProperties

-------------------------------------------------------------------------------
\* Types, and each thread's own record.

LEMMA FrameTypes == LogTypes /\ LogFrame => LogTypes'
<1> SUFFICES ASSUME LogTypes, LogFrame PROVE LogTypes'
  OBVIOUS
<1>1. file' \in Seq(Records) /\ flushed' \in 0..Len(file')
  <2>1. CASE file' = file /\ flushed' = flushed
    BY <2>1 DEF LogTypes
  <2>2. CASE file' = SubSeq(file, flushed + 1, Len(file)) /\ flushed' = 0
    <3>1. file \in Seq(Records) /\ flushed \in 0..Len(file)
      BY DEF LogTypes
    <3>2. file' \in Seq(Records) /\ Len(file') \in Nat
      BY <2>2, <3>1, CutFacts, LenProperties
    <3> QED BY <2>2, <3>2
  <2> QED BY <2>1, <2>2 DEF LogFrame
<1> QED BY <1>1 DEF LogTypes, LogFrame

LEMMA MoveFacts ==
  ASSUME LogTypes, NEW t \in LogThreads, NEW from, NEW to \in Places, MoveLog(t, from, to)
  PROVE  /\ at[t] = from /\ at'[t] = to /\ at' \in [LogThreads -> Places]
         /\ \A u \in LogThreads : u # t => at'[u] = at[u]
BY DEF LogTypes, MoveLog

LEMMA StepTypes ==
  ASSUME LogTypes, OwnRecord, NEW t \in LogThreads, LogStep(t)
  PROVE  LogTypes'
<1>0. /\ out \in Seq(Records) /\ file \in Seq(Records) /\ flushed \in 0..Len(file) /\ Len(file) \in Nat
      /\ made \in [LogThreads -> Nat] /\ seen \in [LogThreads -> Nat] /\ lastError \in [Loggers -> Nat]
      /\ now \in Nat /\ now >= Quiet /\ at \in [LogThreads -> Places]
      /\ record \in [LogThreads -> Records \cup {NoRecord}]
  BY LenProperties DEF LogTypes
<1>1. ASSUME NEW l \in Loggers, NEW v \in {"info", "error"}, Log(t, l, v)
      PROVE  LogTypes'
  <2>1. at' \in [LogThreads -> Places] /\ made' \in [LogThreads -> Nat]
    BY <1>0, <1>1, MoveFacts DEF Log, Places
  <2>2. record' \in [LogThreads -> Records \cup {NoRecord}]
    <3> DEFINE new == [logger |-> l, by |-> t, n |-> made[t] + 1]
    <3>1. made[t] + 1 \in Nat
      BY <1>0
    <3>2. new \in Records
      BY <3>1 DEF Records
    <3>3. record' = record \/ record' = [record EXCEPT ![t] = new]
      BY <1>1 DEF Log
    <3> HIDE DEF new
    <3> QED BY <1>0, <3>2, <3>3
  <2> QED BY <1>0, <1>1, <2>1, <2>2 DEF LogTypes, Log
<1>2. CASE StdoutSink(t)
  <2>1. at[t] # "idle" /\ at' \in [LogThreads -> Places]
    BY <1>2, MoveFacts DEF StdoutSink, Places
  <2>2. out' \in Seq(Records)
    BY <1>0, <1>2, <2>1, AppendFacts DEF StdoutSink, OwnRecord
  <2> QED BY <1>0, <1>2, <2>1, <2>2 DEF LogTypes, StdoutSink
<1>3. CASE FileSink(t)
  <2>1. at[t] # "idle" /\ at' \in [LogThreads -> Places]
    BY <1>3, MoveFacts DEF FileSink, Places
  <2>2. file' \in Seq(Records) /\ Len(file') = Len(file) + 1
    BY <1>0, <1>3, <2>1, AppendFacts DEF FileSink, OwnRecord
  <2>3. flushed \in 0..Len(file')
    BY <1>0, <2>2
  <2> QED BY <1>0, <1>3, <2>1, <2>2, <2>3 DEF LogTypes, FileSink
<1>4. CASE FileFails(t) \/ SkipReport(t)
  <2>1. at' \in [LogThreads -> Places]
    BY <1>4, MoveFacts DEF FileFails, SkipReport, Places
  <2> QED BY <1>0, <1>4, <2>1 DEF LogTypes, FileFails, SkipReport
<1>5. CASE StartReport(t)
  <2>1. at' \in [LogThreads -> Places]
    BY <1>5, MoveFacts DEF StartReport, Places
  <2>2. seen' \in [LogThreads -> Nat]
    BY <1>0, <1>5 DEF StartReport
  <2> QED BY <1>0, <1>5, <2>1, <2>2 DEF LogTypes, StartReport
<1>6. CASE Report(t)
  <2>1. at' \in [LogThreads -> Places]
    BY <1>6, MoveFacts DEF Report, Places
  <2>2. lastError' \in [Loggers -> Nat]
    BY <1>0, <1>6 DEF Report
  <2> QED BY <1>0, <1>6, <2>1, <2>2 DEF LogTypes, Report
<1> QED BY <1>1, <1>2, <1>3, <1>4, <1>5, <1>6 DEF LogStep

LEMMA StepOwn ==
  ASSUME LogTypes, OwnRecord, NEW t \in LogThreads, LogStep(t)
  PROVE  OwnRecord'
<1>0. made \in [LogThreads -> Nat]
  BY DEF LogTypes
<1>1. ASSUME NEW l \in Loggers, NEW v \in {"info", "error"}, Log(t, l, v)
      PROVE  OwnRecord'
  <2>1. at[t] = "idle" /\ made' = [made EXCEPT ![t] = @ + 1] /\ made'[t] = made[t] + 1
    BY <1>0, <1>1 DEF Log, MoveLog
  <2>2. CASE at' = at /\ record' = record
    BY <1>0, <2>1, <2>2 DEF OwnRecord
  <2>3. CASE /\ MoveLog(t, "idle", "stdout")
             /\ record' = [record EXCEPT ![t] = [logger |-> l, by |-> t, n |-> made[t] + 1]]
    <3> SUFFICES ASSUME NEW u \in LogThreads, at'[u] # "idle"
                 PROVE  record'[u] \in Records /\ record'[u].by = u /\ record'[u].n = made'[u]
      BY DEF OwnRecord
    <3>0. \A w \in LogThreads : w # t => at'[w] = at[w]
      BY <2>3, MoveFacts DEF Places
    <3>1. CASE u = t
      <4>1. record'[t] = [logger |-> l, by |-> t, n |-> made[t] + 1]
        BY <2>3 DEF LogTypes
      <4> QED BY <1>0, <2>1, <3>1, <4>1 DEF Records
    <3>2. CASE u # t
      BY <1>0, <2>1, <2>3, <3>0, <3>2 DEF OwnRecord
    <3> QED BY <3>1, <3>2
  <2> QED BY <1>1, <2>2, <2>3 DEF Log
<1>2. CASE StdoutSink(t) \/ FileSink(t) \/ FileFails(t) \/ SkipReport(t) \/ StartReport(t) \/ Report(t)
  <2>1. /\ at[t] # "idle" /\ record' = record /\ made' = made
        /\ \A u \in LogThreads : u # t => at'[u] = at[u]
    BY <1>2, MoveFacts
    DEF StdoutSink, FileSink, FileFails, SkipReport, StartReport, Report, Places
  <2> QED BY <2>1 DEF OwnRecord
<1> QED BY <1>1, <1>2 DEF LogStep

-------------------------------------------------------------------------------
\* A lost record is reported.

LEMMA LossInit == Init => LossInv /\ AgreeInv
<1> SUFFICES ASSUME Init PROVE LossInv /\ AgreeInv
  OBVIOUS
<1> USE DEF Init, LoggingInit
<1>1. LogTypes
  <2>1. Quiet \in Nat /\ now = Quiet
    BY LoggingAssumption
  <2>2. <<>> \in Seq(Records) /\ Len(<<>>) = 0
    BY EmptySeq
  <2>3. flushed \in 0..Len(file)
    BY <2>2
  <2> QED BY <2>1, <2>2, <2>3 DEF LogTypes, Places
<1>2. OwnRecord
  BY DEF OwnRecord
<1>3. TimesInv /\ LossReported
  <2>1. \A l \in Loggers : lastError[l] = 0 /\ 0 <= now
    <3>1. now = Quiet /\ \A l \in Loggers : lastError[l] = 0
      OBVIOUS
    <3>2. 0 <= Quiet
      BY LoggingAssumption
    <3> QED BY <3>1, <3>2, Zenon
  <2> QED BY <2>1 DEF TimesInv, LossReported
<1>4. SinkInv /\ SinksAgree
  <2>1. Len(out) = 0 /\ Len(file) = 0 /\ 1..0 = {}
    OBVIOUS
  <2> QED BY <2>1 DEF SinkInv, SinksAgree, Before
<1> QED BY <1>1, <1>2, <1>3, <1>4 DEF LossInv, AgreeInv

LEMMA FrameLoss == LossInv /\ LogFrame => LossInv'
<1> SUFFICES ASSUME LossInv, LogFrame PROVE LossInv'
  OBVIOUS
<1>1. LogTypes'
  BY FrameTypes DEF LossInv
<1>2. OwnRecord' /\ TimesInv' /\ LossReported'
  BY DEF LossInv, LogFrame, OwnRecord, TimesInv, LossReported
<1> QED BY <1>1, <1>2 DEF LossInv

\* A step that loses nothing, reports nothing and leaves the times and the threads that are about
\* to report or to look as they are.
LEMMA QuietStep ==
  ASSUME LossInv, NEW t \in LogThreads, at[t] \in {"idle", "stdout", "file"},
         at'[t] \in {"idle", "stdout", "file"},
         \A u \in LogThreads : u # t => at'[u] = at[u] /\ record'[u] = record[u],
         lost' = lost, reports' = reports, lastError' = lastError, seen' = seen, now' = now
  PROVE  TimesInv' /\ LossReported'
<1>1. TimesInv'
  <2>1. \A u \in LogThreads : at'[u] = "report" => at[u] = "report" /\ record'[u] = record[u]
    OBVIOUS
  <2> QED BY <2>1 DEF LossInv, TimesInv
<1>2. LossReported'
  <2> SUFFICES ASSUME NEW x \in lost
               PROVE  \/ \E r \in reports : r.logger = x.record.logger /\ r.at > x.at - Quiet
                      \/ at'[x.record.by] \in {"failed", "report"} /\ record'[x.record.by] = x.record
    BY DEF LossReported
  <2>1. x.record.by \in LogThreads
    BY DEF LossInv, TimesInv, Records
  <2> QED BY <2>1 DEF LossInv, LossReported
<1> QED BY <1>1, <1>2

LEMMA StepLoss ==
  ASSUME LossInv, NEW t \in LogThreads, LogStep(t)
  PROVE  TimesInv' /\ LossReported'
<1>0. /\ LogTypes /\ OwnRecord /\ TimesInv /\ LossReported
      /\ now \in Nat /\ now >= Quiet /\ Quiet \in Nat /\ Quiet > 0
      /\ lastError \in [Loggers -> Nat] /\ seen \in [LogThreads -> Nat]
  BY LoggingAssumption DEF LossInv, LogTypes
<1>1. ASSUME NEW l \in Loggers, NEW v \in {"info", "error"}, Log(t, l, v)
      PROVE  TimesInv' /\ LossReported'
  <2>1. /\ lost' = lost /\ reports' = reports /\ lastError' = lastError /\ seen' = seen /\ now' = now
        /\ at[t] = "idle" /\ \A u \in LogThreads : u # t => record'[u] = record[u]
    BY <1>0, <1>1 DEF Log, LogTypes, MoveLog
  <2>2. at'[t] \in {"idle", "stdout"} /\ \A u \in LogThreads : u # t => at'[u] = at[u]
    BY <1>0, <1>1, <2>1, MoveFacts DEF Log, Places
  <2> QED BY <2>1, <2>2, QuietStep
<1>2. CASE StdoutSink(t)
  <2>1. /\ lost' = lost /\ reports' = reports /\ lastError' = lastError /\ seen' = seen /\ now' = now
        /\ record' = record
    BY <1>2 DEF StdoutSink
  <2>2. at[t] = "stdout" /\ at'[t] = "file" /\ \A u \in LogThreads : u # t => at'[u] = at[u]
    BY <1>0, <1>2, MoveFacts DEF StdoutSink, Places
  <2> QED BY <2>1, <2>2, QuietStep
<1>3. CASE FileSink(t)
  <2>1. /\ lost' = lost /\ reports' = reports /\ lastError' = lastError /\ seen' = seen /\ now' = now
        /\ record' = record
    BY <1>3 DEF FileSink
  <2>2. at[t] = "file" /\ at'[t] = "idle" /\ \A u \in LogThreads : u # t => at'[u] = at[u]
    BY <1>0, <1>3, MoveFacts DEF FileSink, Places
  <2> QED BY <2>1, <2>2, QuietStep
<1>4. CASE FileFails(t)
  <2> DEFINE new == [record |-> record[t], at |-> now]
  <2>1. /\ lost' = lost \cup {new} /\ reports' = reports /\ lastError' = lastError
        /\ seen' = seen /\ now' = now /\ record' = record
    BY <1>4 DEF FileFails
  <2>2. at[t] = "file" /\ at'[t] = "failed" /\ \A u \in LogThreads : u # t => at'[u] = at[u]
    BY <1>0, <1>4, MoveFacts DEF FileFails, Places
  <2>3. record[t] \in Records /\ record[t].by = t
    BY <1>0, <2>2 DEF OwnRecord
  <2>4. new.at = now /\ new.record = record[t]
    OBVIOUS
  <2> HIDE DEF new
  <2>5. \A u \in LogThreads : at'[u] = "report" => at[u] = "report" /\ record[u] # record[t]
    BY <1>0, <2>2, <2>3 DEF OwnRecord
  <2>6. TimesInv'
    BY <1>0, <2>1, <2>3, <2>4, <2>5 DEF TimesInv
  <2>7. LossReported'
    <3> SUFFICES ASSUME NEW x \in lost'
                 PROVE  \/ \E r \in reports : r.logger = x.record.logger /\ r.at > x.at - Quiet
                        \/ at'[x.record.by] \in {"failed", "report"} /\ record[x.record.by] = x.record
      BY <2>1 DEF LossReported
    <3>1. CASE x = new
      BY <2>2, <2>3, <2>4, <3>1
    <3>2. CASE x \in lost
      <4>1. x.record.by \in LogThreads
        BY <1>0, <3>2 DEF TimesInv, Records
      <4> QED BY <1>0, <2>2, <3>2, <4>1 DEF LossReported
    <3> QED BY <2>1, <3>1, <3>2
  <2> QED BY <2>6, <2>7
<1>5. CASE SkipReport(t)
  <2> DEFINE l == record[t].logger
  <2>1. /\ lost' = lost /\ reports' = reports /\ lastError' = lastError /\ seen' = seen /\ now' = now
        /\ record' = record /\ now - lastError[l] < Quiet
    BY <1>5 DEF SkipReport
  <2>2. at[t] = "failed" /\ at'[t] = "idle" /\ \A u \in LogThreads : u # t => at'[u] = at[u]
    BY <1>0, <1>5, MoveFacts DEF SkipReport, Places
  <2>3. l \in Loggers
    BY <1>0, <2>2 DEF OwnRecord, Records
  <2>4. /\ lastError[l] \in Nat /\ lastError[l] # 0 /\ [logger |-> l, at |-> lastError[l]] \in reports
    BY <1>0, <2>1, <2>3 DEF TimesInv
  <2> HIDE DEF l
  <2>5. TimesInv'
    <3>1. \A u \in LogThreads : at'[u] = "report" => at[u] = "report"
      BY <2>2
    <3> QED BY <1>0, <2>1, <3>1 DEF TimesInv
  <2>6. LossReported'
    <3> SUFFICES ASSUME NEW x \in lost
                 PROVE  \/ \E r \in reports : r.logger = x.record.logger /\ r.at > x.at - Quiet
                        \/ at'[x.record.by] \in {"failed", "report"} /\ record[x.record.by] = x.record
      BY <2>1 DEF LossReported
    <3>1. x.record.by \in LogThreads /\ x.at \in Nat /\ x.at <= now
      BY <1>0 DEF TimesInv, Records
    <3>2. CASE record[t] = x.record
      <4>1. lastError[l] > x.at - Quiet
        BY <1>0, <2>1, <2>4, <3>1
      <4> QED BY <2>4, <3>2, <4>1 DEF l
    <3>3. CASE record[t] # x.record
      BY <1>0, <2>2, <3>1, <3>3 DEF LossReported
    <3> QED BY <3>2, <3>3
  <2> QED BY <2>5, <2>6
<1>6. CASE StartReport(t)
  <2>1. /\ lost' = lost /\ reports' = reports /\ lastError' = lastError /\ now' = now
        /\ record' = record /\ seen' = [seen EXCEPT ![t] = now]
    BY <1>6 DEF StartReport
  <2>2. at[t] = "failed" /\ at'[t] = "report" /\ \A u \in LogThreads : u # t => at'[u] = at[u]
    BY <1>0, <1>6, MoveFacts DEF StartReport, Places
  <2>3. seen'[t] = now /\ \A u \in LogThreads : u # t => seen'[u] = seen[u]
    BY <1>0, <2>1
  <2>4. TimesInv'
    BY <1>0, <2>1, <2>2, <2>3 DEF TimesInv
  <2>5. LossReported'
    <3>1. \A x \in lost : x.record.by \in LogThreads
      BY <1>0 DEF TimesInv, Records
    <3> QED BY <1>0, <2>1, <2>2, <3>1 DEF LossReported
  <2> QED BY <2>4, <2>5
<1>7. CASE Report(t)
  <2> DEFINE l == record[t].logger
             new == [logger |-> l, at |-> seen[t]]
  <2>1. /\ lost' = lost /\ reports' = reports \cup {new} /\ lastError' = [lastError EXCEPT ![l] = seen[t]]
        /\ seen' = seen /\ now' = now /\ record' = record
    BY <1>7 DEF Report
  <2>2. at[t] = "report" /\ at'[t] = "idle" /\ \A u \in LogThreads : u # t => at'[u] = at[u]
    BY <1>0, <1>7, MoveFacts DEF Report, Places
  <2>3. l \in Loggers /\ new.logger = l /\ new.at = seen[t] /\ new \in reports'
    BY <1>0, <2>1, <2>2 DEF OwnRecord, Records
  <2>4. seen[t] \in Nat /\ seen[t] <= now
    BY <1>0, <2>2 DEF TimesInv
  <2>5. TimesInv'
    <3>1. \A k \in Loggers : /\ lastError'[k] <= now
                             /\ lastError'[k] = 0 \/ [logger |-> k, at |-> lastError'[k]] \in reports'
      BY <1>0, <2>1, <2>3, <2>4 DEF TimesInv
    <3>2. \A u \in LogThreads : at'[u] = "report" => at[u] = "report"
      BY <2>2
    <3> HIDE DEF new
    <3> QED BY <1>0, <2>1, <3>1, <3>2 DEF TimesInv
  <2>6. LossReported'
    <3> SUFFICES ASSUME NEW x \in lost
                 PROVE  \/ \E r \in reports' : r.logger = x.record.logger /\ r.at > x.at - Quiet
                        \/ at'[x.record.by] \in {"failed", "report"} /\ record[x.record.by] = x.record
      BY <2>1 DEF LossReported
    <3>1. x.record.by \in LogThreads /\ x.at \in Nat
      BY <1>0 DEF TimesInv, Records
    <3>2. CASE record[t] = x.record
      <4>1. seen[t] > x.at - Quiet
        <5>1. x.at <= seen[t]
          BY <1>0, <2>2, <3>2 DEF TimesInv
        <5> QED BY <1>0, <2>4, <3>1, <5>1
      <4> QED BY <2>3, <3>2, <4>1
    <3>3. CASE record[t] # x.record
      <4> HIDE DEF new
      <4> QED BY <1>0, <2>1, <2>2, <3>1, <3>3 DEF LossReported
    <3> QED BY <3>2, <3>3
  <2> QED BY <2>5, <2>6
<1> QED BY <1>1, <1>2, <1>3, <1>4, <1>5, <1>6, <1>7 DEF LogStep

\* The buffer of the file and the clock.
LEMMA IdleTypes == LogTypes /\ OwnRecord /\ (Spill \/ Tick) => LogTypes' /\ OwnRecord'
<1> SUFFICES ASSUME LogTypes, OwnRecord, Spill \/ Tick PROVE LogTypes' /\ OwnRecord'
  OBVIOUS
<1>1. at' = at /\ record' = record /\ made' = made /\ seen' = seen /\ lastError' = lastError
      /\ out' = out /\ file' = file
  BY DEF Spill, Tick
<1>2. flushed' \in 0..Len(file) /\ now' \in Nat /\ now' >= Quiet
  <2>1. flushed \in 0..Len(file) /\ Len(file) \in Nat /\ now \in Nat /\ now >= Quiet /\ Quiet \in Nat
    BY LenProperties, LoggingAssumption DEF LogTypes
  <2>2. \/ now' = now /\ flushed' \in flushed + 1 .. Len(file)
        \/ now' = now + 1 /\ flushed' = flushed
    BY DEF Spill, Tick
  <2> QED BY <2>1, <2>2
<1> QED BY <1>1, <1>2 DEF LogTypes, OwnRecord

LEMMA IdleLoss == LossInv /\ (Spill \/ Tick) => LossInv'
<1> SUFFICES ASSUME LossInv, Spill \/ Tick PROVE LossInv'
  OBVIOUS
<1>1. /\ at' = at /\ record' = record /\ seen' = seen /\ lastError' = lastError
      /\ lost' = lost /\ reports' = reports
  BY DEF Spill, Tick
<1>2. now \in Nat /\ (now' = now \/ now' = now + 1)
  BY DEF Spill, Tick, LossInv, LogTypes
<1>3. TimesInv'
  <2>1. \A m \in Nat : m <= now => m <= now'
    BY <1>2
  <2>2. lastError \in [Loggers -> Nat] /\ seen \in [LogThreads -> Nat]
    BY DEF LossInv, LogTypes
  <2> QED BY <1>1, <2>1, <2>2 DEF LossInv, TimesInv
<1>4. LossReported'
  BY <1>1 DEF LossInv, LossReported
<1> QED BY <1>3, <1>4, IdleTypes DEF LossInv

\* Whatever the threads do, however often the agent is attached, and whenever the clock ticks: a
\* record the file refused is answered by a report on stderr that is less than Quiet older, or by
\* its thread, which is still about to look.
THEOREM LossesReported == Spec => []LossReported
<1>1. LossInv /\ [Next]_vars => LossInv'
  <2> SUFFICES ASSUME LossInv, [Next]_vars PROVE LossInv'
    OBVIOUS
  <2>1. ASSUME NEW t \in LogThreads, LogStep(t) PROVE LossInv'
    BY <2>1, StepTypes, StepOwn, StepLoss DEF LossInv
  <2>2. CASE LogNext
    BY <2>1, <2>2, IdleLoss DEF LogNext
  <2> QED BY <2>2, StepsFrame, FrameLoss DEF Logs
<1>2. LossInv => LossReported
  BY DEF LossInv
<1> QED BY LossInit, <1>1, <1>2, PTL DEF Spec

-------------------------------------------------------------------------------
\* The sinks agree.

LEMMA FrameAgree == AgreeInv /\ LogFrame => AgreeInv'
<1> SUFFICES ASSUME AgreeInv, LogFrame PROVE AgreeInv'
  OBVIOUS
<1>0. LogTypes' /\ OwnRecord'
  BY FrameTypes DEF AgreeInv, LogFrame, OwnRecord
<1>1. at' = at /\ record' = record /\ made' = made /\ out' = out
  BY DEF LogFrame
<1>2. file \in Seq(Records) /\ flushed \in 0..Len(file) /\ Len(file) \in Nat
  BY LenProperties DEF AgreeInv, LogTypes
<1>3. PICK m \in 0..Len(file) :
        Len(file') \in Nat /\ \A k \in 1..Len(file') : k + m \in 1..Len(file) /\ file'[k] = file[k + m]
  <2>1. CASE file' = file
    <3>1. \A k \in 1..Len(file') : k + 0 \in 1..Len(file) /\ file'[k] = file[k + 0]
      BY <1>2, <2>1
    <3> QED BY <1>2, <2>1, <3>1
  <2>2. CASE file' = SubSeq(file, flushed + 1, Len(file))
    <3>1. /\ Len(file') = Len(file) - flushed
          /\ \A k \in 1..Len(file') : k + flushed \in 1..Len(file) /\ file'[k] = file[k + flushed]
      BY <1>2, <2>2, CutFacts
    <3>2. Len(file') \in Nat
      BY <1>2, <3>1
    <3> QED BY <1>2, <3>1, <3>2
  <2> QED BY <2>1, <2>2 DEF LogFrame
<1>4. SinkInv'
  <2>1. \A k \in 1..Len(file') : file'[k].n <= made[file'[k].by]
    BY <1>3 DEF AgreeInv, SinkInv
  <2>2. \A k \in 1..Len(out) : out[k].n <= made[out[k].by]
    BY DEF AgreeInv, SinkInv
  <2>3. \A t \in LogThreads : at[t] \in {"stdout", "file"} =>
          \A k \in 1..Len(file') : file'[k].by = t => file'[k].n < made[t]
    BY <1>3 DEF AgreeInv, SinkInv, Before
  <2> QED BY <1>1, <2>1, <2>2, <2>3 DEF AgreeInv, SinkInv, Before
<1>5. SinksAgree'
  <2>1. ASSUME NEW j \in 1..Len(file'), NEW k \in 1..Len(file'), j < k, file'[j].by = file'[k].by
        PROVE  file'[j].n < file'[k].n
    <3>1. j + m < k + m /\ j + m \in 1..Len(file) /\ k + m \in 1..Len(file)
      BY <1>3, <2>1
    <3> QED BY <1>3, <2>1, <3>1 DEF AgreeInv, SinksAgree
  <2>2. \A j, k \in 1..Len(out) : j < k /\ out[j].by = out[k].by => out[j].n < out[k].n
    BY DEF AgreeInv, SinksAgree
  <2>3. \A j \in 1..Len(file') : \E k \in 1..Len(out) : file'[j] = out[k]
    BY <1>3 DEF AgreeInv, SinksAgree
  <2> QED BY <1>1, <2>1, <2>2, <2>3 DEF SinksAgree
<1> QED BY <1>0, <1>4, <1>5 DEF AgreeInv

\* The two parts of what is said of each sink.
Ordered(s) == \A j, k \in 1..Len(s) : j < k /\ s[j].by = s[k].by => s[j].n < s[k].n
Made(s) == \A k \in 1..Len(s) : s[k].n <= made[s[k].by]
LEMMA AgreeParts ==
  SinksAgree <=> /\ Ordered(out) /\ Ordered(file)
                 /\ \A j \in 1..Len(file) : \E k \in 1..Len(out) : file[j] = out[k]
BY DEF SinksAgree, Ordered

\* A record that comes to a sink is later than all of its thread that are there.
LEMMA AppendOrder ==
  ASSUME NEW s \in Seq(Records), NEW t \in LogThreads, NEW e \in Records, e.by = t, e.n = made[t],
         Before(s, t), made \in [LogThreads -> Nat], Ordered(s), Made(s)
  PROVE  LET a == Append(s, e) IN
           /\ Ordered(a) /\ Made(a)
           /\ \A k \in 1..Len(a) : (k \in 1..Len(s) /\ a[k] = s[k]) \/ a[k] = e
           /\ \A k \in 1..Len(s) : k \in 1..Len(a) /\ a[k] = s[k]
           /\ Len(a) \in 1..Len(a) /\ a[Len(a)] = e
<1> DEFINE a == Append(s, e)
<1>1. /\ Len(a) = Len(s) + 1 /\ Len(s) \in Nat
      /\ \A k \in 1..Len(s) : a[k] = s[k]
      /\ a[Len(s) + 1] = e
  BY AppendFacts
<1> HIDE DEF a
<1>2. \A k \in 1..Len(a) : k \in 1..Len(s) \/ k = Len(s) + 1
  BY <1>1
<1>3. \A k \in 1..Len(s) : k \in 1..Len(a)
  BY <1>1
<1>4. \A k \in 1..Len(a) : a[k].n <= made[a[k].by]
  <2>1. e.n <= made[e.by]
    OBVIOUS
  <2> QED BY <1>1, <1>2, <2>1 DEF Made
<1>5. ASSUME NEW j \in 1..Len(a), NEW k \in 1..Len(a), j < k, a[j].by = a[k].by
      PROVE  a[j].n < a[k].n
  <2>1. j \in 1..Len(s)
    BY <1>1, <1>2, <1>5
  <2>2. CASE k \in 1..Len(s)
    BY <1>1, <1>5, <2>1, <2>2 DEF Ordered
  <2>3. CASE k = Len(s) + 1
    BY <1>1, <1>5, <2>1, <2>3 DEF Before
  <2> QED BY <1>2, <2>2, <2>3
<1>6. Ordered(a) /\ Made(a)
  BY <1>4, <1>5 DEF Ordered, Made
<1>7. Len(a) \in 1..Len(a) /\ Len(a) = Len(s) + 1
  BY <1>1
<1> QED BY <1>1, <1>2, <1>3, <1>6, <1>7 DEF a

LEMMA StepAgree ==
  ASSUME AgreeInv, NEW t \in LogThreads, LogStep(t)
  PROVE  SinkInv' /\ SinksAgree'
<1>0. /\ LogTypes /\ OwnRecord /\ SinkInv /\ SinksAgree
      /\ out \in Seq(Records) /\ file \in Seq(Records) /\ made \in [LogThreads -> Nat]
      /\ Ordered(out) /\ Ordered(file) /\ Made(out) /\ Made(file)
      /\ \A j \in 1..Len(file) : \E k \in 1..Len(out) : file[j] = out[k]
  BY AgreeParts DEF AgreeInv, LogTypes, SinkInv, Made
<1>1. ASSUME NEW l \in Loggers, NEW v \in {"info", "error"}, Log(t, l, v)
      PROVE  SinkInv' /\ SinksAgree'
  <2>1. out' = out /\ file' = file /\ at[t] = "idle" /\ made' = [made EXCEPT ![t] = @ + 1]
    BY <1>1 DEF Log, MoveLog
  <2>2. /\ made'[t] = made[t] + 1 /\ made[t] \in Nat
        /\ \A u \in LogThreads : u # t => made'[u] = made[u]
    BY <1>0, <2>1
  <2>3. /\ at'[t] \in {"idle", "stdout"}
        /\ \A u \in LogThreads : u # t => at'[u] = at[u] /\ record'[u] = record[u]
    <3>1. CASE at' = at /\ record' = record
      BY <2>1, <3>1
    <3>2. CASE /\ MoveLog(t, "idle", "stdout")
               /\ record' = [record EXCEPT ![t] = [logger |-> l, by |-> t, n |-> made[t] + 1]]
      BY <1>0, <3>2, MoveFacts DEF Places, LogTypes
    <3> QED BY <1>1, <3>1, <3>2 DEF Log
  <2>4. ASSUME NEW s \in {out, file}
        PROVE  \A k \in 1..Len(s) : /\ s[k].n \in Nat /\ s[k].by \in LogThreads
                                    /\ s[k].n <= made[s[k].by] /\ s[k].n <= made'[s[k].by]
                                    /\ s[k].by = t => s[k].n < made'[t]
    <3>1. \A k \in 1..Len(s) : s[k] \in Records /\ s[k].n <= made[s[k].by]
      BY <1>0, <2>4, ElementOfSeq DEF SinkInv
    <3>2. \A k \in 1..Len(s) : s[k].n \in Nat /\ s[k].by \in LogThreads
      BY <3>1 DEF Records
    <3> QED BY <2>2, <3>1, <3>2
  <2>5. SinkInv'
    <3>1. \A s \in {out, file} : \A k \in 1..Len(s) : s[k].n <= made'[s[k].by]
      BY <2>4
    <3>2. ASSUME NEW u \in LogThreads
          PROVE  /\ at'[u] = "stdout" => \A k \in 1..Len(out) : out[k].by = u => out[k].n < made'[u]
                 /\ at'[u] \in {"stdout", "file"} =>
                      \A k \in 1..Len(file) : file[k].by = u => file[k].n < made'[u]
                 /\ at'[u] = "file" => \E k \in 1..Len(out) : out[k] = record'[u]
      <4>1. CASE u = t
        BY <2>3, <2>4, <4>1
      <4>2. CASE u # t
        <5>1. at'[u] = at[u] /\ record'[u] = record[u] /\ made'[u] = made[u]
          BY <2>2, <2>3, <4>2
        <5> QED BY <1>0, <5>1 DEF SinkInv, Before
      <4> QED BY <4>1, <4>2
    <3> QED BY <2>1, <3>1, <3>2 DEF SinkInv, Before
  <2>6. SinksAgree'
    BY <1>0, <2>1 DEF SinksAgree
  <2> QED BY <2>5, <2>6
<1>2. CASE StdoutSink(t)
  <2>1. out' = Append(out, record[t]) /\ file' = file /\ made' = made /\ record' = record
    BY <1>2 DEF StdoutSink
  <2>2. at[t] = "stdout" /\ at'[t] = "file" /\ \A u \in LogThreads : u # t => at'[u] = at[u]
    BY <1>0, <1>2, MoveFacts DEF StdoutSink, Places
  <2>3. record[t] \in Records /\ record[t].by = t /\ record[t].n = made[t] /\ Before(out, t)
    BY <1>0, <2>2 DEF OwnRecord, SinkInv
  <2>4. /\ Ordered(out') /\ Made(out')
        /\ \A k \in 1..Len(out') : (k \in 1..Len(out) /\ out'[k] = out[k]) \/ out'[k] = record[t]
        /\ \A k \in 1..Len(out) : k \in 1..Len(out') /\ out'[k] = out[k]
        /\ Len(out') \in 1..Len(out') /\ out'[Len(out')] = record[t]
    BY <1>0, <2>1, <2>3, AppendOrder
  <2>5. \A u \in LogThreads : u # t /\ at[u] = "stdout" =>
          \A k \in 1..Len(out') : out'[k].by = u => out'[k].n < made[u]
    BY <1>0, <2>3, <2>4 DEF SinkInv, Before
  <2>6. SinkInv'
    <3>1. \A s \in {out', file'} : \A k \in 1..Len(s) : s[k].n <= made[s[k].by]
      BY <1>0, <2>1, <2>4 DEF Made
    <3>2. ASSUME NEW u \in LogThreads
          PROVE  /\ at'[u] = "stdout" => \A k \in 1..Len(out') : out'[k].by = u => out'[k].n < made[u]
                 /\ at'[u] \in {"stdout", "file"} =>
                      \A k \in 1..Len(file') : file'[k].by = u => file'[k].n < made[u]
                 /\ at'[u] = "file" => \E k \in 1..Len(out') : out'[k] = record[u]
      <4>1. CASE u = t
        BY <1>0, <2>1, <2>2, <2>4, <4>1 DEF SinkInv, Before
      <4>2. CASE u # t
        <5>1. at'[u] = at[u]
          BY <2>2, <4>2
        <5> QED BY <1>0, <2>1, <2>4, <2>5, <4>2, <5>1 DEF SinkInv, Before
      <4> QED BY <4>1, <4>2
    <3> QED BY <2>1, <3>1, <3>2 DEF SinkInv, Before
  <2>7. SinksAgree'
    <3>1. Ordered(out') /\ Ordered(file')
      BY <1>0, <2>1, <2>4
    <3>2. \A j \in 1..Len(file') : \E k \in 1..Len(out') : file'[j] = out'[k]
      BY <1>0, <2>1, <2>4
    <3> QED BY <3>1, <3>2 DEF SinksAgree, Ordered
  <2> QED BY <2>6, <2>7
<1>3. CASE FileSink(t)
  <2>1. file' = Append(file, record[t]) /\ out' = out /\ made' = made /\ record' = record
    BY <1>3 DEF FileSink
  <2>2. at[t] = "file" /\ at'[t] = "idle" /\ \A u \in LogThreads : u # t => at'[u] = at[u]
    BY <1>0, <1>3, MoveFacts DEF FileSink, Places
  <2>3. /\ record[t] \in Records /\ record[t].by = t /\ record[t].n = made[t] /\ Before(file, t)
        /\ \E k \in 1..Len(out) : out[k] = record[t]
    BY <1>0, <2>2 DEF OwnRecord, SinkInv
  <2>4. /\ Ordered(file') /\ Made(file')
        /\ \A k \in 1..Len(file') : (k \in 1..Len(file) /\ file'[k] = file[k]) \/ file'[k] = record[t]
    BY <1>0, <2>1, <2>3, AppendOrder
  <2>5. \A u \in LogThreads : u # t /\ at[u] \in {"stdout", "file"} =>
          \A k \in 1..Len(file') : file'[k].by = u => file'[k].n < made[u]
    BY <1>0, <2>3, <2>4 DEF SinkInv, Before
  <2>6. SinkInv'
    <3>1. \A s \in {out', file'} : \A k \in 1..Len(s) : s[k].n <= made[s[k].by]
      BY <1>0, <2>1, <2>4 DEF Made
    <3>2. ASSUME NEW u \in LogThreads
          PROVE  /\ at'[u] = "stdout" => \A k \in 1..Len(out') : out'[k].by = u => out'[k].n < made[u]
                 /\ at'[u] \in {"stdout", "file"} =>
                      \A k \in 1..Len(file') : file'[k].by = u => file'[k].n < made[u]
                 /\ at'[u] = "file" => \E k \in 1..Len(out') : out'[k] = record[u]
      <4>1. CASE u = t
        BY <1>0, <2>1, <2>2, <2>4, <4>1 DEF SinkInv, Before
      <4>2. CASE u # t
        <5>1. at'[u] = at[u]
          BY <2>2, <4>2
        <5> QED BY <1>0, <2>1, <2>4, <2>5, <4>2, <5>1 DEF SinkInv, Before
      <4> QED BY <4>1, <4>2
    <3> QED BY <2>1, <3>1, <3>2 DEF SinkInv, Before
  <2>7. SinksAgree'
    <3>1. Ordered(out') /\ Ordered(file')
      BY <1>0, <2>1, <2>4
    <3>2. \A j \in 1..Len(file') : \E k \in 1..Len(out') : file'[j] = out'[k]
      BY <1>0, <2>1, <2>3, <2>4
    <3> QED BY <3>1, <3>2 DEF SinksAgree, Ordered
  <2> QED BY <2>6, <2>7
<1>4. CASE FileFails(t) \/ SkipReport(t) \/ StartReport(t) \/ Report(t)
  <2>1. /\ out' = out /\ file' = file /\ made' = made /\ record' = record
        /\ at'[t] \in {"failed", "idle", "report"} /\ \A u \in LogThreads : u # t => at'[u] = at[u]
    BY <1>0, <1>4, MoveFacts DEF FileFails, SkipReport, StartReport, Report, Places
  <2>2. SinkInv'
    BY <1>0, <2>1 DEF SinkInv, Before
  <2>3. SinksAgree'
    BY <1>0, <2>1 DEF SinksAgree
  <2> QED BY <2>2, <2>3
<1> QED BY <1>1, <1>2, <1>3, <1>4 DEF LogStep

\* Whatever the order of the threads between the two sinks, and however often the file is opened
\* again: both hold each thread's records once and in the order it made them, and the file none that
\* was not printed before.
THEOREM SinksInStep == Spec => []SinksAgree
<1>1. AgreeInv /\ [Next]_vars => AgreeInv'
  <2> SUFFICES ASSUME AgreeInv, [Next]_vars PROVE AgreeInv'
    OBVIOUS
  <2>1. ASSUME NEW t \in LogThreads, LogStep(t) PROVE AgreeInv'
    BY <2>1, StepTypes, StepOwn, StepAgree DEF AgreeInv
  <2>2. CASE Spill \/ Tick
    <3>1. at' = at /\ record' = record /\ made' = made /\ out' = out /\ file' = file
      BY <2>2 DEF Spill, Tick
    <3>2. SinkInv' /\ SinksAgree'
      BY <3>1 DEF AgreeInv, SinkInv, SinksAgree, Before
    <3> QED BY <2>2, <3>2, IdleTypes DEF AgreeInv
  <2>3. CASE LogNext
    BY <2>1, <2>2, <2>3 DEF LogNext
  <2> QED BY <2>3, StepsFrame, FrameAgree DEF Logs
<1>2. AgreeInv => SinksAgree
  BY DEF AgreeInv
<1> QED BY LossInit, <1>1, <1>2, PTL DEF Spec
===============================================================================
