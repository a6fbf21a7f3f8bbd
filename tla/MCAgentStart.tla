----------------------------- MODULE MCAgentStart -----------------------------
(* Instances of AgentStart for TLC.                                            *)
EXTENDS AgentStart, SequencesExt, TLC

CONSTANTS T1, T2

Jar == <<ServerJar, "given">>
Main == <<MainClass, "given">>
Local == <<Main, Jar>>
\* What may follow the arguments of a local start on the command line.
Extras == {<<LogLevel, "info">>, <<LogLevel, "bad">>, <<LogDir, "given">>, <<ConnectionStr, "ipc">>,
           <<ConnectionStr, "tcp">>, <<ConnectionStr, "bad">>, <<Exporter, "given">>,
           <<Exporter, "bad">>, <<ConfigFile, "given">>, <<ClassOutputDir, "given">>, Main,
           Empty, Malformed}
Lines == {<<LogLevel, "off">>, <<LogDir, "given">>, <<ConfigFile, "given">>, <<ConnectionStr, "tcp">>,
          Jar, Empty, Malformed}
AllCommandLines == {p \o s : p \in {<<>>, <<Main>>, Local}, s \in SeqOf(Extras, 2)}
AllFiles == SeqOf(Lines, 2)
\* One start, for the concurrent logging that follows it.
OneCommandLine == {Local \o <<<<LogLevel, "error">>>>}
NoFiles == {<<>>}
Attachments == {<<Main, Jar>>, <<Main, <<LogLevel, "bad">>, <<LogDir, "given">>>>}
LogSymmetry == Permutations(LogThreads)
===============================================================================
