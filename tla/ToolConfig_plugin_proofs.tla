------------------------ MODULE ToolConfig_plugin_proofs ------------------------
(***************************************************************************)
(* Proof that every configuration built lists the command line's pass      *)
(* plugins once each and in order (PluginPathsRecorded), for every value   *)
(* of the constants, through the inductive invariant PluginInv.            *)
(***************************************************************************)
EXTENDS ToolConfig_proofs, SequenceTheorems

(***************************************************************************)
(* Lemmas about ListsPassArgs: how the list of the parsed prefix grows by  *)
(* one plugin option.                                                      *)
(***************************************************************************)

\* Before any option is parsed the list is empty.
LEMMA ListsEmpty == ListsPassArgs(<< >>, 0)
<1> DEFINE none == [j \in 1 .. 0 |-> 0]
<1>1. Len(<< >>) = 0
    BY EmptySeq
<1>2. none \in [1 .. Len(<< >>) -> 1 .. 0]
    BY <1>1
<1>3. \A j, k \in 1 .. Len(<< >>) : j < k => none[j] < none[k]
    BY <1>1
<1>4. {none[j] : j \in 1 .. Len(<< >>)} = PassPositions(0)
    BY <1>1 DEF PassPositions
<1>5. \A j \in 1 .. Len(<< >>) : << >>[j] = argv[none[j]].path
    BY <1>1
<1> QED BY <1>2, <1>3, <1>4, <1>5, Zenon DEF ListsPassArgs

\* The -load-pass-plugin callback appends the path of the next option.
LEMMA ListsPass ==
    ASSUME argv \in Seq(PluginArg), NEW ps \in Seq(PluginPaths),
           NEW n \in 0 .. Len(argv) - 1, ListsPassArgs(ps, n),
           argv[n + 1].kind = "pass"
    PROVE  ListsPassArgs(Append(ps, argv[n + 1].path), n + 1)
<1> DEFINE m == Len(ps)
           qs == Append(ps, argv[n + 1].path)
<1>1. argv[n + 1] \in PluginArg
    BY ElementOfSeq
<1>2. /\ Len(qs) = m + 1
      /\ \A j \in 1 .. m : qs[j] = ps[j]
      /\ qs[m + 1] = argv[n + 1].path
      /\ m \in Nat
    BY <1>1, AppendProperties DEF PluginArg
<1> PICK at \in [1 .. m -> 1 .. n] :
        /\ \A j, k \in 1 .. m : j < k => at[j] < at[k]
        /\ {at[j] : j \in 1 .. m} = PassPositions(n)
        /\ \A j \in 1 .. m : ps[j] = argv[at[j]].path
    BY DEF ListsPassArgs
<1> DEFINE at2 == [j \in 1 .. m + 1 |-> IF j <= m THEN at[j] ELSE n + 1]
<1>3. PassPositions(n + 1) = PassPositions(n) \cup {n + 1}
    BY DEF PassPositions
<1>4. at2 \in [1 .. Len(qs) -> 1 .. n + 1]
    BY <1>2
<1>5. \A j, k \in 1 .. Len(qs) : j < k => at2[j] < at2[k]
    BY <1>2
<1>6. {at2[j] : j \in 1 .. Len(qs)} = PassPositions(n + 1)
    BY <1>2, <1>3
<1>7. \A j \in 1 .. Len(qs) : qs[j] = argv[at2[j]].path
    BY <1>2
<1> QED BY <1>4, <1>5, <1>6, <1>7, Zenon DEF ListsPassArgs

\* A dialect-plugin option leaves the list of pass plugins as it is.
LEMMA ListsSkip ==
    ASSUME argv \in Seq(PluginArg), NEW ps \in Seq(PluginPaths),
           NEW n \in 0 .. Len(argv) - 1, ListsPassArgs(ps, n),
           argv[n + 1].kind # "pass"
    PROVE  ListsPassArgs(ps, n + 1)
<1> PICK at \in [1 .. Len(ps) -> 1 .. n] :
        /\ \A j, k \in 1 .. Len(ps) : j < k => at[j] < at[k]
        /\ {at[j] : j \in 1 .. Len(ps)} = PassPositions(n)
        /\ \A j \in 1 .. Len(ps) : ps[j] = argv[at[j]].path
    BY DEF ListsPassArgs
<1>1. PassPositions(n + 1) = PassPositions(n)
    BY DEF PassPositions
<1>2. at \in [1 .. Len(ps) -> 1 .. n + 1]
    BY LenProperties
<1> QED BY <1>1, <1>2, Zenon DEF ListsPassArgs

\* The environment stage does not touch the plugin lists.
LEMMA EnvPopulatedPlugins ==
    ASSUME NEW c \in Config, NEW e \in Env
    PROVE  EnvPopulated(c, e).passPlugins = c.passPlugins
BY DEF EnvPopulated, PopulateTarget, PopulateConfigurationPath,
       PopulateVerbosity, PopulateMaxThreads, Config

(***************************************************************************)
(* The inductive invariant.                                                *)
(***************************************************************************)

LEMMA PluginInit == Init => PluginInv
<1> SUFFICES ASSUME Init PROVE PluginInv
    OBVIOUS
<1>1. TypeOK
    BY TypeInit
<1>2. args = argv /\ Parsed = 0 /\ Len(argv) \in Nat
    BY <1>1 DEF Init, CLIInit, Parsed, TypeOK
<1>3. ArgsUnparsed
    BY <1>2 DEF ArgsUnparsed
<1>4. cli.passPlugins = << >>
    BY DEF Init, CLIInit, ParsedOptions
<1>5. ASSUME NEW s \in Sessions PROVE SessionPlugins(s)
    BY DEF Init, DefaultConfig, SessionPlugins
<1> QED BY <1>1, <1>2, <1>3, <1>4, <1>5, ListsEmpty DEF PluginInv

\* The list of a record or of the singleton is read against argv alone.
LEMMA ListsFrame ==
    ASSUME NEW ps, NEW n, argv' = argv, ListsPassArgs(ps, n)
    PROVE  ListsPassArgs(ps, n)'
BY DEF ListsPassArgs, PassPositions

\* A step that does not parse an option leaves the parser's part of the
\* invariant as it was.
LEMMA ParserFrame ==
    ASSUME ArgsUnparsed, ListsPassArgs(cli.passPlugins, Parsed),
           args' = args, argv' = argv, cli'.passPlugins = cli.passPlugins
    PROVE  ArgsUnparsed' /\ ListsPassArgs(cli.passPlugins, Parsed)'
<1>1. Parsed' = Parsed
    BY DEF Parsed
<1>2. ArgsUnparsed'
    BY <1>1 DEF ArgsUnparsed
<1>3. ListsPassArgs(cli'.passPlugins, Parsed')
    BY <1>1
<1> QED BY <1>2, <1>3, ListsFrame

\* A step that leaves session s's stage and plugin list alone keeps what
\* the invariant says of s.
LEMMA SessionFrame ==
    ASSUME NEW s, SessionPlugins(s), args' = args, argv' = argv,
           pc'[s] = pc[s], cfg'[s].passPlugins = cfg[s].passPlugins
    PROVE  SessionPlugins(s)'
BY ListsFrame DEF SessionPlugins

\* A parser step: the next option is argv[Parsed + 1], and it is consumed.
LEMMA ParseConsumes ==
    ASSUME TypeOK, ArgsUnparsed, args # << >>, args' = Tail(args),
           argv' = argv
    PROVE  /\ Head(args) = argv[Parsed + 1]
           /\ Parsed \in 0 .. Len(argv) - 1
           /\ Parsed' = Parsed + 1
           /\ ArgsUnparsed'
<1>1. args \in Seq(PluginArg) /\ argv \in Seq(PluginArg)
    BY DEF TypeOK
<1>2. /\ Len(args) \in Nat \ {0} /\ Len(argv) \in Nat
      /\ Len(Tail(args)) = Len(args) - 1
      /\ \A i \in 1 .. Len(Tail(args)) : Tail(args)[i] = args[i + 1]
      /\ Head(args) = args[1]
    BY <1>1, HeadTailProperties, EmptySeq, LenProperties
<1>3. Parsed' = Parsed + 1
    BY <1>2 DEF Parsed
<1>4. Parsed \in 0 .. Len(argv) - 1
    BY <1>2 DEF ArgsUnparsed, Parsed
<1>5. Head(args) = argv[Parsed + 1]
    BY <1>2 DEF ArgsUnparsed
<1>6. ArgsUnparsed'
    <2>1. Len(args') <= Len(argv')
        BY <1>2 DEF ArgsUnparsed
    <2>2. ASSUME NEW i \in 1 .. Len(args') PROVE args'[i] = argv'[Parsed' + i]
        <3>1. i + 1 \in 1 .. Len(args) /\ args'[i] = args[i + 1]
            BY <1>2
        <3>2. args[i + 1] = argv[Parsed + (i + 1)]
            BY <3>1 DEF ArgsUnparsed
        <3> QED BY <1>3, <1>4, <3>1, <3>2
    <2> QED BY <2>1, <2>2 DEF ArgsUnparsed
<1> QED BY <1>3, <1>4, <1>5, <1>6

\* A step of a build leaves the parser's part of the invariant, and every
\* other session's part, as they were.
LEMMA BuildFrame ==
    ASSUME TypeOK, ArgsUnparsed, ListsPassArgs(cli.passPlugins, Parsed),
           \A t \in Sessions : SessionPlugins(t),
           NEW s \in Sessions, args' = args, argv' = argv,
           cli'.passPlugins = cli.passPlugins,
           pc' \in [Sessions -> Stage], cfg' \in [Sessions -> Config],
           \A t \in Sessions \ {s} : pc'[t] = pc[t] /\ cfg'[t] = cfg[t]
    PROVE  /\ ArgsUnparsed' /\ ListsPassArgs(cli.passPlugins, Parsed)'
           /\ \A t \in Sessions \ {s} : SessionPlugins(t)'
<1>1. ArgsUnparsed' /\ ListsPassArgs(cli.passPlugins, Parsed)'
    BY ParserFrame
<1>2. ASSUME NEW t \in Sessions \ {s} PROVE SessionPlugins(t)'
    BY SessionFrame
<1> QED BY <1>1, <1>2

\* A build step past the cli stage carries its list along.
LEMMA SessionAdvance ==
    ASSUME NEW s, SessionPlugins(s), args' = args, argv' = argv,
           pc[s] \in {"input", "copyInput", "output", "copyOutput", "done"},
           pc'[s] \in {"input", "copyInput", "output", "copyOutput", "done",
                       "failed"},
           cfg'[s].passPlugins = cfg[s].passPlugins
    PROVE  SessionPlugins(s)'
<1>1. args = << >> /\ ListsPassArgs(cfg[s].passPlugins, Len(argv))
    BY DEF SessionPlugins
<1>2. ListsPassArgs(cfg'[s].passPlugins, Len(argv'))
    BY <1>1
<1> QED BY <1>1, <1>2, ListsFrame DEF SessionPlugins

\* Every step keeps PluginInv.
LEMMA PluginStep == PluginInv /\ [Next]_vars => PluginInv'
<1> SUFFICES ASSUME TypeOK, ArgsUnparsed, ListsPassArgs(cli.passPlugins, Parsed),
                    \A t \in Sessions : SessionPlugins(t), [Next]_vars
             PROVE  ArgsUnparsed' /\ ListsPassArgs(cli.passPlugins, Parsed)'
                    /\ \A t \in Sessions : SessionPlugins(t)'
    BY TypeStep DEF PluginInv
<1>0. TypeOK'
    BY TypeStep
<1>1. CASE RegisterCLOptions /\ UNCHANGED toolVars
    <2>1. args' = args /\ argv' = argv /\ cli' = cli
        BY <1>1 DEF RegisterCLOptions
    <2>2. ASSUME NEW t \in Sessions PROVE SessionPlugins(t)'
        BY <1>1, <2>1, SessionFrame DEF toolVars
    <2> QED BY <2>1, <2>2, ParserFrame
<1>2. CASE ParsePassPlugin /\ UNCHANGED toolVars
    <2>1. /\ Head(args) = argv[Parsed + 1]
          /\ Parsed \in 0 .. Len(argv) - 1
          /\ Parsed' = Parsed + 1
          /\ ArgsUnparsed'
        BY <1>2, ParseConsumes DEF ParsePassPlugin
    <2>2. cli'.passPlugins = Append(cli.passPlugins, argv[Parsed + 1].path)
        BY <1>2, <2>1 DEF ParsePassPlugin
    <2>3. /\ argv \in Seq(PluginArg) /\ cli.passPlugins \in Seq(PluginPaths)
          /\ argv[Parsed + 1].kind = "pass"
        BY <1>2, <2>1 DEF ParsePassPlugin, TypeOK, CliState
    <2>4. ListsPassArgs(cli'.passPlugins, Parsed')
        BY <2>1, <2>2, <2>3, ListsPass
    <2>5. ListsPassArgs(cli.passPlugins, Parsed)'
        BY <1>2, <2>4, ListsFrame DEF ParsePassPlugin
    <2>6. ASSUME NEW t \in Sessions PROVE SessionPlugins(t)'
        <3>1. pc[t] = "idle" /\ cfg[t].passPlugins = << >>
            BY <1>2 DEF ParsePassPlugin, SessionPlugins
        <3> QED BY <1>2, <3>1 DEF toolVars, SessionPlugins
    <2> QED BY <2>1, <2>5, <2>6
<1>3. CASE ParseDialectPlugin /\ UNCHANGED toolVars
    <2>1. /\ Head(args) = argv[Parsed + 1]
          /\ Parsed \in 0 .. Len(argv) - 1
          /\ Parsed' = Parsed + 1
          /\ ArgsUnparsed'
        BY <1>3, ParseConsumes DEF ParseDialectPlugin
    <2>2. cli'.passPlugins = cli.passPlugins
        BY <1>3 DEF ParseDialectPlugin, TypeOK, CliState
    <2>3. /\ argv \in Seq(PluginArg) /\ cli.passPlugins \in Seq(PluginPaths)
          /\ argv[Parsed + 1].kind # "pass"
        BY <1>3, <2>1 DEF ParseDialectPlugin, TypeOK, CliState
    <2>4. ListsPassArgs(cli'.passPlugins, Parsed')
        BY <2>1, <2>2, <2>3, ListsSkip
    <2>5. ListsPassArgs(cli.passPlugins, Parsed)'
        BY <1>3, <2>4, ListsFrame DEF ParseDialectPlugin
    <2>6. ASSUME NEW t \in Sessions PROVE SessionPlugins(t)'
        <3>1. pc[t] = "idle" /\ cfg[t].passPlugins = << >>
            BY <1>3 DEF ParseDialectPlugin, SessionPlugins
        <3> QED BY <1>3, <3>1 DEF toolVars, SessionPlugins
    <2> QED BY <2>1, <2>5, <2>6
<1>4. ASSUME NEW s \in Sessions, BuildStart(s)
      PROVE  ArgsUnparsed' /\ ListsPassArgs(cli.passPlugins, Parsed)'
             /\ \A t \in Sessions : SessionPlugins(t)'
    <2>1. /\ args' = args /\ argv' = argv /\ cli'.passPlugins = cli.passPlugins
          /\ \A t \in Sessions \ {s} : pc'[t] = pc[t] /\ cfg'[t] = cfg[t]
        BY <1>4 DEF BuildStart, cliVars, TypeOK, CliState
    <2>2. /\ ArgsUnparsed' /\ ListsPassArgs(cli.passPlugins, Parsed)'
          /\ \A t \in Sessions \ {s} : SessionPlugins(t)'
        BY <1>0, <2>1, BuildFrame DEF TypeOK
    <2>3. SessionPlugins(s)'
        BY <1>4, <2>1 DEF BuildStart, SessionPlugins, DefaultConfig, TypeOK
    <2> QED BY <2>2, <2>3
<1>5. ASSUME NEW s \in Sessions, EnvStage(s)
      PROVE  ArgsUnparsed' /\ ListsPassArgs(cli.passPlugins, Parsed)'
             /\ \A t \in Sessions : SessionPlugins(t)'
    <2>1. /\ args' = args /\ argv' = argv /\ cli'.passPlugins = cli.passPlugins
          /\ \A t \in Sessions \ {s} : pc'[t] = pc[t] /\ cfg'[t] = cfg[t]
        BY <1>5 DEF EnvStage, cliVars, TypeOK, CliState
    <2>2. /\ ArgsUnparsed' /\ ListsPassArgs(cli.passPlugins, Parsed)'
          /\ \A t \in Sessions \ {s} : SessionPlugins(t)'
        BY <1>0, <2>1, BuildFrame DEF TypeOK
    <2>3. SessionPlugins(s)'
        <3>1. args = << >> /\ cfg[s].passPlugins = << >>
            BY <1>5 DEF EnvStage, SessionPlugins
        <3>2. cfg'[s].passPlugins = << >>
            BY <1>5, <3>1, EnvPopulatedPlugins DEF EnvStage, TypeOK
        <3>3. pc'[s] \in {"failed", "cli"}
            BY <1>5 DEF EnvStage, TypeOK
        <3> QED BY <2>1, <3>1, <3>2, <3>3 DEF SessionPlugins
    <2> QED BY <2>2, <2>3
<1>6. ASSUME NEW s \in Sessions, CliStage(s)
      PROVE  ArgsUnparsed' /\ ListsPassArgs(cli.passPlugins, Parsed)'
             /\ \A t \in Sessions : SessionPlugins(t)'
    <2>1. /\ args' = args /\ argv' = argv /\ cli'.passPlugins = cli.passPlugins
          /\ \A t \in Sessions \ {s} : pc'[t] = pc[t] /\ cfg'[t] = cfg[t]
        BY <1>6 DEF CliStage, cliVars, TypeOK, CliState
    <2>2. /\ ArgsUnparsed' /\ ListsPassArgs(cli.passPlugins, Parsed)'
          /\ \A t \in Sessions \ {s} : SessionPlugins(t)'
        BY <1>0, <2>1, BuildFrame DEF TypeOK
    <2>3. SessionPlugins(s)'
        <3>1. args = << >> /\ cfg[s].passPlugins = << >>
            BY <1>6 DEF CliStage, SessionPlugins
        <3>2. Parsed = Len(argv)
            BY <3>1 DEF Parsed
        <3>3. cfg'[s].passPlugins = cli.passPlugins
            <4>1. cli.passPlugins \in Seq(PluginPaths)
                BY DEF TypeOK, CliState
            <4>2. << >> \o cli.passPlugins = cli.passPlugins
                BY <4>1, ConcatEmptySeq
            <4> QED BY <1>6, <3>1, <4>2 DEF CliStage, CliPopulated, TypeOK
        <3>4. ListsPassArgs(cfg'[s].passPlugins, Len(argv'))
            BY <2>1, <3>2, <3>3
        <3>5. pc'[s] = "input"
            BY <1>6 DEF CliStage, TypeOK
        <3> QED BY <2>1, <3>1, <3>4, <3>5, ListsFrame DEF SessionPlugins
    <2> QED BY <2>2, <2>3
<1>7. ASSUME NEW s \in Sessions, ComputeInputType(s)
      PROVE  ArgsUnparsed' /\ ListsPassArgs(cli.passPlugins, Parsed)'
             /\ \A t \in Sessions : SessionPlugins(t)'
    <2>1. /\ args' = args /\ argv' = argv /\ cli'.passPlugins = cli.passPlugins
          /\ \A t \in Sessions \ {s} : pc'[t] = pc[t] /\ cfg'[t] = cfg[t]
        BY <1>7 DEF ComputeInputType, cliVars, TypeOK, CliState
    <2>2. /\ ArgsUnparsed' /\ ListsPassArgs(cli.passPlugins, Parsed)'
          /\ \A t \in Sessions \ {s} : SessionPlugins(t)'
        BY <1>0, <2>1, BuildFrame DEF TypeOK
    <2>3. SessionPlugins(s)'
        <3>1. pc[s] = "input" /\ cfg'[s].passPlugins = cfg[s].passPlugins
            BY <1>7 DEF ComputeInputType, TypeOK, Config
        <3>2. pc'[s] \in {"copyInput", "output", "copyOutput", "done", "failed"}
            BY <1>7 DEF ComputeInputType, TypeOK
        <3> QED BY <2>1, <3>1, <3>2, SessionAdvance
    <2> QED BY <2>2, <2>3
<1>8. ASSUME NEW s \in Sessions, CopyInputType(s)
      PROVE  ArgsUnparsed' /\ ListsPassArgs(cli.passPlugins, Parsed)'
             /\ \A t \in Sessions : SessionPlugins(t)'
    <2>1. /\ args' = args /\ argv' = argv /\ cli'.passPlugins = cli.passPlugins
          /\ \A t \in Sessions \ {s} : pc'[t] = pc[t] /\ cfg'[t] = cfg[t]
        BY <1>8 DEF CopyInputType, cliVars, TypeOK, CliState
    <2>2. /\ ArgsUnparsed' /\ ListsPassArgs(cli.passPlugins, Parsed)'
          /\ \A t \in Sessions \ {s} : SessionPlugins(t)'
        BY <1>0, <2>1, BuildFrame DEF TypeOK
    <2>3. SessionPlugins(s)'
        <3>1. pc[s] = "copyInput" /\ cfg'[s].passPlugins = cfg[s].passPlugins
            BY <1>8 DEF CopyInputType, TypeOK, Config
        <3>2. pc'[s] \in {"copyInput", "output", "copyOutput", "done", "failed"}
            BY <1>8 DEF CopyInputType, TypeOK
        <3> QED BY <2>1, <3>1, <3>2, SessionAdvance
    <2> QED BY <2>2, <2>3
<1>9. ASSUME NEW s \in Sessions, ComputeOutputType(s)
      PROVE  ArgsUnparsed' /\ ListsPassArgs(cli.passPlugins, Parsed)'
             /\ \A t \in Sessions : SessionPlugins(t)'
    <2>1. /\ args' = args /\ argv' = argv /\ cli'.passPlugins = cli.passPlugins
          /\ \A t \in Sessions \ {s} : pc'[t] = pc[t] /\ cfg'[t] = cfg[t]
        BY <1>9 DEF ComputeOutputType, cliVars, TypeOK, CliState
    <2>2. /\ ArgsUnparsed' /\ ListsPassArgs(cli.passPlugins, Parsed)'
          /\ \A t \in Sessions \ {s} : SessionPlugins(t)'
        BY <1>0, <2>1, BuildFrame DEF TypeOK
    <2>3. SessionPlugins(s)'
        <3>1. pc[s] = "output" /\ cfg'[s].passPlugins = cfg[s].passPlugins
            BY <1>9 DEF ComputeOutputType, TypeOK, Config
        <3>2. pc'[s] \in {"copyInput", "output", "copyOutput", "done", "failed"}
            BY <1>9 DEF ComputeOutputType, TypeOK
        <3> QED BY <2>1, <3>1, <3>2, SessionAdvance
    <2> QED BY <2>2, <2>3
<1>10. ASSUME NEW s \in Sessions, CopyEmitAction(s)
      PROVE  ArgsUnparsed' /\ ListsPassArgs(cli.passPlugins, Parsed)'
             /\ \A t \in Sessions : SessionPlugins(t)'
    <2>1. /\ args' = args /\ argv' = argv /\ cli'.passPlugins = cli.passPlugins
          /\ \A t \in Sessions \ {s} : pc'[t] = pc[t] /\ cfg'[t] = cfg[t]
        BY <1>10 DEF CopyEmitAction, cliVars, TypeOK, CliState
    <2>2. /\ ArgsUnparsed' /\ ListsPassArgs(cli.passPlugins, Parsed)'
          /\ \A t \in Sessions \ {s} : SessionPlugins(t)'
        BY <1>0, <2>1, BuildFrame DEF TypeOK
    <2>3. SessionPlugins(s)'
        <3>1. pc[s] = "copyOutput" /\ cfg'[s].passPlugins = cfg[s].passPlugins
            BY <1>10 DEF CopyEmitAction, TypeOK, Config
        <3>2. pc'[s] \in {"copyInput", "output", "copyOutput", "done", "failed"}
            BY <1>10 DEF CopyEmitAction, TypeOK
        <3> QED BY <2>1, <3>1, <3>2, SessionAdvance
    <2> QED BY <2>2, <2>3
<1>11. CASE Terminating \/ UNCHANGED vars
    <2>1. vars' = vars
        BY <1>11 DEF Terminating
    <2>2. ASSUME NEW t \in Sessions PROVE SessionPlugins(t)'
        BY <2>1, SessionFrame DEF vars, cliVars, toolVars
    <2> QED BY <2>1, <2>2, ParserFrame DEF vars, cliVars, toolVars
<1> QED BY <1>1, <1>2, <1>3, <1>4, <1>5, <1>6, <1>7, <1>8, <1>9, <1>10, <1>11 DEF Next

\* Whatever the interleaving of the plugin callbacks, registerCLOptions and
\* the builds, the parser consumes argv in order, the CLI singleton lists
\* the pass plugins of the options parsed so far, and a build's record gets
\* the complete list, once.
THEOREM PluginInvCorrect == Spec => []PluginInv
BY PluginInit, PluginStep, PTL DEF Spec

\* The -load-pass-plugin callback and CLIConfigBuilder::populateConfig:
\* every configuration built lists exactly the pass plugins of the command
\* line, once each and in command-line order, however many builds share the
\* singleton.
THEOREM PluginPathsCorrect == Spec => []PluginPathsRecorded
<1>1. PluginInv => PluginPathsRecorded
    BY DEF PluginInv, SessionPlugins, PluginPathsRecorded
<1> QED BY <1>1, PluginInvCorrect, PTL

====
