--------------------------- MODULE ToolConfig_proofs ---------------------------
(***************************************************************************)
(* Proofs about ToolConfig that hold for every value of the constants.     *)
(***************************************************************************)
EXTENDS ToolConfig, TLAPS

(***************************************************************************)
(* Lemmas: the operators the stages are built from keep their results in  *)
(* the types of the record and of the singleton.                           *)
(***************************************************************************)

\* The first two environment steps write a name or a path, or nothing.
LEMMA PopulatePathTargetType ==
    ASSUME NEW c \in Config, NEW e \in Env
    PROVE  PopulateTarget(PopulateConfigurationPath(c, e), e) \in Config
<1>1. PopulateConfigurationPath(c, e) \in Config
    BY Zenon DEF PopulateConfigurationPath, Config, Env, OptPath
<1>2. QED
    BY <1>1, Zenon DEF PopulateTarget, Config, Env, OptName

\* populateVerbosity_, when it succeeds, writes one of the four levels.
LEMMA PopulateVerbosityType ==
    ASSUME NEW c \in Config, NEW e \in Env, ~VerbosityFails(e)
    PROVE  PopulateVerbosity(c, e) \in Config
BY DEF PopulateVerbosity, VerbosityFails, VerbosityOfToken, Config, Env,
       OptName, OptPath, OptThreads, InputType, EmitAction, Verbosity

\* populateMaxThreads_, when it succeeds, writes a natural number: the
\* numeric prefix is present and fits.
LEMMA PopulateMaxThreadsType ==
    ASSUME NEW c \in Config, NEW e \in Env, ~MaxThreadsFails(e)
    PROVE  PopulateMaxThreads(c, e) \in Config
<1>1. CASE e.QEC_MAX_THREADS = Unset
    BY <1>1 DEF PopulateMaxThreads
<1>2. CASE e.QEC_MAX_THREADS # Unset
    <2>1. e.QEC_MAX_THREADS \in ThreadToken
        BY <1>2 DEF Env
    <2>2. e.QEC_MAX_THREADS.lead \in Nat
        BY <1>2, <2>1, EnvAssumption
        DEF MaxThreadsFails, ConsumeIntegerFails, NoDigits, ThreadToken
    <2>3. QED
        BY <2>2, <1>2 DEF PopulateMaxThreads, Config, OptName, OptPath,
           OptThreads, InputType, EmitAction, Verbosity
<1>3. QED
    BY <1>1, <1>2

\* The environment stage yields a QEConfig, whichever variables are set,
\* well formed or not.
LEMMA EnvPopulatedType ==
    ASSUME NEW c \in Config, NEW e \in Env
    PROVE  EnvPopulated(c, e) \in Config
<1> DEFINE c2 == PopulateTarget(PopulateConfigurationPath(c, e), e)
           c3 == PopulateVerbosity(c2, e)
<1>1. c2 \in Config
    BY PopulatePathTargetType
<1>2. ~VerbosityFails(e) => c3 \in Config
    BY <1>1, PopulateVerbosityType
<1>3. ~VerbosityFails(e) /\ ~MaxThreadsFails(e) =>
         PopulateMaxThreads(c3, e) \in Config
    BY <1>2, PopulateMaxThreadsType
<1>4. QED
    BY <1>1, <1>2, <1>3 DEF EnvPopulated

\* populateConfig(config) yields a QEConfig from any singleton state.
LEMMA CliPopulatedType ==
    ASSUME NEW c \in Config, NEW cs \in CliState
    PROVE  CliPopulated(c, cs) \in Config
<1>1. (IF cs.verbosityLevel # VerbosityCnt
       THEN cs.verbosityLevel ELSE c.verbosityLevel) \in Verbosity
    BY DEF CliState, Config, VerbosityCnt, Verbosity
<1>2. (IF cs.targetName # Unset THEN cs.targetName ELSE c.targetName) \in OptName
    BY DEF CliState, Config
<1>3. (IF cs.targetConfigPath # Unset
       THEN cs.targetConfigPath ELSE c.targetConfigPath) \in OptPath
    BY DEF CliState, Config
<1>4. (IF cs.maxThreads # Unset THEN cs.maxThreads ELSE c.maxThreads)
         \in OptThreads
    BY DEF CliState, Config
<1>5. /\ c.passPlugins \o cs.passPlugins \in Seq(PluginPaths)
      /\ c.dialectPlugins \o cs.dialectPlugins \in Seq(PluginPaths)
    BY DEF CliState, Config
<1>6. QED
    BY <1>1, <1>2, <1>3, <1>4, <1>5 DEF CliPopulated, Config, CliState

\* The parsed options form a singleton state.
LEMMA ParsedOptionsType ==
    ASSUME NEW a \in CliArgs
    PROVE  ParsedOptions(a) \in CliState
<1>1. (IF a.target \in {Unset, ""} THEN Unset ELSE a.target) \in OptName
    BY DEF CliArgs, OptName
<1>2. (IF a.config \in {Unset, ""} THEN Unset ELSE a.config) \in OptPath
    BY DEF CliArgs, OptPath
<1>3. (IF a.maxThreads > 0 THEN a.maxThreads ELSE Unset) \in OptThreads
    BY DEF CliArgs, OptThreads
<1>4. /\ a.X \in InputType /\ a.emit \in EmitAction
      /\ a.verbosity \in Verbosity \cup {VerbosityCnt}
      /\ a.flags \in [FlagNames -> BOOLEAN] /\ a.emitBytecode \in BOOLEAN
    BY DEF CliArgs
<1>5. << >> \in Seq(PluginPaths)
    OBVIOUS
<1>6. QED
    BY <1>1, <1>2, <1>3, <1>4, <1>5 DEF ParsedOptions, CliState

\* computeInputType and computeOutputType produce values of their enums.
LEMMA ComputedTypes ==
    ASSUME NEW cs \in CliState, NEW f \in Filename
    PROVE  /\ DetectedInputType(cs, f) \in InputType
           /\ ComputedEmitAction(cs, f) \in EmitAction
           /\ OutputWarning(cs, f) \in {"none", "noExt", "mismatch"}
BY DEF DetectedInputType, ComputedEmitAction, OutputWarning, CliState,
       Filename, getExtension, fileExtensionToInputType, fileExtensionToAction,
       InputType, EmitAction, FileExtension

\* Recording a plugin path in the singleton.
LEMMA CliAppendPass ==
    ASSUME NEW cs \in CliState, NEW p \in PluginPaths
    PROVE  [cs EXCEPT !.passPlugins = Append(@, p)] \in CliState
<1>1. Append(cs.passPlugins, p) \in Seq(PluginPaths)
    BY DEF CliState
<1>2. QED
    BY <1>1, Zenon DEF CliState

LEMMA CliAppendDialect ==
    ASSUME NEW cs \in CliState, NEW p \in PluginPaths
    PROVE  [cs EXCEPT !.dialectPlugins = Append(@, p)] \in CliState
<1>1. Append(cs.dialectPlugins, p) \in Seq(PluginPaths)
    BY DEF CliState
<1>2. QED
    BY <1>1, Zenon DEF CliState

\* Writing back the detected input type or emit action into the singleton.
LEMMA CliSetInputType ==
    ASSUME NEW cs \in CliState, NEW it \in InputType
    PROVE  [cs EXCEPT !.inputType = it] \in CliState
BY Zenon DEF CliState

LEMMA CliSetEmitAction ==
    ASSUME NEW cs \in CliState, NEW ea \in EmitAction
    PROVE  [cs EXCEPT !.emitAction = ea] \in CliState
BY Zenon DEF CliState

\* Copying the input type or the emit action into a QEConfig.
LEMMA ConfigSetInputType ==
    ASSUME NEW c \in Config, NEW it \in InputType
    PROVE  [c EXCEPT !.inputType = it] \in Config
BY Zenon DEF Config

LEMMA ConfigSetEmitAction ==
    ASSUME NEW c \in Config, NEW ea \in EmitAction
    PROVE  [c EXCEPT !.emitAction = ea] \in Config
BY Zenon DEF Config

\* A default-constructed QEConfig.
LEMMA DefaultConfigType == DefaultConfig \in Config
<1>1. FlagDefault \in [FlagNames -> BOOLEAN]
    BY DEF FlagDefault
<1>2. QED
    BY <1>1 DEF DefaultConfig, Config, OptName, OptPath, OptThreads,
       InputType, EmitAction, Verbosity

(***************************************************************************)
(* Type correctness.                                                       *)
(***************************************************************************)

\* The initial states are well typed.
LEMMA TypeInit == Init => TypeOK
<1> SUFFICES ASSUME Init PROVE TypeOK
    OBVIOUS
<1>1. cliArgs \in CliArgs /\ cli \in CliState
    BY ParsedOptionsType, CliAssumption DEF Init, CLIInit
<1>2. Dash \in Filename
    BY DEF Dash, Filename, FileExtension
<1>3. QED
    BY <1>1, <1>2, DefaultConfigType, CliAssumption, ToolAssumption
    DEF Init, CLIInit, TypeOK, Stage

\* Every step, of the command-line parser or of a build, keeps the state
\* well typed.
LEMMA TypeStep == TypeOK /\ [Next]_vars => TypeOK'
<1> SUFFICES ASSUME TypeOK, [Next]_vars PROVE TypeOK'
    OBVIOUS
<1>1. CASE RegisterCLOptions /\ UNCHANGED toolVars
    BY <1>1 DEF RegisterCLOptions, toolVars, TypeOK
<1>2. CASE ParsePassPlugin /\ UNCHANGED toolVars
    <2>1. Head(args) \in PluginArg
        BY <1>2 DEF ParsePassPlugin, TypeOK
    <2>2. cli' \in CliState
        BY <1>2, <2>1, CliAppendPass DEF ParsePassPlugin, TypeOK, PluginArg
    <2>3. QED
        BY <1>2, <2>1, <2>2 DEF ParsePassPlugin, LoadPlugin, toolVars,
           TypeOK, PluginArg
<1>3. CASE ParseDialectPlugin /\ UNCHANGED toolVars
    <2>1. Head(args) \in PluginArg
        BY <1>3 DEF ParseDialectPlugin, TypeOK
    <2>2. cli' \in CliState
        BY <1>3, <2>1, CliAppendDialect DEF ParseDialectPlugin, TypeOK, PluginArg
    <2>3. QED
        BY <1>3, <2>1, <2>2 DEF ParseDialectPlugin, LoadPlugin, toolVars,
           TypeOK, PluginArg
<1>4. ASSUME NEW s \in Sessions, BuildStart(s) PROVE TypeOK'
    BY <1>4, DefaultConfigType, ToolAssumption DEF BuildStart, cliVars, TypeOK, Stage
<1>5. ASSUME NEW s \in Sessions, EnvStage(s) PROVE TypeOK'
    BY <1>5, EnvPopulatedType DEF EnvStage, cliVars, TypeOK, Stage
<1>6. ASSUME NEW s \in Sessions, CliStage(s) PROVE TypeOK'
    BY <1>6, CliPopulatedType DEF CliStage, cliVars, TypeOK, Stage
<1>7. ASSUME NEW s \in Sessions, ComputeInputType(s) PROVE TypeOK'
    BY <1>7, ComputedTypes, CliSetInputType DEF ComputeInputType, cliVars, TypeOK, Stage
<1>8. ASSUME NEW s \in Sessions, CopyInputType(s) PROVE TypeOK'
    <2>1. cli.inputType \in InputType
        BY DEF TypeOK, CliState
    <2>2. [cfg[s] EXCEPT !.inputType = cli.inputType] \in Config
        BY <2>1, ConfigSetInputType DEF TypeOK
    <2>3. QED
        BY <1>8, <2>2 DEF CopyInputType, cliVars, TypeOK, Stage
<1>9. ASSUME NEW s \in Sessions, ComputeOutputType(s) PROVE TypeOK'
    BY <1>9, ComputedTypes, CliSetEmitAction DEF ComputeOutputType, cliVars, TypeOK, Stage
<1>10. ASSUME NEW s \in Sessions, CopyEmitAction(s) PROVE TypeOK'
    <2>1. cli.emitAction \in EmitAction
        BY DEF TypeOK, CliState
    <2>2. [cfg[s] EXCEPT !.emitAction = cli.emitAction] \in Config
        BY <2>1, ConfigSetEmitAction DEF TypeOK
    <2>3. QED
        BY <1>10, <2>2 DEF CopyEmitAction, cliVars, TypeOK, Stage
<1>11. CASE Terminating
    BY <1>11 DEF Terminating, vars, cliVars, toolVars, TypeOK
<1>12. CASE UNCHANGED vars
    BY <1>12 DEF vars, cliVars, toolVars, TypeOK
<1>13. QED
    BY <1>1, <1>2, <1>3, <1>4, <1>5, <1>6, <1>7, <1>8, <1>9, <1>10,
       <1>11, <1>12 DEF Next

\* Every state of every build, and of the CLI singleton shared by the
\* builds, is well typed.
THEOREM TypeCorrect == Spec => []TypeOK
BY TypeInit, TypeStep, PTL DEF Spec

(***************************************************************************)
(* Precedence of the overlays.                                             *)
(***************************************************************************)

\* EnvVarConfigBuilder::populateConfig, when it succeeds on the default
\* record, leaves exactly the environment's values over the defaults.
LEMMA EnvPopulatedAfterEnv ==
    ASSUME env \in Env, ~EnvPopulateFails(env)
    PROVE  AfterEnv(EnvPopulated(DefaultConfig, env))
<1> DEFINE c1 == PopulateConfigurationPath(DefaultConfig, env)
           c2 == PopulateTarget(c1, env)
           c3 == PopulateVerbosity(c2, env)
           c4 == PopulateMaxThreads(c3, env)
<1>1. /\ c1.targetConfigPath = env.QEC_TARGET_CONFIG_PATH
      /\ c1.targetName = Unset /\ c1.verbosityLevel = "Warn"
      /\ c1.maxThreads = Unset
    BY DEF PopulateConfigurationPath, DefaultConfig
<1>2. /\ c2.targetConfigPath = env.QEC_TARGET_CONFIG_PATH
      /\ c2.targetName = env.QEC_TARGET_NAME /\ c2.verbosityLevel = "Warn"
      /\ c2.maxThreads = Unset
    BY <1>1 DEF PopulateTarget
<1>3. /\ c3.targetConfigPath = env.QEC_TARGET_CONFIG_PATH
      /\ c3.targetName = env.QEC_TARGET_NAME
      /\ c3.verbosityLevel = Overlay("Warn", EnvLevel, Unset)
      /\ c3.maxThreads = Unset
    <2>1. env.QEC_VERBOSITY # Unset => VerbosityOfToken[env.QEC_VERBOSITY] # Unset
        BY ConstAssumption DEF EnvPopulateFails, VerbosityFails,
           VerbosityOfToken, Verbosity
    <2>2. QED
        BY <1>2, <2>1 DEF PopulateVerbosity, Overlay, EnvLevel
<1>4. /\ c4.targetConfigPath = env.QEC_TARGET_CONFIG_PATH
      /\ c4.targetName = env.QEC_TARGET_NAME
      /\ c4.verbosityLevel = Overlay("Warn", EnvLevel, Unset)
      /\ c4.maxThreads = EnvThreads
    BY <1>3 DEF PopulateMaxThreads, EnvThreads
<1>5. EnvPopulated(DefaultConfig, env) = c4
    BY DEF EnvPopulated, EnvPopulateFails
<1>6. QED
    BY <1>4, <1>5 DEF AfterEnv

\* CLIConfigBuilder::populateConfig, applied to a record that holds the
\* environment's values, lays the command line's values over them.
LEMMA CliPopulatedAfterCli ==
    ASSUME NEW c \in Config, AfterEnv(c), CliScalarsFixed,
           cliArgs \in CliArgs, cli \in CliState
    PROVE  AfterCli(CliPopulated(c, cli))
<1> DEFINE d == CliPopulated(c, cli)
<1>1. d.targetName =
        Overlay(Unset, env.QEC_TARGET_NAME, CliValue(cliArgs.target))
    BY DEF CliPopulated, CliScalarsFixed, AfterEnv, Overlay, Config
<1>2. d.targetConfigPath =
        Overlay(Unset, env.QEC_TARGET_CONFIG_PATH, CliValue(cliArgs.config))
    BY DEF CliPopulated, CliScalarsFixed, AfterEnv, Overlay, Config
<1>3. d.verbosityLevel = Overlay("Warn", EnvLevel, CliLevel)
    <2>1. cliArgs.verbosity # VerbosityCnt => cliArgs.verbosity # Unset
        BY ConstAssumption DEF CliArgs, Verbosity, VerbosityCnt
    <2>2. QED
        BY <2>1 DEF CliPopulated, CliScalarsFixed, AfterEnv, Overlay, CliLevel,
           Config
<1>4. d.maxThreads = Overlay(Unset, EnvThreads, CliThreads)
    <2>1. CliThreads # Unset => CliThreads \in Nat
        BY DEF CliThreads, CliArgs
    <2>2. QED
        BY <2>1 DEF CliPopulated, CliScalarsFixed, AfterEnv, Overlay, Config
<1>5. d.flags = cliArgs.flags
    BY DEF CliPopulated, CliScalarsFixed, Config
<1>6. QED
    BY <1>1, <1>2, <1>3, <1>4, <1>5 DEF AfterCli

\* AfterEnv and AfterCli look at five fields of the record, at the
\* environment and at the parsed options, and at nothing else.
LEMMA OverlayFrame ==
    ASSUME NEW c, NEW d, env' = env, cliArgs' = cliArgs,
           d.targetName = c.targetName, d.targetConfigPath = c.targetConfigPath,
           d.verbosityLevel = c.verbosityLevel, d.maxThreads = c.maxThreads,
           d.flags = c.flags
    PROVE  /\ AfterEnv(c) => AfterEnv(d)'
           /\ AfterCli(c) => AfterCli(d)'
BY DEF AfterEnv, AfterCli, EnvLevel, CliLevel, EnvThreads, CliThreads, CliValue

\* The initial state: every session idle, the singleton as parsed.
LEMMA OverlayInit == Init => OverlayInv
<1> SUFFICES ASSUME Init PROVE OverlayInv
    OBVIOUS
<1>1. TypeOK
    BY TypeInit
<1>2. CliScalarsFixed
    BY DEF Init, CLIInit, ParsedOptions, CliScalarsFixed, CliValue, CliThreads
<1>3. QED
    BY <1>1, <1>2 DEF OverlayInv, Init, PastCli

\* Every step keeps the singleton's scalar options and the records of the
\* sessions consistent with the stages they have passed.
LEMMA OverlayStep == OverlayInv /\ [Next]_vars => OverlayInv'
<1> SUFFICES ASSUME OverlayInv, [Next]_vars PROVE OverlayInv'
    OBVIOUS
<1> USE DEF OverlayInv
<1>1. TypeOK'
    BY TypeStep
<1>2. CASE (RegisterCLOptions \/ ParsePassPlugin \/ ParseDialectPlugin)
           /\ UNCHANGED toolVars
    <2>1. /\ cli'.targetName = cli.targetName
          /\ cli'.targetConfigPath = cli.targetConfigPath
          /\ cli'.verbosityLevel = cli.verbosityLevel
          /\ cli'.maxThreads = cli.maxThreads /\ cli'.flags = cli.flags
        BY <1>2 DEF RegisterCLOptions, ParsePassPlugin, ParseDialectPlugin,
           TypeOK, CliState
    <2>2. UNCHANGED <<cliArgs, env, pc, cfg>>
        BY <1>2 DEF RegisterCLOptions, ParsePassPlugin, ParseDialectPlugin,
           toolVars
    <2>3. QED
        BY <1>1, <2>1, <2>2 DEF CliScalarsFixed, CliValue, CliThreads,
           AfterEnv, AfterCli, Overlay, EnvLevel, CliLevel, EnvThreads
<1>3. ASSUME NEW s \in Sessions,
             \/ BuildStart(s) \/ EnvStage(s) \/ CliStage(s)
             \/ CopyInputType(s) \/ CopyEmitAction(s)
      PROVE  OverlayInv'
    <2>1. UNCHANGED <<cliArgs, cli, env>>
        BY <1>3 DEF BuildStart, EnvStage, CliStage, CopyInputType,
           CopyEmitAction, cliVars
    <2>2. CliScalarsFixed'
        BY <2>1 DEF CliScalarsFixed, CliValue, CliThreads
    <2>3. ASSUME NEW t \in Sessions
          PROVE  /\ pc'[t] = "env" => cfg'[t] = DefaultConfig
                 /\ pc'[t] = "cli" => AfterEnv(cfg[t])'
                 /\ pc'[t] \in PastCli => AfterCli(cfg[t])'
        <3>1. CASE t # s
            <4>1. pc'[t] = pc[t] /\ cfg'[t] = cfg[t]
                BY <1>3, <3>1 DEF BuildStart, EnvStage, CliStage,
                   CopyInputType, CopyEmitAction, TypeOK
            <4>2. QED
                BY <2>1, <4>1, OverlayFrame
        <3>2. CASE t = s /\ BuildStart(s)
            BY <3>2 DEF BuildStart, TypeOK, PastCli
        <3>3. CASE t = s /\ EnvStage(s)
            <4>1. cfg[s] = DefaultConfig /\ cfg'[s] = EnvPopulated(DefaultConfig, env)
                BY <3>3 DEF EnvStage, TypeOK
            <4>2. pc'[s] = IF EnvPopulateFails(env) THEN "failed" ELSE "cli"
                BY <3>3 DEF EnvStage, TypeOK
            <4>3. ~EnvPopulateFails(env) => AfterEnv(cfg[s])'
                BY <2>1, <4>1, EnvPopulatedAfterEnv, OverlayFrame DEF TypeOK
            <4>4. QED
                BY <3>3, <4>2, <4>3 DEF PastCli
        <3>4. CASE t = s /\ CliStage(s)
            <4>1. cfg'[s] = CliPopulated(cfg[s], cli) /\ pc'[s] = "input"
                BY <3>4 DEF CliStage, TypeOK
            <4>2. AfterCli(CliPopulated(cfg[s], cli))
                BY <3>4, CliPopulatedAfterCli DEF CliStage, TypeOK
            <4>3. QED
                BY <2>1, <3>4, <4>1, <4>2, OverlayFrame DEF PastCli
        <3>5. CASE t = s /\ CopyInputType(s)
            <4>1. /\ pc'[s] = "output" /\ AfterCli(cfg[s])
                  /\ cfg'[s] = [cfg[s] EXCEPT !.inputType = cli.inputType]
                BY <3>5 DEF CopyInputType, TypeOK, PastCli
            <4>2. /\ cfg'[s].targetName = cfg[s].targetName
                  /\ cfg'[s].targetConfigPath = cfg[s].targetConfigPath
                  /\ cfg'[s].verbosityLevel = cfg[s].verbosityLevel
                  /\ cfg'[s].maxThreads = cfg[s].maxThreads
                  /\ cfg'[s].flags = cfg[s].flags
                <5>1. cfg[s] \in Config
                    BY DEF TypeOK
                <5>2. QED
                    BY <4>1, <5>1 DEF Config
            <4>3. AfterCli(cfg[s])'
                BY <2>1, <4>1, <4>2, OverlayFrame
            <4>4. QED
                BY <3>5, <4>1, <4>3 DEF PastCli
        <3>6. CASE t = s /\ CopyEmitAction(s)
            <4>1. /\ pc'[s] = "done" /\ AfterCli(cfg[s])
                  /\ cfg'[s] = [cfg[s] EXCEPT !.emitAction = cli.emitAction]
                BY <3>6 DEF CopyEmitAction, TypeOK, PastCli
            <4>2. /\ cfg'[s].targetName = cfg[s].targetName
                  /\ cfg'[s].targetConfigPath = cfg[s].targetConfigPath
                  /\ cfg'[s].verbosityLevel = cfg[s].verbosityLevel
                  /\ cfg'[s].maxThreads = cfg[s].maxThreads
                  /\ cfg'[s].flags = cfg[s].flags
                <5>1. cfg[s] \in Config
                    BY DEF TypeOK
                <5>2. QED
                    BY <4>1, <5>1 DEF Config
            <4>3. AfterCli(cfg[s])'
                BY <2>1, <4>1, <4>2, OverlayFrame
            <4>4. QED
                BY <3>6, <4>1, <4>3 DEF PastCli
        <3>7. QED
            BY <1>3, <3>1, <3>2, <3>3, <3>4, <3>5, <3>6
    <2>4. QED
        BY <1>1, <2>2, <2>3
<1>4. ASSUME NEW s \in Sessions, ComputeInputType(s) \/ ComputeOutputType(s)
      PROVE  OverlayInv'
    <2>1. UNCHANGED <<cliArgs, env, cfg>>
        BY <1>4 DEF ComputeInputType, ComputeOutputType
    <2>2. CliScalarsFixed'
        <3>1. /\ cli'.targetName = cli.targetName
              /\ cli'.targetConfigPath = cli.targetConfigPath
              /\ cli'.verbosityLevel = cli.verbosityLevel
              /\ cli'.maxThreads = cli.maxThreads /\ cli'.flags = cli.flags
            BY <1>4 DEF ComputeInputType, ComputeOutputType, TypeOK, CliState
        <3>2. QED
            BY <2>1, <3>1 DEF CliScalarsFixed, CliValue, CliThreads
    <2>3. ASSUME NEW t \in Sessions
          PROVE  /\ pc'[t] = "env" => cfg'[t] = DefaultConfig
                 /\ pc'[t] = "cli" => AfterEnv(cfg[t])'
                 /\ pc'[t] \in PastCli => AfterCli(cfg[t])'
        <3>1. \/ pc'[t] = pc[t]
              \/ pc[t] \in PastCli /\ pc'[t] \in PastCli \cup {"failed"}
            BY <1>4 DEF ComputeInputType, ComputeOutputType, TypeOK, PastCli
        <3>2. QED
            BY <2>1, <3>1, OverlayFrame DEF PastCli
    <2>4. QED
        BY <1>1, <2>2, <2>3
<1>5. CASE Terminating \/ UNCHANGED vars
    <2>1. UNCHANGED <<cliArgs, cli, env, pc, cfg>>
        BY <1>5 DEF Terminating, vars, cliVars, toolVars
    <2>2. CliScalarsFixed'
        BY <2>1 DEF CliScalarsFixed, CliValue, CliThreads
    <2>3. ASSUME NEW t \in Sessions
          PROVE  /\ pc'[t] = "env" => cfg'[t] = DefaultConfig
                 /\ pc'[t] = "cli" => AfterEnv(cfg[t])'
                 /\ pc'[t] \in PastCli => AfterCli(cfg[t])'
        BY <2>1, OverlayFrame
    <2>4. QED
        BY <1>1, <2>2, <2>3
<1>6. QED
    BY <1>2, <1>3, <1>4, <1>5 DEF Next

\* The singleton's scalar options stay as the callbacks set them, and each
\* session's record holds exactly the overlays of the builders it has run,
\* in every reachable state, however the builds interleave.
THEOREM OverlayInvCorrect == Spec => []OverlayInv
BY OverlayInit, OverlayStep, PTL DEF Spec

\* Precedence of the overlays (buildToolConfig): in every configuration a
\* build completes, each of the target name, target configuration path,
\* verbosity and thread cap is the command line's value if it gave one, else
\* the environment's, else the default, and the flags are the command
\* line's, however the builds of the sessions interleave.
THEOREM OverlayCorrect == Spec => []OverlayPrecedence
<1>1. OverlayInv => OverlayPrecedence
    BY DEF OverlayInv, OverlayPrecedence, AfterCli, PastCli
<1>2. QED
    BY OverlayInvCorrect, <1>1, PTL



(***************************************************************************)
(* IOResolution for a process that runs one build.  With two builds it    *)
(* does not hold (the stale_singleton run); with one, the singleton holds *)
(* -X and -emit until the build resolves them (IOInv).                     *)
(***************************************************************************)

\* computeInputType on a singleton that still holds -X and -emit-bytecode
\* detects the kind the specification gives the file.
LEMMA DetectedIsSpec ==
    ASSUME NEW s, cli.inputType = cliArgs.X,
           cli.emitBytecode = cliArgs.emitBytecode
    PROVE  DetectedInputType(cli, inFile[s]) = SpecInputType(s)
BY DEF DetectedInputType, SpecInputType

\* computeOutputType on a singleton that still holds -emit computes the
\* specification's emit action and warning.
LEMMA ComputedIsSpec ==
    ASSUME NEW s, cli.emitAction = cliArgs.emit, outFile[s] \in Filename
    PROVE  /\ ComputedEmitAction(cli, outFile[s]) = SpecEmitAction(s)
           /\ OutputWarning(cli, outFile[s]) = SpecOutWarning(s)
<1>1. outFile[s].stdio \in BOOLEAN
    BY DEF Filename
<1>2. ComputedEmitAction(cli, outFile[s]) = SpecEmitAction(s)
    BY <1>1 DEF ComputedEmitAction, SpecEmitAction
<1>3. OutputWarning(cli, outFile[s]) = SpecOutWarning(s)
    BY <1>1 DEF OutputWarning, SpecOutWarning
<1> QED BY <1>2, <1>3

\* What the specification calls for depends only on the command line and
\* the session's file names.
LEMMA SpecFrame ==
    ASSUME NEW s, cliArgs' = cliArgs, inFile' = inFile, outFile' = outFile
    PROVE  /\ SpecInputType(s)' = SpecInputType(s)
           /\ SpecEmitAction(s)' = SpecEmitAction(s)
           /\ SpecOutWarning(s)' = SpecOutWarning(s)
BY DEF SpecInputType, SpecEmitAction, SpecOutWarning

LEMMA IOInit == Init => IOInv
<1> SUFFICES ASSUME Init PROVE IOInv
    OBVIOUS
<1>1. TypeOK
    BY TypeInit
<1>2. /\ cli.inputType = cliArgs.X /\ cli.emitAction = cliArgs.emit
      /\ cli.emitBytecode = cliArgs.emitBytecode
    BY DEF Init, CLIInit, ParsedOptions
<1> QED BY <1>1, <1>2 DEF Init, IOInv, IOSession, BeforeInput, BeforeOutput

LEMMA IOStep ==
    ASSUME NEW s0, Sessions = {s0}, IOInv, [Next]_vars
    PROVE  IOInv'
<1> USE DEF IOInv
<1>1. TypeOK'
    BY TypeStep
<1> SUFFICES /\ cli'.emitBytecode = cliArgs'.emitBytecode
             /\ IOSession(s0)'
    BY <1>1
<1>0. IOSession(s0)
    OBVIOUS
<1> cli \in CliState /\ cfg \in [Sessions -> Config]
    BY DEF TypeOK
<1>2. CASE (RegisterCLOptions \/ ParsePassPlugin \/ ParseDialectPlugin)
              /\ UNCHANGED toolVars
    <2>1. /\ cliArgs' = cliArgs
          /\ cli'.inputType = cli.inputType /\ cli'.emitAction = cli.emitAction
          /\ cli'.emitBytecode = cli.emitBytecode
        BY <1>2 DEF RegisterCLOptions, ParsePassPlugin, ParseDialectPlugin,
                    CliState
    <2> QED BY <1>0, <2>1, <1>2 DEF toolVars, IOSession, SpecInputType,
                                    SpecEmitAction, SpecOutWarning
<1>3. CASE BuildStart(s0)
    BY <1>0, <1>3 DEF BuildStart, IOSession, BeforeInput, BeforeOutput, cliVars
<1>4. CASE EnvStage(s0)
    BY <1>0, <1>4 DEF EnvStage, IOSession, BeforeInput, BeforeOutput, cliVars
<1>5. CASE CliStage(s0)
    BY <1>0, <1>5 DEF CliStage, IOSession, BeforeInput, BeforeOutput, cliVars
<1>6. CASE ComputeInputType(s0)
    <2>1. /\ cli'.inputType = DetectedInputType(cli, inFile[s0])
          /\ cli'.emitAction = cli.emitAction
          /\ cli'.emitBytecode = cli.emitBytecode
        BY <1>6 DEF ComputeInputType, CliState
    <2>2. pc[s0] = "input" /\ cli.inputType = cliArgs.X
        BY <1>0, <1>6 DEF ComputeInputType, IOSession, BeforeInput
    <2>3. DetectedInputType(cli, inFile[s0]) = SpecInputType(s0)
        BY <2>2, DetectedIsSpec
    <2>4. /\ SpecInputType(s0)' = SpecInputType(s0)
          /\ SpecEmitAction(s0)' = SpecEmitAction(s0)
          /\ SpecOutWarning(s0)' = SpecOutWarning(s0)
          /\ cfg' = cfg /\ outWarning' = outWarning /\ cliArgs' = cliArgs
        BY <1>6, SpecFrame DEF ComputeInputType
    <2>5. cli.emitAction = cliArgs.emit
        BY <1>0, <2>2 DEF IOSession, BeforeInput, BeforeOutput
    <2>6. CASE InputTypeFails(cli, inFile[s0])
        <3>1. DetectedInputType(cli, inFile[s0]) = cliArgs.X
            BY <2>2, <2>6 DEF InputTypeFails
        <3>2. pc'[s0] = "failed"
            BY <1>6, <2>6 DEF ComputeInputType, TypeOK
        <3> QED BY <2>1, <2>4, <2>5, <3>1, <3>2
                DEF IOSession, BeforeInput, BeforeOutput
    <2>7. CASE ~InputTypeFails(cli, inFile[s0])
        <3>1. pc'[s0] = "copyInput"
            BY <1>6, <2>7 DEF ComputeInputType, TypeOK
        <3> QED BY <2>1, <2>3, <2>4, <2>5, <3>1
                DEF IOSession, BeforeInput, BeforeOutput
    <2> QED BY <2>6, <2>7
<1>7. CASE CopyInputType(s0)
    <2>1. pc[s0] = "copyInput" /\ pc'[s0] = "output"
        BY <1>7 DEF CopyInputType, TypeOK
    <2>2. cfg'[s0].inputType = cli.inputType
        BY <1>7 DEF CopyInputType, Config
    <2>3. /\ SpecInputType(s0)' = SpecInputType(s0)
          /\ SpecEmitAction(s0)' = SpecEmitAction(s0)
          /\ SpecOutWarning(s0)' = SpecOutWarning(s0)
          /\ cli' = cli /\ outWarning' = outWarning /\ cliArgs' = cliArgs
        BY <1>7, SpecFrame DEF CopyInputType, cliVars
    <2> QED BY <1>0, <2>1, <2>2, <2>3 DEF IOSession, BeforeInput, BeforeOutput
<1>8. CASE ComputeOutputType(s0)
    <2>1. /\ cli'.emitAction = ComputedEmitAction(cli, outFile[s0])
          /\ cli'.inputType = cli.inputType
          /\ cli'.emitBytecode = cli.emitBytecode
        BY <1>8 DEF ComputeOutputType, CliState
    <2>2. pc[s0] = "output" /\ pc'[s0] = "copyOutput"
        BY <1>8 DEF ComputeOutputType, TypeOK
    <2>3. cli.emitAction = cliArgs.emit
        BY <1>0, <2>2 DEF IOSession, BeforeInput, BeforeOutput
    <2>4. /\ ComputedEmitAction(cli, outFile[s0]) = SpecEmitAction(s0)
          /\ OutputWarning(cli, outFile[s0]) = SpecOutWarning(s0)
        BY <2>3, ComputedIsSpec DEF TypeOK
    <2>5. outWarning'[s0] = OutputWarning(cli, outFile[s0])
        BY <1>8 DEF ComputeOutputType, TypeOK
    <2>6. /\ SpecInputType(s0)' = SpecInputType(s0)
          /\ SpecEmitAction(s0)' = SpecEmitAction(s0)
          /\ SpecOutWarning(s0)' = SpecOutWarning(s0)
          /\ cfg' = cfg /\ cliArgs' = cliArgs
        BY <1>8, SpecFrame DEF ComputeOutputType
    <2> QED BY <1>0, <2>1, <2>2, <2>4, <2>5, <2>6
            DEF IOSession, BeforeInput, BeforeOutput
<1>9. CASE CopyEmitAction(s0)
    <2>1. pc[s0] = "copyOutput" /\ pc'[s0] = "done"
        BY <1>9 DEF CopyEmitAction, TypeOK
    <2>2. /\ cfg'[s0].emitAction = cli.emitAction
          /\ cfg'[s0].inputType = cfg[s0].inputType
        BY <1>9 DEF CopyEmitAction, Config
    <2>3. /\ SpecInputType(s0)' = SpecInputType(s0)
          /\ SpecEmitAction(s0)' = SpecEmitAction(s0)
          /\ SpecOutWarning(s0)' = SpecOutWarning(s0)
          /\ cli' = cli /\ outWarning' = outWarning /\ cliArgs' = cliArgs
        BY <1>9, SpecFrame DEF CopyEmitAction, cliVars
    <2> QED BY <1>0, <2>1, <2>2, <2>3 DEF IOSession, BeforeInput, BeforeOutput
<1>10. CASE Terminating \/ UNCHANGED vars
    BY <1>0, <1>10 DEF Terminating, vars, cliVars, toolVars, IOSession,
                       SpecInputType, SpecEmitAction, SpecOutWarning
<1> QED BY <1>2, <1>3, <1>4, <1>5, <1>6, <1>7, <1>8, <1>9, <1>10 DEF Next

\* In a process with one build, the singleton holds -X and -emit until the
\* build's computeInputType/computeOutputType resolve them, and the build's
\* record and warning follow it: the invariant the resolution run checks.
THEOREM IOInvSingleBuild ==
    ASSUME NEW s0, Sessions = {s0}
    PROVE  Spec => []IOInv
<1>1. IOInv /\ [Next]_vars => IOInv'
    BY IOStep
<1> QED BY IOInit, <1>1, PTL DEF Spec

\* computeInputType/computeOutputType in a process with one build: the
\* configuration it completes has the input kind and emit action its
\* options and file names call for, and the warning printed is the right
\* one. (With several builds the stale_singleton run shows it fails.)
THEOREM IOResolutionSingleBuild ==
    ASSUME NEW s0, Sessions = {s0}
    PROVE  Spec => []IOResolution
<1>1. IOInv => IOResolution
    BY DEF IOInv, IOSession, IOResolution, BeforeInput, BeforeOutput
<1> QED BY IOInvSingleBuild, <1>1, PTL

(***************************************************************************)
(* The outcome of a build.  OutcomeInv follows the two stages that can     *)
(* fail; computeInputType fails exactly when the specification has no     *)
(* kind for a named file as long as the singleton still holds -X (IOInv),  *)
(* so the proof is for one build, as IOResolution's.  EnvVarConfigBuilder  *)
(* fails exactly on a malformed environment when trailing characters only *)
(* follow a QEC_MAX_THREADS value that consumeInteger rejects anyway: with *)
(* junk after a good number the build succeeds (env_thread_junk run).      *)
(***************************************************************************)

\* What OutcomeInv says of one session.
OutcomeAt(s) ==
    /\ pc[s] \in {"cli", "input", "copyInput", "output", "copyOutput",
                 "done"} => ~EnvPopulateFails(env)
    /\ pc[s] \in {"copyInput", "output", "copyOutput", "done"} =>
          ~InputUndetected(s)
    /\ pc[s] = "failed" => EnvPopulateFails(env) \/ InputUndetected(s)

\* No QEC_MAX_THREADS value has characters after a number that fits.
NoJunkAfterNumber(e) ==
    e.QEC_MAX_THREADS # Unset /\ e.QEC_MAX_THREADS.junk =>
        ConsumeIntegerFails(e.QEC_MAX_THREADS)

\* EnvVarConfigBuilder::populateConfig fails exactly on a malformed
\* environment when no good number is followed by junk.
LEMMA EnvOutcome ==
    ASSUME env \in Env, NoJunkAfterNumber(env)
    PROVE  EnvPopulateFails(env) <=> EnvMalformed
<1>1. VerbosityFails(env) <=>
        env.QEC_VERBOSITY \notin {Unset, "ERROR", "WARN", "INFO", "DEBUG"}
    BY DEF VerbosityFails, VerbosityOfToken
<1>2. env.QEC_MAX_THREADS # Unset =>
        (ConsumeIntegerFails(env.QEC_MAX_THREADS) <=>
            env.QEC_MAX_THREADS.lead \in {NoDigits} \cup {UIntMax + 1})
    BY EnvAssumption DEF Env, ThreadToken, ConsumeIntegerFails, NoDigits
<1> QED BY <1>1, <1>2 DEF EnvPopulateFails, MaxThreadsFails, EnvMalformed,
           NoJunkAfterNumber

\* computeInputType, on a singleton that still holds -X, fails exactly when
\* the specification has no input kind for a named file.
LEMMA InputOutcome ==
    ASSUME NEW s, cli.inputType = cliArgs.X,
           cli.emitBytecode = cliArgs.emitBytecode
    PROVE  InputTypeFails(cli, inFile[s]) <=> InputUndetected(s)
BY DetectedIsSpec DEF InputTypeFails, InputUndetected, SpecInputType

LEMMA OutcomeInit == Init => OutcomeInv /\ env \in EnvChoices
BY DEF Init, OutcomeInv

LEMMA OutcomeStep ==
    ASSUME NEW s0, Sessions = {s0}, IOInv, OutcomeInv, env \in EnvChoices,
           [Next]_vars
    PROVE  OutcomeInv' /\ env' \in EnvChoices
<1> SUFFICES OutcomeAt(s0)' /\ env' = env
    BY DEF OutcomeInv, OutcomeAt
<1>0. /\ OutcomeAt(s0)
      /\ pc \in [Sessions -> Stage]
    BY DEF OutcomeInv, OutcomeAt, IOInv, TypeOK
<1>1. CASE (RegisterCLOptions \/ ParsePassPlugin \/ ParseDialectPlugin)
              /\ UNCHANGED toolVars
    <2>1. cliArgs' = cliArgs
        BY <1>1 DEF RegisterCLOptions, ParsePassPlugin, ParseDialectPlugin
    <2>2. SpecInputType(s0)' = SpecInputType(s0)
        BY <1>1, <2>1, SpecFrame DEF toolVars
    <2> QED BY <1>0, <1>1, <2>2 DEF toolVars, OutcomeAt, InputUndetected
<1>2. ASSUME NEW s \in Sessions, BuildStart(s) PROVE OutcomeAt(s0)' /\ env' = env
    BY <1>0, <1>2 DEF BuildStart, OutcomeAt
<1>3. ASSUME NEW s \in Sessions, EnvStage(s) PROVE OutcomeAt(s0)' /\ env' = env
    BY <1>0, <1>3 DEF EnvStage, OutcomeAt
<1>4. ASSUME NEW s \in Sessions, CliStage(s) PROVE OutcomeAt(s0)' /\ env' = env
    BY <1>0, <1>4 DEF CliStage, OutcomeAt
<1>5. ASSUME NEW s \in Sessions, ComputeInputType(s)
      PROVE  OutcomeAt(s0)' /\ env' = env
    <2>1. s = s0 /\ pc[s0] = "input"
        BY <1>5 DEF ComputeInputType
    <2>2. cli.inputType = cliArgs.X /\ cli.emitBytecode = cliArgs.emitBytecode
        BY <2>1 DEF IOInv, IOSession, BeforeInput
    <2>3. InputTypeFails(cli, inFile[s0]) <=> InputUndetected(s0)
        BY <2>2, InputOutcome
    <2>4. InputUndetected(s0)' = InputUndetected(s0)
        BY <1>5, SpecFrame DEF ComputeInputType, InputUndetected
    <2>5. pc'[s0] = IF InputUndetected(s0) THEN "failed" ELSE "copyInput"
        BY <1>0, <1>5, <2>1, <2>3 DEF ComputeInputType
    <2>6. ~EnvPopulateFails(env) /\ env' = env
        BY <1>0, <1>5, <2>1 DEF ComputeInputType, OutcomeAt
    <2> QED BY <2>4, <2>5, <2>6 DEF OutcomeAt
<1>6. ASSUME NEW s \in Sessions, CopyInputType(s)
      PROVE  OutcomeAt(s0)' /\ env' = env
    <2>1. InputUndetected(s0)' = InputUndetected(s0)
        BY <1>6, SpecFrame DEF CopyInputType, cliVars, InputUndetected
    <2> QED BY <1>0, <1>6, <2>1 DEF CopyInputType, OutcomeAt
<1>7. ASSUME NEW s \in Sessions, ComputeOutputType(s)
      PROVE  OutcomeAt(s0)' /\ env' = env
    <2>1. InputUndetected(s0)' = InputUndetected(s0)
        BY <1>7, SpecFrame DEF ComputeOutputType, InputUndetected
    <2> QED BY <1>0, <1>7, <2>1 DEF ComputeOutputType, OutcomeAt
<1>8. ASSUME NEW s \in Sessions, CopyEmitAction(s)
      PROVE  OutcomeAt(s0)' /\ env' = env
    <2>1. InputUndetected(s0)' = InputUndetected(s0)
        BY <1>8, SpecFrame DEF CopyEmitAction, cliVars, InputUndetected
    <2> QED BY <1>0, <1>8, <2>1 DEF CopyEmitAction, OutcomeAt
<1>9. CASE Terminating \/ UNCHANGED vars
    <2>1. vars' = vars
        BY <1>9 DEF Terminating
    <2> QED BY <1>0, <2>1 DEF vars, cliVars, toolVars, OutcomeAt,
               InputUndetected, SpecInputType
<1> QED BY <1>1, <1>2, <1>3, <1>4, <1>5, <1>6, <1>7, <1>8, <1>9 DEF Next

\* The error paths of EnvVarConfigBuilder and computeInputType in a process
\* with one build, for environments where trailing characters follow only
\* a QEC_MAX_THREADS value consumeInteger rejects: the build fails exactly
\* when the environment is malformed or a named input file has no kind.
THEOREM BuildOutcomeSingleBuild ==
    ASSUME NEW s0, Sessions = {s0},
           \A e \in EnvChoices : NoJunkAfterNumber(e)
    PROVE  Spec => []BuildOutcome
<1> DEFINE J == OutcomeInv /\ env \in EnvChoices
<1>1. Init => J
    BY OutcomeInit
<1>2. IOInv /\ J /\ [Next]_vars => J'
    BY OutcomeStep
<1>3. Spec => []J
    BY <1>1, <1>2, IOInvSingleBuild, PTL DEF Spec
<1>4. J => BuildOutcome
    <2> SUFFICES ASSUME J, NEW s \in Sessions, Finished(s)
                 PROVE  pc[s] = "failed" <=> EnvMalformed \/ InputUndetected(s)
        BY DEF BuildOutcome, InputUndetected
    <2>1. EnvPopulateFails(env) <=> EnvMalformed
        BY EnvOutcome, ToolAssumption DEF OutcomeInv
    <2> QED BY <2>1 DEF OutcomeInv, Finished
<1> QED BY <1>3, <1>4, PTL

====
