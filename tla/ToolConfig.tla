------------------------------ MODULE ToolConfig ------------------------------
(***************************************************************************)
(* buildToolConfig (declared part_000 283-298): a configuration is built   *)
(* from the defaults, then the environment, then the command line, in that *)
(* order, and the CLI stage finishes by resolving the input type and emit  *)
(* action from the session's own input and output file names              *)
(* (CLIConfigBuilder::populateConfig(config, in, out), part_001 595-611).  *)
(*                                                                         *)
(* Several builds run in one process (one per compilation session), one    *)
(* after the other or at the same time, all reading the environment and    *)
(* the one CLI singleton.  Each statement of populateConfig that touches   *)
(* the singleton is a step of its own, so the builds interleave there.     *)
(***************************************************************************)
EXTENDS EnvVarConfig, CLIConfig

CONSTANTS
    Sessions,      \* the compilation sessions building a configuration
    EnvChoices,    \* possible process environments
    InputFiles,    \* input file names a session may compile
    OutputFiles    \* output file names a session may write

ASSUME ToolAssumption ==
    /\ EnvChoices \subseteq Env
    /\ InputFiles \subseteq Filename /\ InputFiles # {}
    /\ OutputFiles \subseteq Filename /\ OutputFiles # {}

VARIABLES
    env,         \* the process environment
    pc,          \* where each session's build is
    cfg,         \* the record each session's build fills in
    inFile,      \* the input file name of each session
    outFile,     \* the output file name of each session
    outWarning   \* the warning computeOutputType printed for each session

toolVars == <<env, pc, cfg, inFile, outFile, outWarning>>
vars == <<cliVars, toolVars>>

Stage == {"idle", "env", "cli", "input", "copyInput", "output",
          "copyOutput", "done", "failed"}

TypeOK ==
    /\ cliArgs \in CliArgs
    /\ argv \in Seq(PluginArg) /\ args \in Seq(PluginArg)
    /\ cli \in CliState
    /\ dialectCallback \in BOOLEAN
    /\ loaded \subseteq PluginPaths /\ loadWarnings \subseteq PluginPaths
    /\ env \in Env
    /\ pc \in [Sessions -> Stage]
    /\ cfg \in [Sessions -> Config]
    /\ inFile \in [Sessions -> Filename] /\ outFile \in [Sessions -> Filename]
    /\ outWarning \in [Sessions -> {"none", "noExt", "mismatch"}]

Init ==
    /\ CLIInit
    /\ env \in EnvChoices
    /\ pc = [s \in Sessions |-> "idle"]
    /\ cfg = [s \in Sessions |-> DefaultConfig]
    /\ inFile = [s \in Sessions |-> Dash]
    /\ outFile = [s \in Sessions |-> Dash]
    /\ outWarning = [s \in Sessions |-> "none"]

\* A session starts building once the command line is parsed (which needs
\* the options that registerCLOptions registers): a fresh default QEConfig
\* and the session's file names.
BuildStart(s) ==
    /\ dialectCallback
    /\ args = << >>
    /\ pc[s] = "idle"
    /\ \E fi \in InputFiles, fo \in OutputFiles :
          /\ inFile' = [inFile EXCEPT ![s] = fi]
          /\ outFile' = [outFile EXCEPT ![s] = fo]
    /\ cfg' = [cfg EXCEPT ![s] = DefaultConfig]
    /\ pc' = [pc EXCEPT ![s] = "env"]
    /\ UNCHANGED <<cliVars, env, outWarning>>

\* EnvVarConfigBuilder::populateConfig; an error ends the build.
EnvStage(s) ==
    /\ pc[s] = "env"
    /\ cfg' = [cfg EXCEPT ![s] = EnvPopulated(@, env)]
    /\ pc' = [pc EXCEPT ![s] = IF EnvPopulateFails(env) THEN "failed" ELSE "cli"]
    /\ UNCHANGED <<cliVars, env, inFile, outFile, outWarning>>

\* CLIConfigBuilder::populateConfig(config) (part_001 599-600).
CliStage(s) ==
    /\ pc[s] = "cli"
    /\ cfg' = [cfg EXCEPT ![s] = CliPopulated(@, cli)]
    /\ pc' = [pc EXCEPT ![s] = "input"]
    /\ UNCHANGED <<cliVars, env, inFile, outFile, outWarning>>

\* clOptionsConfig->computeInputType(inputFilename) (part_001 602-603).
ComputeInputType(s) ==
    /\ pc[s] = "input"
    /\ cli' = [cli EXCEPT !.inputType = DetectedInputType(cli, inFile[s])]
    /\ pc' = [pc EXCEPT ![s] = IF InputTypeFails(cli, inFile[s])
                               THEN "failed" ELSE "copyInput"]
    /\ UNCHANGED <<cliArgs, argv, args, dialectCallback, loaded, loadWarnings>>
    /\ UNCHANGED <<env, cfg, inFile, outFile, outWarning>>

\* config.inputType = clOptionsConfig->inputType (part_001 604).
CopyInputType(s) ==
    /\ pc[s] = "copyInput"
    /\ cfg' = [cfg EXCEPT ![s].inputType = cli.inputType]
    /\ pc' = [pc EXCEPT ![s] = "output"]
    /\ UNCHANGED <<cliVars, env, inFile, outFile, outWarning>>

\* clOptionsConfig->computeOutputType(outputFilename) (part_001 606-607).
ComputeOutputType(s) ==
    /\ pc[s] = "output"
    /\ cli' = [cli EXCEPT !.emitAction = ComputedEmitAction(cli, outFile[s])]
    /\ outWarning' = [outWarning EXCEPT ![s] = OutputWarning(cli, outFile[s])]
    /\ pc' = [pc EXCEPT ![s] = "copyOutput"]
    /\ UNCHANGED <<cliArgs, argv, args, dialectCallback, loaded, loadWarnings>>
    /\ UNCHANGED <<env, cfg, inFile, outFile>>

\* Mutant: the computed emit action is not copied into the record.
CopyEmitActionSkip(s) ==
    /\ pc[s] = "copyOutput"
    /\ pc' = [pc EXCEPT ![s] = "done"]
    /\ UNCHANGED <<cliVars, env, cfg, inFile, outFile, outWarning>>

\* config.emitAction = clOptionsConfig->emitAction (part_001 608-610).
CopyEmitAction(s) ==
    /\ pc[s] = "copyOutput"
    /\ cfg' = [cfg EXCEPT ![s].emitAction = cli.emitAction]
    /\ pc' = [pc EXCEPT ![s] = "done"]
    /\ UNCHANGED <<cliVars, env, inFile, outFile, outWarning>>

\* Every build has returned: the process stays where it is.
Terminating ==
    /\ args = << >>
    /\ \A s \in Sessions : pc[s] \in {"done", "failed"}
    /\ UNCHANGED vars

Next ==
    \/ (RegisterCLOptions \/ ParsePassPlugin \/ ParseDialectPlugin)
          /\ UNCHANGED toolVars
    \/ \E s \in Sessions :
          \/ BuildStart(s) \/ EnvStage(s) \/ CliStage(s)
          \/ ComputeInputType(s) \/ CopyInputType(s)
          \/ ComputeOutputType(s) \/ CopyEmitAction(s)
    \/ Terminating

Spec == Init /\ [][Next]_vars

-----------------------------------------------------------------------------
(***************************************************************************)
(* What the specification of the configuration promises, written from its  *)
(* rules rather than from the code: the command line overrides the        *)
(* environment, which overrides the defaults, a stage that has no value    *)
(* for a field leaves it alone, and the input and output kinds come from   *)
(* the session's explicit options, else from its own file names.           *)
(***************************************************************************)

\* The value of a field after the overlays, highest precedence first.
Overlay(default, fromEnv, fromCli) ==
    IF fromCli # Unset THEN fromCli ELSE IF fromEnv # Unset THEN fromEnv
    ELSE default

\* A command-line value counts when given and not empty (non-positive for
\* -max-threads): "-target=" carries no target.
CliValue(v) == IF v \in {Unset, ""} THEN Unset ELSE v
CliThreads == IF cliArgs.maxThreads > 0 THEN cliArgs.maxThreads ELSE Unset
CliLevel == IF cliArgs.verbosity = VerbosityCnt THEN Unset ELSE cliArgs.verbosity
EnvLevel == IF env.QEC_VERBOSITY = Unset THEN Unset
            ELSE VerbosityOfToken[env.QEC_VERBOSITY]
EnvThreads == IF env.QEC_MAX_THREADS = Unset THEN Unset
              ELSE env.QEC_MAX_THREADS.lead

\* The input kind of a session: -X, else bytecode when bytecode output is
\* requested, else from the input file's extension.
SpecInputType(s) ==
    IF cliArgs.X # "Undetected" THEN cliArgs.X
    ELSE IF cliArgs.emitBytecode THEN "Bytecode"
    ELSE fileExtensionToInputType(getExtension(inFile[s]))

\* The emit action of a session: -emit, else from the output file's
\* extension, else textual MLIR.
SpecEmitAction(s) ==
    LET ext == fileExtensionToAction(getExtension(outFile[s])) IN
    IF cliArgs.emit # "Undetected" THEN cliArgs.emit
    ELSE IF outFile[s].stdio \/ ext = "Undetected" THEN "MLIR" ELSE ext

\* The warning about the output name: none for "-"; "noExt" when neither
\* the extension nor -emit gives an action; "mismatch" when -emit disagrees
\* with the extension.
SpecOutWarning(s) ==
    LET ext == fileExtensionToAction(getExtension(outFile[s])) IN
    IF outFile[s].stdio THEN "none"
    ELSE IF cliArgs.emit = "Undetected"
         THEN IF ext = "Undetected" THEN "noExt" ELSE "none"
    ELSE IF ext # cliArgs.emit THEN "mismatch" ELSE "none"

\* A malformed environment value: a verbosity token outside the vocabulary,
\* or a thread cap that is not a non-negative integer that fits.
EnvMalformed ==
    \/ env.QEC_VERBOSITY \notin {Unset, "ERROR", "WARN", "INFO", "DEBUG"}
    \/ /\ env.QEC_MAX_THREADS # Unset
       /\ \/ env.QEC_MAX_THREADS.lead \in {NoDigits} \cup {UIntMax + 1}
          \/ env.QEC_MAX_THREADS.junk

\* Pass-plugin paths of the command line, in order.
PassArgs == [i \in 1 .. Len(SelectSeq(argv, LAMBDA a : a.kind = "pass")) |->
                SelectSeq(argv, LAMBDA a : a.kind = "pass")[i].path]

Finished(s) == pc[s] \in {"done", "failed"}

(***************************************************************************)
(* Properties.                                                             *)
(***************************************************************************)

\* Precedence of the overlays (buildToolConfig with EnvVarConfigBuilder and
\* CLIConfigBuilder::populateConfig): in every configuration built, the
\* target name, target configuration path, verbosity and thread cap are the
\* command line's value if it gave one, else the environment's, else the
\* default, and the boolean flags are those of the command line.
OverlayPrecedence ==
    \A s \in Sessions : pc[s] = "done" =>
        /\ cfg[s].targetName =
              Overlay(Unset, env.QEC_TARGET_NAME, CliValue(cliArgs.target))
        /\ cfg[s].targetConfigPath =
              Overlay(Unset, env.QEC_TARGET_CONFIG_PATH, CliValue(cliArgs.config))
        /\ cfg[s].verbosityLevel = Overlay("Warn", EnvLevel, CliLevel)
        /\ cfg[s].maxThreads = Overlay(Unset, EnvThreads, CliThreads)
        /\ cfg[s].flags = cliArgs.flags

\* The positions of the -load-pass-plugin options among the first n plugin
\* options of the command line.
PassPositions(n) == {i \in 1 .. n : argv[i].kind = "pass"}

\* ps lists the paths of the pass-plugin options among the first n plugin
\* options, once each and in command-line order: its j-th path is that of
\* option at[j], and at runs increasingly over exactly those options.
ListsPassArgs(ps, n) ==
    \E at \in [1 .. Len(ps) -> 1 .. n] :
        /\ \A j, k \in 1 .. Len(ps) : j < k => at[j] < at[k]
        /\ {at[j] : j \in 1 .. Len(ps)} = PassPositions(n)
        /\ \A j \in 1 .. Len(ps) : ps[j] = argv[at[j]].path

\* The -load-pass-plugin callback and CLIConfigBuilder::populateConfig:
\* every configuration built lists exactly the pass plugins of the command
\* line, once each and in command-line order, whatever other sessions built.
PluginPathsRecorded ==
    \A s \in Sessions : pc[s] = "done" =>
        ListsPassArgs(cfg[s].passPlugins, Len(argv))

\* computeInputType/computeOutputType and the copies after them: every
\* configuration built has the input kind and emit action its own explicit
\* options and file names call for, and the output-name warning printed for
\* the session is the one those call for.
IOResolution ==
    \A s \in Sessions : pc[s] = "done" =>
        /\ cfg[s].inputType = SpecInputType(s)
        /\ cfg[s].emitAction = SpecEmitAction(s)
        /\ outWarning[s] = SpecOutWarning(s)

\* The error paths of EnvVarConfigBuilder and computeInputType: a build
\* fails exactly when the environment holds a malformed value or the input
\* kind of a named (not "-") input file cannot be determined.
BuildOutcome ==
    \A s \in Sessions : Finished(s) =>
        (pc[s] = "failed" <=>
            \/ EnvMalformed
            \/ ~inFile[s].stdio /\ SpecInputType(s) = "Undetected")

\* QEConfig::getPassPlugins (part_000 192): the pass plugins a built
\* configuration reports are the pass plugins of the command line.
PassPluginsAccessor ==
    \A s \in Sessions : pc[s] = "done" => getPassPlugins(cfg[s]) = PassArgs

(***************************************************************************)
(* The invariant that makes PluginPathsRecorded inductive.  llvm::cl runs  *)
(* the plugin callbacks in command-line order: args is what is left of    *)
(* argv, and the singleton lists the pass plugins of the parsed prefix.    *)
(* No build starts before parsing ends; a build's record has no plugins    *)
(* until its cli stage appends the singleton's complete list.              *)
(***************************************************************************)

\* The number of plugin options parsed so far.
Parsed == Len(argv) - Len(args)

\* The options not yet parsed are the last ones of argv.
ArgsUnparsed ==
    /\ Len(args) <= Len(argv)
    /\ \A i \in 1 .. Len(args) : args[i] = argv[Parsed + i]

\* The plugin list of session s's record, stage by stage.
SessionPlugins(s) ==
    /\ pc[s] # "idle" => args = << >>
    /\ pc[s] \in {"idle", "env", "cli"} => cfg[s].passPlugins = << >>
    /\ pc[s] \in {"input", "copyInput", "output", "copyOutput", "done"} =>
          ListsPassArgs(cfg[s].passPlugins, Len(argv))

PluginInv ==
    /\ TypeOK
    /\ ArgsUnparsed
    /\ ListsPassArgs(cli.passPlugins, Parsed)
    /\ \A s \in Sessions : SessionPlugins(s)

(***************************************************************************)
(* The invariant that makes OverlayPrecedence inductive.  The CLI         *)
(* singleton's scalar options never change after parsing (only the plugin *)
(* lists and the two computed kinds are written), a session at the env    *)
(* stage still holds the default record, and one at the cli stage holds   *)
(* the environment's values over the defaults.                             *)
(***************************************************************************)

\* The scalar options of clOptionsConfig are those the callbacks set.
CliScalarsFixed ==
    /\ cli.targetName = CliValue(cliArgs.target)
    /\ cli.targetConfigPath = CliValue(cliArgs.config)
    /\ cli.verbosityLevel = cliArgs.verbosity
    /\ cli.maxThreads = CliThreads
    /\ cli.flags = cliArgs.flags

\* A record that has been through EnvVarConfigBuilder::populateConfig alone.
AfterEnv(c) ==
    /\ c.targetName = env.QEC_TARGET_NAME
    /\ c.targetConfigPath = env.QEC_TARGET_CONFIG_PATH
    /\ c.verbosityLevel = Overlay("Warn", EnvLevel, Unset)
    /\ c.maxThreads = EnvThreads

\* A record that has been through both builders.
AfterCli(c) ==
    /\ c.targetName =
          Overlay(Unset, env.QEC_TARGET_NAME, CliValue(cliArgs.target))
    /\ c.targetConfigPath =
          Overlay(Unset, env.QEC_TARGET_CONFIG_PATH, CliValue(cliArgs.config))
    /\ c.verbosityLevel = Overlay("Warn", EnvLevel, CliLevel)
    /\ c.maxThreads = Overlay(Unset, EnvThreads, CliThreads)
    /\ c.flags = cliArgs.flags

\* The stages after CLIConfigBuilder::populateConfig.
PastCli == {"input", "copyInput", "output", "copyOutput", "done"}

\* The scalar options of the singleton stay as parsed, and every session's
\* record has exactly the overlays of the stages it has passed.
OverlayInv ==
    /\ TypeOK
    /\ CliScalarsFixed
    /\ \A s \in Sessions :
          /\ pc[s] = "env" => cfg[s] = DefaultConfig
          /\ pc[s] = "cli" => AfterEnv(cfg[s])
          /\ pc[s] \in PastCli => AfterCli(cfg[s])

(***************************************************************************)
(* The invariant behind IOResolution for a process with one build: the     *)
(* singleton's input type and emit action hold the command line's -X and  *)
(* -emit until computeInputType/computeOutputType resolve them for the     *)
(* build, and the build's record and warning follow the singleton.  With   *)
(* two builds it fails (the stale_singleton run): the second finds the     *)
(* first one's kinds in the singleton.                                     *)
(***************************************************************************)
BeforeInput == {"idle", "env", "cli", "input", "failed"}
BeforeOutput == BeforeInput \cup {"copyInput", "output"}

\* What the singleton, the record and the warning hold for session s.
IOSession(s) ==
    /\ pc[s] \in BeforeInput => cli.inputType = cliArgs.X
    /\ pc[s] \notin BeforeInput => cli.inputType = SpecInputType(s)
    /\ pc[s] \in {"output", "copyOutput", "done"} =>
          cfg[s].inputType = SpecInputType(s)
    /\ pc[s] \in BeforeOutput => cli.emitAction = cliArgs.emit
    /\ pc[s] \in {"copyOutput", "done"} =>
          /\ cli.emitAction = SpecEmitAction(s)
          /\ outWarning[s] = SpecOutWarning(s)
    /\ pc[s] = "done" => cfg[s].emitAction = SpecEmitAction(s)

IOInv ==
    /\ TypeOK
    /\ cli.emitBytecode = cliArgs.emitBytecode
    /\ \A s \in Sessions : IOSession(s)

(***************************************************************************)
(* The invariant behind BuildOutcome: a build past a stage did not fail    *)
(* it, and a failed build failed one of the two stages that can fail.      *)
(***************************************************************************)

\* The input kind of a named input file cannot be determined.
InputUndetected(s) == ~inFile[s].stdio /\ SpecInputType(s) = "Undetected"

OutcomeInv ==
    \A s \in Sessions :
        /\ pc[s] \in {"cli", "input", "copyInput", "output", "copyOutput",
                     "done"} => ~EnvPopulateFails(env)
        /\ pc[s] \in {"copyInput", "output", "copyOutput", "done"} =>
              ~InputUndetected(s)
        /\ pc[s] = "failed" => EnvPopulateFails(env) \/ InputUndetected(s)

=============================================================================
