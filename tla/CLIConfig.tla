------------------------------ MODULE CLIConfig ------------------------------
(***************************************************************************)
(* The command-line stage (src/unnamed/part_001 139-611, CLIConfigBuilder  *)
(* and the singleton QEConfigCLOptions behind it).                         *)
(*                                                                         *)
(* llvm::cl writes every parsed option into one process-wide object,       *)
(* clOptionsConfig, a QEConfig of its own: the variable cli.  Scalar       *)
(* options reach it through their callbacks when the command line is      *)
(* parsed; that is summed up by ParsedOptions, applied in Init to the raw  *)
(* arguments cliArgs.  The plugin options have callbacks with a side       *)
(* effect (loading a library) and are parsed one at a time from argv.     *)
(* computeInputType and computeOutputType write their result back into    *)
(* the singleton, where every later build reads it.                        *)
(***************************************************************************)
EXTENDS QEConfig, Integers

CONSTANTS
    CliArgChoices,     \* possible values of the scalar options
    PluginArgChoices   \* possible sequences of plugin options, in argv order

\* The scalar options as written on the command line (Unset: not given).
\* maxThreads is cl::opt<int> with init(-1); verbosity has init(_VerbosityCnt).
CliArgs == [target : TargetNames \cup {Unset}, config : ConfigPaths \cup {Unset},
            verbosity : Verbosity \cup {VerbosityCnt}, maxThreads : Int,
            X : InputType, emit : EmitAction, emitBytecode : BOOLEAN,
            flags : [FlagNames -> BOOLEAN]]

\* -load-pass-plugin=path and -load-dialect-plugin=path.
PluginArg == [kind : {"pass", "dialect"}, path : PluginPaths]

ASSUME CliAssumption ==
    /\ CliArgChoices \subseteq CliArgs
    /\ PluginArgChoices \subseteq Seq(PluginArg)

\* The singleton: a QEConfig plus MlirOptMainConfig::emitBytecodeFlag.
CliState == [targetName : OptName, targetConfigPath : OptPath,
             inputType : InputType, emitAction : EmitAction,
             verbosityLevel : Verbosity \cup {VerbosityCnt},
             flags : [FlagNames -> BOOLEAN],
             passPlugins : Seq(PluginPaths), dialectPlugins : Seq(PluginPaths),
             maxThreads : OptThreads, emitBytecode : BOOLEAN]

VARIABLES
    cliArgs,         \* the scalar options given on the command line
    argv,            \* every plugin option given, in order
    args,            \* the plugin options not yet parsed
    cli,             \* clOptionsConfig
    dialectCallback, \* registerCLOptions has run: the options exist and the
                     \* dialect callback is installed
    loaded,          \* plugin libraries loaded
    loadWarnings     \* plugin paths reported "Request ignored."

cliVars == <<cliArgs, argv, args, cli, dialectCallback, loaded, loadWarnings>>

(***************************************************************************)
(* The QEConfigCLOptions constructor (lines 208-463): the storage of each  *)
(* option and the callbacks of -config, -target and -max-threads, which    *)
(* keep a value only when it is non-empty or positive.                     *)
(***************************************************************************)
ParsedOptions(a) ==
    [targetName |-> IF a.target \in {Unset, ""} THEN Unset ELSE a.target,
     targetConfigPath |-> IF a.config \in {Unset, ""} THEN Unset ELSE a.config,
     inputType |-> a.X, emitAction |-> a.emit,
     verbosityLevel |-> a.verbosity, flags |-> a.flags,
     passPlugins |-> << >>, dialectPlugins |-> << >>,
     maxThreads |-> IF a.maxThreads > 0 THEN a.maxThreads ELSE Unset,
     emitBytecode |-> a.emitBytecode]

\* Before registerCLOptions: the command line and, in cli, the values its
\* scalar options will be parsed to (no build reads them before parsing).
CLIInit ==
    /\ cliArgs \in CliArgChoices
    /\ argv \in PluginArgChoices
    /\ args = argv
    /\ cli = ParsedOptions(cliArgs)
    /\ dialectCallback = FALSE
    /\ loaded = {}
    /\ loadWarnings = {}

\* CLIConfigBuilder::registerCLOptions (lines 537-540): its access to the
\* ManagedStatic clOptionsConfig (line 525) constructs QEConfigCLOptions,
\* which registers the options with llvm::cl, and it then installs the
\* -load-dialect-plugin callback (setDialectPluginsCallback, lines 469-476).
RegisterCLOptions ==
    /\ ~dialectCallback
    /\ dialectCallback' = TRUE
    /\ UNCHANGED <<cliArgs, argv, args, cli, loaded, loadWarnings>>

\* A load attempt: the library is loaded, or the failure is printed and the
\* request ignored.
LoadPlugin(p) ==
    \/ /\ loaded' = loaded \cup {p}
       /\ UNCHANGED loadWarnings
    \/ /\ loadWarnings' = loadWarnings \cup {p}
       /\ UNCHANGED loaded

\* Mutant: the path is recorded only when the library loads.
ParsePassPluginRecordOnLoad ==
    /\ dialectCallback
    /\ args # << >>
    /\ Head(args).kind = "pass"
    /\ \/ /\ loaded' = loaded \cup {Head(args).path}
          /\ cli' = [cli EXCEPT !.passPlugins = Append(@, Head(args).path)]
          /\ UNCHANGED loadWarnings
       \/ /\ loadWarnings' = loadWarnings \cup {Head(args).path}
          /\ UNCHANGED <<loaded, cli>>
    /\ args' = Tail(args)
    /\ UNCHANGED <<cliArgs, argv, dialectCallback>>

\* llvm::cl parses a plugin option only once QEConfigCLOptions has
\* registered it, i.e. after registerCLOptions: before, the option is
\* unknown and parsing fails before any build.
\* The -load-pass-plugin callback (lines 412-424): record the path, then load.
ParsePassPlugin ==
    /\ dialectCallback
    /\ args # << >>
    /\ Head(args).kind = "pass"
    /\ cli' = [cli EXCEPT !.passPlugins = Append(@, Head(args).path)]
    /\ LoadPlugin(Head(args).path)
    /\ args' = Tail(args)
    /\ UNCHANGED <<cliArgs, argv, dialectCallback>>

\* -load-dialect-plugin (lines 426-432, 469-476): the callback that
\* registerCLOptions installed records the path and loads it.
ParseDialectPlugin ==
    /\ dialectCallback
    /\ args # << >>
    /\ Head(args).kind = "dialect"
    /\ args' = Tail(args)
    /\ cli' = [cli EXCEPT !.dialectPlugins = Append(@, Head(args).path)]
    /\ LoadPlugin(Head(args).path)
    /\ UNCHANGED <<cliArgs, argv, dialectCallback>>

\* Mutant: the verbosity is copied without testing for _VerbosityCnt.
CliPopulatedNoSentinel(c, cs) ==
    [c EXCEPT
        !.verbosityLevel = cs.verbosityLevel,
        !.targetName = IF cs.targetName # Unset THEN cs.targetName ELSE @,
        !.targetConfigPath = IF cs.targetConfigPath # Unset
                             THEN cs.targetConfigPath ELSE @,
        !.flags = cs.flags,
        !.passPlugins = @ \o cs.passPlugins,
        !.dialectPlugins = @ \o cs.dialectPlugins,
        !.maxThreads = IF cs.maxThreads # Unset THEN cs.maxThreads ELSE @]

\* Mutant: maxThreads is copied whether or not the CLI holds a value.
CliPopulatedThreadsAlways(c, cs) ==
    [c EXCEPT
        !.verbosityLevel = IF cs.verbosityLevel # VerbosityCnt
                           THEN cs.verbosityLevel ELSE @,
        !.targetName = IF cs.targetName # Unset THEN cs.targetName ELSE @,
        !.targetConfigPath = IF cs.targetConfigPath # Unset
                             THEN cs.targetConfigPath ELSE @,
        !.flags = cs.flags,
        !.passPlugins = @ \o cs.passPlugins,
        !.dialectPlugins = @ \o cs.dialectPlugins,
        !.maxThreads = cs.maxThreads]

(***************************************************************************)
(* CLIConfigBuilder::populateConfig(config) (lines 542-593): copy the      *)
(* singleton into the record; optional values only when present, the      *)
(* boolean flags always, the plugin lists appended.                       *)
(***************************************************************************)
CliPopulated(c, cs) ==
    [c EXCEPT
        !.verbosityLevel = IF cs.verbosityLevel # VerbosityCnt
                           THEN cs.verbosityLevel ELSE @,
        !.targetName = IF cs.targetName # Unset THEN cs.targetName ELSE @,
        !.targetConfigPath = IF cs.targetConfigPath # Unset
                             THEN cs.targetConfigPath ELSE @,
        !.flags = cs.flags,
        !.passPlugins = @ \o cs.passPlugins,
        !.dialectPlugins = @ \o cs.dialectPlugins,
        !.maxThreads = IF cs.maxThreads # Unset THEN cs.maxThreads ELSE @]

\* computeInputType (lines 478-495): the input type the singleton holds
\* afterwards, and whether it returns an error.
DetectedInputType(cs, f) ==
    IF cs.inputType # "Undetected" THEN cs.inputType
    ELSE IF cs.emitBytecode THEN "Bytecode"
    ELSE fileExtensionToInputType(getExtension(f))

\* Mutant: the "-" exemption of the autodetect error is dropped.
InputTypeFailsOnStdin(cs, f) ==
    /\ cs.inputType = "Undetected"
    /\ DetectedInputType(cs, f) = "Undetected"

InputTypeFails(cs, f) ==
    /\ cs.inputType = "Undetected"
    /\ ~f.stdio
    /\ DetectedInputType(cs, f) = "Undetected"

\* computeOutputType (lines 497-520): the emit action the singleton holds
\* afterwards, and the warning printed ("none" when there is none).
\* Mutant: the file extension is preferred to an explicit -emit.
ComputedEmitActionExtFirst(cs, f) ==
    LET ext == fileExtensionToAction(getExtension(f)) IN
    IF ~f.stdio /\ ext # "Undetected" THEN ext
    ELSE IF cs.emitAction # "Undetected" THEN cs.emitAction
    ELSE "MLIR"

ComputedEmitAction(cs, f) ==
    LET ext == fileExtensionToAction(getExtension(f)) IN
    IF cs.emitAction # "Undetected" THEN cs.emitAction
    ELSE IF ~f.stdio /\ ext # "Undetected" THEN ext
    ELSE "MLIR"

OutputWarning(cs, f) ==
    LET ext == fileExtensionToAction(getExtension(f)) IN
    IF f.stdio THEN "none"
    ELSE IF ext = "Undetected" /\ cs.emitAction = "Undetected" THEN "noExt"
    ELSE IF cs.emitAction = "Undetected" THEN "none"
    ELSE IF ext # cs.emitAction THEN "mismatch"
    ELSE "none"

=============================================================================
