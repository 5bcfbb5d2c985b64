------------------------------ MODULE QEConfig ------------------------------
(***************************************************************************)
(* The QE configuration record (struct QEConfig, include/Config/QEConfig.h *)
(* = src/unnamed/part_000) and the enumerations and file-extension tables  *)
(* it is built from.  A field that is a std::optional holds either a value *)
(* or the model value Unset.  Names, paths and file names are abstracted   *)
(* to members of small CONSTANT sets: a file name is reduced to what the   *)
(* code inspects of it, whether it is the "-" sentinel and which           *)
(* FileExtension its suffix maps to.                                       *)
(***************************************************************************)
EXTENDS Naturals, Sequences

CONSTANTS
    Unset,          \* std::nullopt / an environment variable that is absent
    TargetNames,    \* values a target name can take ("" included)
    ConfigPaths,    \* values a target configuration path can take
    PluginPaths,    \* plugin library paths handed to the plugin loaders
    FlagNames       \* the boolean options copied from the CLI singleton

\* enum QEVerbosity (part_000 30-36); the CLI uses _VerbosityCnt as "not given".
Verbosity == {"Error", "Warn", "Info", "Debug"}
VerbosityCnt == "_VerbosityCnt"

\* std::nullopt is none of the values an optional field can hold.
ASSUME ConstAssumption ==
    /\ Unset \notin TargetNames \cup ConfigPaths \cup Nat \cup Verbosity
    /\ PluginPaths # {}

\* enum class EmitAction, FileExtension, InputType (part_000 38-62).
EmitAction == {"Undetected", "None", "AST", "ASTPretty", "MLIR", "Bytecode",
               "WaveMem", "QEM", "QEQEM"}
FileExtension == {"None", "AST", "ASTPretty", "QASM", "MLIR", "Bytecode",
                  "WaveMem", "QEM", "QEQEM"}
InputType == {"Undetected", "QASM", "MLIR", "Bytecode"}

\* A file name as the configuration code sees it: "-" (standard input or
\* output) or a path whose suffix maps to an extension.
Filename == [stdio : BOOLEAN, ext : FileExtension]
Dash == [stdio |-> TRUE, ext |-> "None"]
FileWith(e) == [stdio |-> FALSE, ext |-> e]

\* getExtension (part_000 78): the FileExtension of a file name's suffix.
getExtension(f) == f.ext

\* fileExtensionToInputType (part_000 72).
fileExtensionToInputType(e) ==
    IF e \in {"QASM", "MLIR", "Bytecode"} THEN e ELSE "Undetected"

\* fileExtensionToAction (part_000 74).
fileExtensionToAction(e) ==
    IF e \in {"QASM", "None"} THEN "Undetected" ELSE e

(***************************************************************************)
(* The fields of QEConfig (part_000 211-244).  The eight qe boolean flags  *)
(* and the mlir-opt boolean flags are one function over FlagNames: the     *)
(* builders treat them alike.  passPlugins and dialectPlugins are ordered  *)
(* lists of paths.                                                         *)
(***************************************************************************)
OptName == TargetNames \cup {Unset}
OptPath == ConfigPaths \cup {Unset}
OptThreads == Nat \cup {Unset}

Config == [targetName : OptName, targetConfigPath : OptPath,
           inputType : InputType, emitAction : EmitAction,
           verbosityLevel : Verbosity, flags : [FlagNames -> BOOLEAN],
           passPlugins : Seq(PluginPaths), dialectPlugins : Seq(PluginPaths),
           maxThreads : OptThreads]

\* The default flag values: add-target-passes is on, every other flag off.
FlagDefault == [f \in FlagNames |-> f = "addTargetPasses"]

\* A default-constructed QEConfig (member initialisers, part_000 211-244).
DefaultConfig ==
    [targetName |-> Unset, targetConfigPath |-> Unset,
     inputType |-> "Undetected", emitAction |-> "Undetected",
     verbosityLevel |-> "Warn", flags |-> FlagDefault,
     passPlugins |-> << >>, dialectPlugins |-> << >>, maxThreads |-> Unset]

\* QEConfig::getPassPlugins (part_000 192): returns dialectPlugins.
getPassPlugins(c) == c.dialectPlugins

=============================================================================
