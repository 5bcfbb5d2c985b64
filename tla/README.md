# Formal model of the qe-compiler configuration subsystem

This directory holds TLA+ modules, TLC configurations and TLAPS proofs for the
configuration code of the qe-compiler. That code turns the defaults, the
process environment and the command line into one `QEConfig` record. It also
covers the pieces that code leans on. The source lives in `src/` (see
`PROJECT.json` → `components` for the full inventory).

## The system and how its parts interact

| Part | Source | State it owns |
|---|---|---|
| `QEConfig` record, enums, extension tables | `src/unnamed/part_000` 28-245 | fields with `std::optional`; defaults in member initialisers |
| `EnvVarConfigBuilder` | `src/lib/Config/EnvVarConfig.cpp` 26-88 | none; reads `QEC_*` variables, writes the record |
| `CLIConfigBuilder` + singleton `QEConfigCLOptions` | `src/unnamed/part_001` 139-611 | process-wide `llvm::ManagedStatic` `clOptionsConfig`, written by `llvm::cl` callbacks |
| `buildToolConfig` | declared in `part_000` 282-298, body not in the repository | none; runs the builders in order |
| diagnostics and their Python bindings | `part_001` 1-138; `python_lib/qe_compiler/lib_enums.cpp` | none in C++; Python holds `Diagnostic` objects, pickles and prints them |
| resources directory | `EnvVarConfig.cpp` 139-165 (QEC.cpp) | two function-local statics |

`buildToolConfig` starts from a default `QEConfig`. It overlays the
environment (`EnvVarConfigBuilder::populateConfig`), then the command line
(`CLIConfigBuilder::populateConfig(config, in, out)`).

The command-line builder does not parse anything itself. `llvm::cl` has
already written every option into the singleton `clOptionsConfig` through the
option storage and callbacks. The builder copies the singleton into the
record. It then calls `computeInputType` and `computeOutputType` *on the
singleton* and copies their results.

The plugin options load libraries from inside their callbacks. The options
come into being at the first access of the `ManagedStatic` (`part_001` 525),
which is `registerCLOptions` (538); it installs the `-load-dialect-plugin`
callback in the same call. An option on the command line before that is
unknown to `llvm::cl` and parsing fails, so in the model the parse steps and
the builds follow `RegisterCLOptions`.

Errors go through `emitDiagnostic`, which hands
the `Diagnostic` to an optional callback (from Python, the bindings of
`lib_enums.cpp`) and returns an `llvm::Error` carrying its text. Targets find
their files under `getResourcesDir()/targets/<path>`.

## Modules

| Module | Models | State / actions |
|---|---|---|
| `QEConfig` | the record, its enums, defaults, `getPassPlugins` | operators only; `Unset` stands for `std::nullopt` |
| `EnvVarConfig` | `populateConfig` and its four steps | `EnvPopulated(c, e)` returns the record the builder leaves, writes before an early error included; `consumeInteger` is modelled by what it reads: a numeric prefix `lead` (absent, in range, or `UIntMax+1` for overflow) and whether characters follow it |
| `CLIConfig` | the singleton and its callbacks, `registerCLOptions`, `populateConfig(config)`, `computeInputType`, `computeOutputType` | variables `cliArgs`, `argv`, `args`, `cli`, `dialectCallback`, `loaded`, `loadWarnings`; actions `RegisterCLOptions`, `ParsePassPlugin`, `ParseDialectPlugin` |
| `ToolConfig` | several `buildToolConfig` calls in one process | variables `env`, `pc`, `cfg`, `inFile`, `outFile`, `outWarning` per session; one action per statement group of `populateConfig(config, in, out)`: `BuildStart`, `EnvStage`, `CliStage`, `ComputeInputType`, `CopyInputType`, `ComputeOutputType`, `CopyEmitAction`, and `Terminating` |
| `MC_ToolConfig` | TLC instances | the value sets the `.cfg` files choose |
| `ToolConfig_proofs`, `ToolConfig_plugin_proofs` | TLAPS proofs | lemmas and theorems below |
| `Resources` | `_getResourcesDir`, `getResourcesDir`, `getTargetResourcesDir` | variables `qecResources` (the environment), `innerDir`, `outerDir` (the two statics), `lastCall`, `targetDirs`; actions `GetResourcesDir`, `GetTargetResourcesDir(rp)`, `SetEnv(v)`. A call is one step: C++ initialises a function-local static once and makes concurrent callers wait |
| `Diagnostics` | `emitDiagnostic`, `Diagnostic::toString` and its two tables, the pybind11 enums and the `Diagnostic` class with its pickle pair | variables `sink` (what the callback got), `errors`, `held` (Python's objects), `printed`, `raised`, `aborted` (`llvm_unreachable` reached); actions `Report(cb, d, ec)`, `Unpickle(t)`, `Str(d)`. A Python enum value is a record `[kind, val]`; `OutOfRange` is an enum built from an integer that is no enumerator, `IntValue` an int from `py::arithmetic` |
| `Resources_proofs`, `Diagnostics_proofs` | TLAPS proofs | below |
| `MC_Resources`, `MC_Diagnostics` | TLC instances | report sets, crafted tuples |

Abstractions:

- Names, paths and plugin paths are members of small constant sets.
- A file name is reduced to what the code inspects: whether it is `"-"`, and
  the `FileExtension` of its suffix.
- The scalar options are parsed all at once when the process starts
  (`ParsedOptions`, applied in `Init`). Their callbacks only store values.
- The plugin options are parsed one at a time because their callbacks have
  effects. A load succeeds or fails nondeterministically.
- The boolean flags are a function `FlagNames -> BOOLEAN`.
- Debug configuration, pass pipelines and the bytecode-version parser only
  forward values and are left out.
- The builds of a process are sessions. They share `cli`, and each keeps its
  own record and step counter `pc`. Their steps interleave arbitrarily, which
  is what concurrent `buildToolConfig` calls in one process can do.

## Runs

| Run | cfg | Result | What it shows |
|---|---|---|---|
| precedence | `ToolConfig_precedence.cfg` | pass, 767,232 states | `TypeOK`; `OverlayPrecedence`: command line over environment over default for target, config path, verbosity and thread cap, and the CLI flags (at their defaults or all flipped); `PluginPathsRecorded`: each completed record lists the command line's pass plugins once, in order (stated as an increasing map from the list onto the pass options of `argv`, `ListsPassArgs`). Two sessions, plugin options interleaved with `registerCLOptions`, values `""`, `0`, `-1` and absent; also `OverlayInv`, the inductive invariant of the proof |
| resolution | `ToolConfig_resolution.cfg` | pass, 63,072 states | `IOResolution` and `BuildOutcome` for one build against every kind of file name, explicit/absent `-X` and `-emit`, `-emit-bytecode`, bad `QEC_VERBOSITY`/`QEC_MAX_THREADS` values (no digits, overflow, zero), and a pass and a dialect plugin option; `IOInv` and `PluginInv`, the inductive invariants behind the proofs of `IOResolution` and `PluginPathsRecorded` |
| stale_singleton | `ToolConfig_stale_singleton.cfg` | violation of `IOResolution` | finding 1 |
| env_thread_junk | `ToolConfig_env_thread_junk.cfg` | violation of `BuildOutcome` | finding 2 |
| pass_plugins_getter | `ToolConfig_pass_plugins_getter.cfg` | violation of `PassPluginsAccessor` | finding 3 |
| resources_stable | `Resources_stable.cfg` | pass, 111 states | `TypeOK`; `ResourcesStable`: once a root has been handed out, every later call and every target directory uses it, while `QEC_RESOURCES` is set, changed and unset between calls |
| resources_follow_env | `Resources_follow_env.cfg` | violation of `ResourcesFollowEnv` | finding 4 |
| diagnostics_report | `Diagnostics_report.cfg` | pass, 2,340 states | `TypeOK` (with a crafted int category, it shows that `__setstate__`'s cast rejects a wrongly typed field); `PickleRoundTrip` over held objects; up to 3 reports interleaved with `str()` and unpickling of held and crafted tuples (wrong length, an int category) |
| diagnostics_out_of_range | `Diagnostics_out_of_range.cfg` | violation of `NoUnreachable` | finding 5 |
Why these bounds are enough:

- Two sessions are enough for every interleaving of two builds on the
  singleton.
- The CLI flags are at their defaults or all flipped, so each flag differs
  from the record's default in some run of the precedence instance.
- Each overlay field gets an absent value, a present value and the edge value
  the callbacks filter (`""`, `0`, `-1`), so every branch of every overlay is
  taken.
- `UIntMax = 4` makes overflow (`lead = 5`) reachable.
- The resolution run covers every `FileExtension` class the tables tell
  apart.
- Sessions are symmetric, and the two-session runs use that symmetry.
- Resources: two environment values and the unset state let the variable
  change after the first call, both before and after a target directory.
- Diagnostics: `MaxReports = 3` covers calls with and without a callback in
  both orders; the crafted tuples cover each `__setstate__` branch.

No run checks a liveness property, and no fairness is assumed. A build is
straight-line code whose every step is enabled by its stage alone, so that
a started build finishes would follow from the shape of the model rather
than from the code.

Each property of a passing run has a mutant (`PROJECT.json` → `mutants`) that
TLC catches. For example, copying `maxThreads` without the `has_value()` test,
or recording a pass plugin only when it loads.

## Findings

1. **Stale singleton.** `computeInputType` and `computeOutputType`
   (`part_001` 478-520) store the detected kinds in `clOptionsConfig`. A second
   build in the same process finds them already set and never looks at its own
   file names.
2. **Trailing junk accepted.** `QEC_MAX_THREADS=2x` is accepted as 2, because
   `consumeInteger` parses a prefix (`EnvVarConfig.cpp` 58).
3. **Wrong accessor.** `getPassPlugins` returns `dialectPlugins`, and
   `setPassPlugins` writes it (`part_000` 188-192).
4. **Resources root frozen at first use.** `getResourcesDir` caches its
   answer in a static (`EnvVarConfig.cpp` 153); `_getResourcesDir` also keeps
   the first `QEC_RESOURCES` (142). A later change of the variable is never
   seen. The spec states the root without this first-call rule.
5. **`llvm_unreachable` from Python.** `__setstate__` casts the category
   without checking it is an enumerator (`lib_enums.cpp` 76), and the
   `py::arithmetic` enum accepts `ErrorCategory(99)`. `str()` of the unpickled
   `Diagnostic` then reaches `llvm_unreachable` in `getErrorCategoryAsString`
   (`part_001` 89).
## What is proved (TLAPS)

### `ToolConfig_proofs.tla`

Both theorems hold for every value of the constants: any set of sessions,
names, paths, plugins, any `UIntMax > 0`, and any choice sets allowed by the
`ASSUME`s. The assumptions are:

- `Unset` is no name, path, number or verbosity level (`std::nullopt` is not
  a value).
- The choice sets are well typed.
- Some input and output file names exist.

**`TypeCorrect`: `Spec => []TypeOK`.** The lemmas show that each operator
keeps its result in its type. They cover `EnvPopulated` (via one lemma per
`populate*_` step), `CliPopulated`, `ParsedOptions`, the computed kinds, and
one lemma per field write. `TypeInit` and `TypeStep` give one step per action.

**`OverlayInvCorrect`: `Spec => []OverlayInv`**, the invariant that the
`precedence` run checks, proved from `OverlayInit` and `OverlayStep`.

**`OverlayCorrect`: `Spec => []OverlayPrecedence`.** `OverlayPrecedence` is
not inductive: it says nothing about a session before it is done. The proof
uses `OverlayInv` (defined in `ToolConfig`, checked by the `precedence`
run), which adds:

- the singleton's scalar options stay as the callbacks set them
  (`CliScalarsFixed`): later steps write only the plugin lists and the two
  computed kinds;
- a session at the env stage holds the default record;
- a session at the cli stage holds the environment's values over the defaults
  (`AfterEnv`);
- every later session holds the full overlay (`AfterCli`).

Lemmas `EnvPopulatedAfterEnv` and `CliPopulatedAfterCli` carry the record
through the two builders. `OverlayFrame` says that `AfterEnv`/`AfterCli` look
only at five fields, at `env` and at `cliArgs`. The other steps preserve the
invariant because they write only other fields.

**`IOInvSingleBuild` and `IOResolutionSingleBuild`: `Spec => []IOInv` and
`Spec => []IOResolution` when `Sessions = {s0}`.** `IOResolution` is false
for two builds (finding 1: the second reads the singleton the first left
behind), so the theorems state the one-build case, which the `resolution` run
checks. `IOResolution` speaks only of finished builds; `IOInv` says, stage by
stage, what the singleton and the record hold: before the input stage the
singleton's input kind is the `-X` value, after it the kind computed from the
file name; the emit action is the `-emit` value until the output stage and the
computed one after it, with the warning; the record's copies follow one stage
later. `DetectedIsSpec` and `ComputedIsSpec` show that the model's
`getInputType`/`getEmitAction` steps compute the `Spec*` operators, and
`SpecFrame` that these depend only on `cliArgs`, `inFile` and `outFile`. For
this proof `OutputWarning` is written as the code's `if`/`else` chain
(`part_001` 497-517); a `CASE` with overlapping guards would be a
nondeterministic choice that the provers cannot evaluate.

**`BuildOutcomeSingleBuild`: `Spec => []BuildOutcome`**, for one build and
environments where characters follow only a `QEC_MAX_THREADS` value that
`consumeInteger` rejects anyway (`NoJunkAfterNumber`). The `resolution` run's
environments satisfy it. Outside it, finding 2 shows the property false: junk
after a good number is accepted. The invariant `OutcomeInv` follows the two
stages that can fail. A build past the environment stage did not fail it. A
build past the input stage has a kind for its file. A failed build failed one
of the two. TLC checked it on the `resolution` and `env_thread_junk`
instances: it is about what the code does, so it holds with junk too.
`EnvOutcome` is where the hypothesis is used: `EnvPopulateFails` equals
`EnvMalformed`. `InputOutcome` uses `IOInv` (the singleton still holds `-X`)
to show that `computeInputType` fails exactly when `SpecInputType` has no kind
for a named file.

### `ToolConfig_plugin_proofs.tla`

**`PluginPathsCorrect`: `Spec => []PluginPathsRecorded`**, for any number of
builds and any command line. It rests on **`PluginInvCorrect`: `Spec =>
[]PluginInv`**, which the `resolution` run checks. TLC also checked it on the
two-session `precedence` instance. `PluginInv` says:

- `args` is the unparsed suffix of `argv` (`ArgsUnparsed`);
- the singleton lists the pass plugins of the parsed prefix;
- no build starts before parsing ends;
- a record has no plugins before its cli stage, and after it has the
  complete list (`SessionPlugins`).

`ListsEmpty`, `ListsPass` and `ListsSkip` say how the list of a prefix grows
by one option. `ParseConsumes` shows that a parser step takes
`argv[Parsed + 1]`. `ListsFrame`, `ParserFrame`, `SessionFrame` and
`SessionAdvance` carry the rest through steps that do not touch it.

The property is stated without `SelectSeq`. `ListsPassArgs(ps, n)` asks for
an increasing map from the positions of `ps` onto the pass options among the
first `n` options, with matching paths. This says the same thing as "`ps` is
`argv` filtered on pass options, paths taken", and it needs no recursion.
Nothing can be proved about what `SelectSeq` returns for every input (see
below). `PassArgs`, the `SelectSeq` form, is kept for the
`pass_plugins_getter` run.

### `Resources_proofs.tla`

**`ResourcesStableCorrect`: `Spec => []ResourcesStable`**, for any sets of
environment values and resource paths, from `ResourcesAssumption`
(`Unset` is no value; the install prefix is set). `ResourcesStable` with
`TypeOK` is inductive. The key step (`StableStep`) is that a call when
`outerDir` is set answers `outerDir`, and that no target directory exists
while it is unset.

**`TypeCorrect`: `Spec => []TypeOK`**, from `TypeStep`.

### `Diagnostics_proofs.tla`

**`PickleRoundTripCorrect`: `Spec => []PickleRoundTrip`.** `RoundTrip` shows
`SetState(GetState(d)) = d` for every `d` of `PyDiagnostic`, out-of-range
enums included. It holds because `__setstate__` checks only the length and the
Python types. The invariant used is `HeldTyped` (`held \subseteq
PyDiagnostic`). `HeldStep` preserves it, using `SetStateTyped`: a successful
`__setstate__` of any well-typed tuple yields a `PyDiagnostic`.

**`TypeCorrect`: `Spec => []TypeOK`.** `TypeOK` is inductive. `TextTyped`
shows `toString` gives a text, `PrintableIsDiagnostic` that what a report
prints is a diagnostic; a report appends to the callback's log, kept a
sequence by `SequenceTheorems!AppendProperties`.

### What is not proved

What is not proved stays with TLC:

- `IOResolution` is proved for one build only: for two it is false
  (finding 1).
- `BuildOutcome` is proved for one build and for environments without junk
  after a good thread count. In general it is false (finding 2: trailing
  junk after the digits of `QEC_MAX_THREADS` is accepted).
- `PassArgs` goes through `SelectSeq`. What that returns for every input
  needs induction over the sequence. With tlapm 1.4.5 that takes
  `NaturalsInduction!NatInduction`, whose operator parameter only Isabelle
  can instantiate, and Isabelle is not installed. So `PluginPathsRecorded`
  is stated as an increasing index map, which is proved.
  That they agree with the `SelectSeq` form is not proved.
- Liveness and `ENABLED` are beyond TLAPS; the project states no liveness
  property (see the runs).
- Induction over data is out of reach: the library's induction rules take an
  operator parameter, which no installed prover can instantiate.
- A module that reaches a `RECURSIVE` operator loses the SMT backend.

## Not modelled, and why

- `setContextConfig`/`getContextConfig` (`part_000` 250-259): declared only,
  with no contract to translate.
- `TargetSystemInfo` (`part_000` 364-424): `createTarget` and `getTarget`
  are declared with their contracts, but their bodies, the store and its
  lock are not in the repository. A model would translate the spec, not the
  code, so none is kept.
- `TargetSystemRegistry` (`TargetSystemRegistry.h` 33-42) forwards to
  `llvm::PluginRegistry::registerPlugin`, which is not in the repository
  either; it has no state of its own.
- The `CLIConfigBuilder` constructor (`part_001` 532-535): it only copies the
  mlir debug configuration into the singleton. A program that constructs a
  builder before `registerCLOptions` and then parses a dialect-plugin option
  would have the option without its callback; no code in the repository
  does so, and the model does not include that order.
- The version-string getters (`EnvVarConfig.cpp` 125-136): constants, no
  state.
- `SchedulePortModulePass`: declaration only.
- The CMake functions and the lit test input: no runtime behaviour.
- `CLIConfig.h` 23-46: declarations whose bodies are modelled at their
  definitions in `part_001`.

## Plan

1. **Done:** `QEConfig`, `EnvVarConfig`, `CLIConfig`, `ToolConfig`,
   `Resources`, `Diagnostics`, with their proofs.
2. **Done:** the proofs of `IOResolution` and `BuildOutcome` for a single
   build, and of `PluginPathsRecorded` for any number of builds.
3. A property relating two builds that both give `-X` and `-emit`: the
   stale singleton (finding 1) cannot reach them.
