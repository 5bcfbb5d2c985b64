---------------------------- MODULE MC_ToolConfig ----------------------------
(***************************************************************************)
(* Small instances of ToolConfig for TLC.  Each run picks, through its     *)
(* .cfg, the environments, command lines and file names that make the case *)
(* it is about happen, and leaves the other inputs at one value.           *)
(***************************************************************************)
EXTENDS ToolConfig, TLC

\* A thread-cap token: its numeric prefix and whether more characters follow.
Tok(n, j) == [lead |-> n, junk |-> j]

\* Environments with every variable absent, then with the listed values.
EnvOf(targets, paths, levels, threads) ==
    [QEC_TARGET_CONFIG_PATH : paths, QEC_TARGET_NAME : targets,
     QEC_VERBOSITY : levels, QEC_MAX_THREADS : threads]

\* Command lines built from the listed option values.
CliOf(targets, configs, levels, threads, xs, emits, bcs, fls) ==
    [target : targets, config : configs, verbosity : levels,
     maxThreads : threads, X : xs, emit : emits, emitBytecode : bcs,
     flags : fls]

\* The flags at their defaults, or each one flipped on the command line.
FlagsFlipped == {FlagDefault, [f \in FlagNames |-> ~FlagDefault[f]]}

P(k, p) == [kind |-> k, path |-> p]

\* Precedence: every overlay field present or absent in each stage.
EnvPrecedence ==
    EnvOf({Unset, "", "t1"}, {Unset, "c1"}, {Unset, "DEBUG"},
          {Unset, Tok(2, FALSE)})
CliPrecedence ==
    CliOf({Unset, "", "t2"}, {Unset, "", "c2"}, {VerbosityCnt, "Error"},
          {-1, 0, 3}, {"Undetected"}, {"Undetected"}, {FALSE},
          FlagsFlipped)
ArgsPrecedence ==
    {<< >>, << P("pass", "p1"), P("dialect", "p2"), P("pass", "p2") >>}

FilesPrecedenceIn == {FileWith("QASM")}
FilesPrecedenceOut == {Dash}

\* Resolution: explicit and absent -X and -emit against every kind of file.
EnvResolution ==
    EnvOf({Unset}, {Unset}, {Unset, "ERROR", "LOUD"},
          {Unset, Tok(0, FALSE), Tok(NoDigits, TRUE), Tok(UIntMax + 1, FALSE)})
EnvClean == EnvOf({Unset}, {Unset}, {Unset}, {Unset})
EnvJunkThreads == EnvOf({Unset}, {Unset}, {Unset}, {Tok(2, TRUE)})
CliResolution ==
    CliOf({Unset}, {Unset}, {VerbosityCnt}, {-1},
          {"Undetected", "QASM"}, {"Undetected", "MLIR", "QEM"}, BOOLEAN,
          {FlagDefault})
CliPlain ==
    CliOf({Unset}, {Unset}, {VerbosityCnt}, {-1},
          {"Undetected"}, {"Undetected"}, {FALSE}, {FlagDefault})
FilesIn == {Dash, FileWith("QASM"), FileWith("MLIR"), FileWith("Bytecode"),
            FileWith("None"), FileWith("QEM")}
FilesOut == {Dash, FileWith("MLIR"), FileWith("QEM"), FileWith("None"),
             FileWith("QASM")}
ArgsNone == {<< >>}
ArgsBoth == {<< P("pass", "p1"), P("dialect", "p2") >>}


\* The two-session runs are symmetric in the sessions.
SessionSymmetry == Permutations(Sessions)

=============================================================================
