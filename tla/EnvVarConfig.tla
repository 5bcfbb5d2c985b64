---------------------------- MODULE EnvVarConfig ----------------------------
(***************************************************************************)
(* EnvVarConfigBuilder (src/lib/Config/EnvVarConfig.cpp 26-88): the       *)
(* environment stage of the configuration.  It reads four variables and   *)
(* writes the fields they name; the first malformed value ends the stage   *)
(* with an error, after the stages before it have already written the     *)
(* record.                                                                 *)
(*                                                                         *)
(* QEC_MAX_THREADS is parsed with StringRef::consumeInteger<unsigned>,     *)
(* which reads the longest numeric prefix and leaves the rest of the       *)
(* string alone.  A token is abstracted to that prefix (lead, NoDigits if  *)
(* the string does not start with a digit) and whether characters follow  *)
(* it (junk).  unsigned int is UIntMax wide.                               *)
(***************************************************************************)
EXTENDS QEConfig, Integers

CONSTANTS
    VerbosityTokens,  \* strings QEC_VERBOSITY can hold
    UIntMax           \* the largest unsigned int

ASSUME EnvAssumption ==
    /\ UIntMax \in Nat \ {0}
    /\ Unset \notin VerbosityTokens

NoDigits == -1

\* What the value of QEC_MAX_THREADS looks like to consumeInteger.
ThreadToken == [lead : (0 .. UIntMax + 1) \cup {NoDigits}, junk : BOOLEAN]

\* The process environment: each variable absent (Unset) or a value.
Env == [QEC_TARGET_CONFIG_PATH : OptPath, QEC_TARGET_NAME : OptName,
        QEC_VERBOSITY : VerbosityTokens \cup {Unset},
        QEC_MAX_THREADS : ThreadToken \cup {Unset}]

\* The tokens populateVerbosity_ accepts, and the level each one sets.
VerbosityOfToken == [ERROR |-> "Error", WARN |-> "Warn",
                     INFO |-> "Info", DEBUG |-> "Debug"]

\* consumeInteger<unsigned int>(0, ...) fails when no digit leads the string
\* or the number does not fit; trailing characters are not looked at.
ConsumeIntegerFails(tok) == tok.lead = NoDigits \/ tok.lead > UIntMax

\* populateVerbosity_ returns an error.
VerbosityFails(e) ==
    e.QEC_VERBOSITY # Unset /\ e.QEC_VERBOSITY \notin DOMAIN VerbosityOfToken

\* populateMaxThreads_ returns an error.
MaxThreadsFails(e) ==
    e.QEC_MAX_THREADS # Unset /\ ConsumeIntegerFails(e.QEC_MAX_THREADS)

\* EnvVarConfigBuilder::populateConfig fails: one of its steps failed.
EnvPopulateFails(e) == VerbosityFails(e) \/ MaxThreadsFails(e)

\* populateConfigurationPath_ and populateTarget_ (lines 42-52).
PopulateConfigurationPath(c, e) ==
    IF e.QEC_TARGET_CONFIG_PATH = Unset THEN c
    ELSE [c EXCEPT !.targetConfigPath = e.QEC_TARGET_CONFIG_PATH]
PopulateTarget(c, e) ==
    IF e.QEC_TARGET_NAME = Unset THEN c
    ELSE [c EXCEPT !.targetName = e.QEC_TARGET_NAME]

\* populateVerbosity_ and populateMaxThreads_ when they succeed (54-88).
PopulateVerbosity(c, e) ==
    IF e.QEC_VERBOSITY = Unset THEN c
    ELSE [c EXCEPT !.verbosityLevel = VerbosityOfToken[e.QEC_VERBOSITY]]
PopulateMaxThreads(c, e) ==
    IF e.QEC_MAX_THREADS = Unset THEN c
    ELSE [c EXCEPT !.maxThreads = e.QEC_MAX_THREADS.lead]

\* The record populateConfig leaves behind (lines 26-40): every step runs in
\* order until one fails; the writes of the steps before it stay.
EnvPopulated(c, e) ==
    LET c2 == PopulateTarget(PopulateConfigurationPath(c, e), e)
        c3 == PopulateVerbosity(c2, e)
    IN  IF VerbosityFails(e) THEN c2
        ELSE IF MaxThreadsFails(e) THEN c3
        ELSE PopulateMaxThreads(c3, e)

=============================================================================
