\* QEC_MAX_THREADS holds a number followed by other characters: the build must fail.
CONSTANTS
    Unset = Unset
    Sessions = {s1}
    TargetNames = {""}
    ConfigPaths = {""}
    PluginPaths = {"p1", "p2"}
    FlagNames = {"addTargetPasses"}
    VerbosityTokens = {"ERROR"}
    UIntMax = 4
    EnvChoices <- EnvJunkThreads
    CliArgChoices <- CliPlain
    PluginArgChoices <- ArgsNone
    InputFiles <- FilesIn
    OutputFiles <- FilesOut
SPECIFICATION Spec
INVARIANT BuildOutcome
