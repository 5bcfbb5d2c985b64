\* Two builds in one process, no -X and no -emit: the second build must take its kinds from its own file names.
CONSTANTS
    Unset = Unset
    Sessions = {s1, s2}
    TargetNames = {""}
    ConfigPaths = {""}
    PluginPaths = {"p1", "p2"}
    FlagNames = {"addTargetPasses"}
    VerbosityTokens = {"ERROR"}
    UIntMax = 4
    EnvChoices <- EnvClean
    CliArgChoices <- CliPlain
    PluginArgChoices <- ArgsNone
    InputFiles <- FilesIn
    OutputFiles <- FilesOut
SPECIFICATION Spec
INVARIANT IOResolution
