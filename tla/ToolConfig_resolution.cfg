\* One session resolves its input kind and emit action, explicit or from
\* every kind of file name, under environments that are well formed or not.
CONSTANTS
    Unset = Unset
    Sessions = {s1}
    TargetNames = {""}
    ConfigPaths = {""}
    PluginPaths = {"p1", "p2"}
    FlagNames = {"addTargetPasses"}
    VerbosityTokens = {"ERROR", "LOUD"}
    UIntMax = 4
    EnvChoices <- EnvResolution
    CliArgChoices <- CliResolution
    PluginArgChoices <- ArgsBoth
    InputFiles <- FilesIn
    OutputFiles <- FilesOut
SPECIFICATION Spec
INVARIANT IOResolution
INVARIANT BuildOutcome
INVARIANT IOInv
INVARIANT PluginInv
