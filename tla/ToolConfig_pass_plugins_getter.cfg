\* A command line with a pass plugin and a dialect plugin: getPassPlugins must report the pass plugin.
CONSTANTS
    Unset = Unset
    Sessions = {s1}
    TargetNames = {""}
    ConfigPaths = {""}
    PluginPaths = {"p1", "p2"}
    FlagNames = {"addTargetPasses"}
    VerbosityTokens = {"ERROR"}
    UIntMax = 4
    EnvChoices <- EnvClean
    CliArgChoices <- CliPlain
    PluginArgChoices <- ArgsBoth
    InputFiles <- FilesIn
    OutputFiles <- FilesOut
SPECIFICATION Spec
INVARIANT PassPluginsAccessor
