\* Two sessions build configurations from environments and command lines
\* that give, or do not give, each overlay field. OverlayInv is the
\* strengthened invariant behind the proof of OverlayPrecedence.
CONSTANTS
    Unset = Unset
    Sessions = {s1, s2}
    TargetNames = {"", "t1", "t2"}
    ConfigPaths = {"", "c1", "c2"}
    PluginPaths = {"p1", "p2"}
    FlagNames = {"addTargetPasses", "showConfig"}
    VerbosityTokens = {"DEBUG"}
    UIntMax = 4
    EnvChoices <- EnvPrecedence
    CliArgChoices <- CliPrecedence
    PluginArgChoices <- ArgsPrecedence
    InputFiles <- FilesPrecedenceIn
    OutputFiles <- FilesPrecedenceOut
SPECIFICATION Spec
SYMMETRY SessionSymmetry
INVARIANT TypeOK
INVARIANT OverlayPrecedence
INVARIANT PluginPathsRecorded
INVARIANT OverlayInv
