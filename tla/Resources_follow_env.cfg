\* The spec's layout rule, checked against a process that changes
\* QEC_RESOURCES after the first call.
CONSTANTS
    Unset = Unset
    EnvValues = {"r1", "r2"}
    InstallPrefix = "prefix"
    ResourcePaths = {"t1"}
SPECIFICATION Spec
INVARIANT ResourcesFollowEnv
