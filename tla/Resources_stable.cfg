\* QEC_RESOURCES set, changed and unset between calls of getResourcesDir
\* and getTargetResourcesDir.
CONSTANTS
    Unset = Unset
    EnvValues = {"r1", "r2"}
    InstallPrefix = "prefix"
    ResourcePaths = {"t1", "t2"}
SPECIFICATION Spec
INVARIANT TypeOK
INVARIANT ResourcesStable
