----------------------------- MODULE Resources -----------------------------
(***************************************************************************)
(* The resources directory of the compiler (QEC.cpp, concatenated into     *)
(* src/lib/Config/EnvVarConfig.cpp 110-165).                               *)
(*                                                                         *)
(* getResourcesDir keeps its answer in a function-local static that is     *)
(* initialised by the first call; that initialiser, _getResourcesDir,      *)
(* copies QEC_RESOURCES into a second function-local static when the       *)
(* variable is set and otherwise answers the compiled-in install prefix.   *)
(* C++ initialises a function-local static once, and a thread that reaches *)
(* it during the initialisation waits, so each call is one step here.      *)
(* The process, or the host that embeds the library, may change            *)
(* QEC_RESOURCES between calls (setenv/unsetenv).                          *)
(***************************************************************************)
EXTENDS FiniteSets

CONSTANTS
    Unset,          \* QEC_RESOURCES absent / a static not yet initialised
    EnvValues,      \* values QEC_RESOURCES can be set to
    InstallPrefix,  \* QEC_RESOURCES_INSTALL_PREFIX
    ResourcePaths   \* Target::getResourcePath() of the targets asking

ASSUME ResourcesAssumption ==
    /\ Unset \notin EnvValues
    /\ InstallPrefix # Unset

VARIABLES
    qecResources,  \* the environment variable QEC_RESOURCES
    innerDir,      \* the static std::string resourcesDir of _getResourcesDir
    outerDir,      \* the static StringRef resourcesDir of getResourcesDir
    lastCall,      \* the last answer and the environment it was given under
    targetDirs     \* the paths getTargetResourcesDir has returned

vars == <<qecResources, innerDir, outerDir, lastCall, targetDirs>>

Dir == EnvValues \cup {InstallPrefix}

TypeOK ==
    /\ qecResources \in EnvValues \cup {Unset}
    /\ innerDir \in EnvValues \cup {Unset}
    /\ outerDir \in Dir \cup {Unset}
    /\ lastCall \in [root : Dir \cup {Unset}, env : EnvValues \cup {Unset}]
    /\ targetDirs \subseteq Dir \X {"targets"} \X ResourcePaths

Init ==
    /\ qecResources \in EnvValues \cup {Unset}
    /\ innerDir = Unset
    /\ outerDir = Unset
    /\ lastCall = [root |-> Unset, env |-> Unset]
    /\ targetDirs = {}

\* _getResourcesDir (lines 139-148): the answer, and the inner static after
\* the call (initialised only the first time the set branch is reached).
InnerDir(env, inner) ==
    IF env = Unset THEN InstallPrefix
    ELSE IF inner = Unset THEN env ELSE inner
\* Mutant: the static is hoisted out of the if, so it also caches the
\* install prefix.
InnerAfterCachesFallback(env, inner) ==
    IF inner = Unset THEN InnerDir(env, inner) ELSE inner
InnerAfter(env, inner) ==
    IF env # Unset /\ inner = Unset THEN env ELSE inner

\* Mutant: the answer is recomputed on every call (no outer static).
ResourcesDirNoOuter == InnerDir(qecResources, innerDir)

\* getResourcesDir (lines 152-155): the outer static, or its initialiser.
ResourcesDir ==
    IF outerDir # Unset THEN outerDir ELSE InnerDir(qecResources, innerDir)

\* The state a call of getResourcesDir leaves behind.
CallResourcesDir ==
    /\ outerDir' = ResourcesDir
    /\ innerDir' = IF outerDir = Unset THEN InnerAfter(qecResources, innerDir)
                   ELSE innerDir
    /\ lastCall' = [root |-> ResourcesDir, env |-> qecResources]

GetResourcesDir ==
    /\ CallResourcesDir
    /\ UNCHANGED <<qecResources, targetDirs>>

\* getTargetResourcesDir (lines 157-165): <root>/targets/<resource path>.
GetTargetResourcesDir(rp) ==
    /\ CallResourcesDir
    /\ targetDirs' = targetDirs \cup {<<ResourcesDir, "targets", rp>>}
    /\ UNCHANGED qecResources

\* setenv/unsetenv of QEC_RESOURCES by the process or its host.
SetEnv(v) ==
    /\ qecResources' = v
    /\ UNCHANGED <<innerDir, outerDir, lastCall, targetDirs>>

Next ==
    \/ GetResourcesDir
    \/ \E rp \in ResourcePaths : GetTargetResourcesDir(rp)
    \/ \E v \in EnvValues \cup {Unset} : SetEnv(v)

Spec == Init /\ [][Next]_vars

(***************************************************************************)
(* Properties.                                                             *)
(***************************************************************************)

\* The two statics of getResourcesDir/_getResourcesDir: once a resources
\* directory has been handed out, every later call of getResourcesDir and
\* every target directory answers that same root, whatever happens to
\* QEC_RESOURCES in between (otherwise files of one compilation would be
\* looked up under two roots).
ResourcesStable ==
    /\ lastCall.root # Unset => outerDir = lastCall.root
    /\ \A d \in targetDirs : d[1] = outerDir

\* The resource-directory layout of the spec: the root is the environment
\* override when one is set, else the install prefix, for every call.
ResourcesFollowEnv ==
    lastCall.root # Unset =>
        lastCall.root = IF lastCall.env # Unset THEN lastCall.env
                        ELSE InstallPrefix

=============================================================================
