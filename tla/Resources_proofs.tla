------------------------- MODULE Resources_proofs -------------------------
(***************************************************************************)
(* Proofs about the resources-directory cache, for every set of            *)
(* environment values, install prefix and resource paths.                  *)
(***************************************************************************)
EXTENDS Resources, TLAPS

\* Every step keeps the state in its type.
LEMMA TypeStep == TypeOK /\ [Next]_vars => TypeOK'
<1> SUFFICES ASSUME TypeOK, [Next]_vars PROVE TypeOK'
    OBVIOUS
<1>1. ResourcesDir \in Dir
    BY ResourcesAssumption DEF TypeOK, ResourcesDir, InnerDir, Dir
<1>2. InnerAfter(qecResources, innerDir) \in EnvValues \cup {Unset}
    BY DEF TypeOK, InnerAfter
<1>3. CASE GetResourcesDir
    BY <1>1, <1>2, <1>3 DEF GetResourcesDir, CallResourcesDir, TypeOK
<1>4. CASE \E rp \in ResourcePaths : GetTargetResourcesDir(rp)
    BY <1>1, <1>2, <1>4 DEF GetTargetResourcesDir, CallResourcesDir, TypeOK
<1>5. CASE \E v \in EnvValues \cup {Unset} : SetEnv(v)
    BY <1>5 DEF SetEnv, TypeOK
<1>6. CASE UNCHANGED vars
    BY <1>6 DEF vars, TypeOK
<1> QED BY <1>3, <1>4, <1>5, <1>6 DEF Next

\* The cache invariant, with the type it needs, is inductive: a first call
\* finds no target directory handed out (their roots are directories, and
\* no directory is Unset), and every later call answers the outer static.
LEMMA StableStep ==
    TypeOK /\ ResourcesStable /\ [Next]_vars => ResourcesStable'
<1> SUFFICES ASSUME TypeOK, ResourcesStable, [Next]_vars
             PROVE ResourcesStable'
    OBVIOUS
<1>1. outerDir = Unset => targetDirs = {}
    BY ResourcesAssumption DEF TypeOK, ResourcesStable, Dir
<1>2. outerDir # Unset => ResourcesDir = outerDir
    BY DEF ResourcesDir
<1>3. ASSUME CallResourcesDir,
             targetDirs' \subseteq targetDirs \cup {<<ResourcesDir, "targets", rp>> : rp \in ResourcePaths}
      PROVE ResourcesStable'
    BY <1>1, <1>2, <1>3 DEF CallResourcesDir, ResourcesStable
<1>4. CASE GetResourcesDir
    BY <1>3, <1>4 DEF GetResourcesDir
<1>5. CASE \E rp \in ResourcePaths : GetTargetResourcesDir(rp)
    BY <1>3, <1>5 DEF GetTargetResourcesDir
<1>6. CASE \E v \in EnvValues \cup {Unset} : SetEnv(v)
    BY <1>6 DEF SetEnv, ResourcesStable
<1>7. CASE UNCHANGED vars
    BY <1>7 DEF vars, ResourcesStable
<1> QED BY <1>4, <1>5, <1>6, <1>7 DEF Next

\* getResourcesDir answers one root for the whole life of the process: the
\* invariant the resources_stable run checks, for every instance.
THEOREM ResourcesStableCorrect == Spec => []ResourcesStable
<1>1. Init => TypeOK /\ ResourcesStable
    BY DEF Init, TypeOK, ResourcesStable
<1>2. TypeOK /\ ResourcesStable /\ [Next]_vars => (TypeOK /\ ResourcesStable)'
    BY TypeStep, StableStep
<1> QED BY <1>1, <1>2, PTL DEF Spec

\* Every state the two statics, the environment and the answers reach is
\* well typed: the inner static only ever holds a value of QEC_RESOURCES and
\* the outer one a value of QEC_RESOURCES or the install prefix.
THEOREM TypeCorrect == Spec => []TypeOK
<1>1. Init => TypeOK
    BY DEF Init, TypeOK
<1> QED BY <1>1, TypeStep, PTL DEF Spec
============================================================================
