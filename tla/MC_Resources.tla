---------------------------- MODULE MC_Resources ----------------------------
(***************************************************************************)
(* Instance of Resources for TLC: two values of QEC_RESOURCES, the install *)
(* prefix and two targets asking for their directories.                   *)
(***************************************************************************)
EXTENDS Resources, TLC

=============================================================================
