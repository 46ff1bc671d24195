------------------------ MODULE MCCoroutineScheduler ------------------------
(***************************************************************************)
(* Instance of GuidCoroutines for TLC: two seconds and two sequence        *)
(* numbers make four ids; three routines at a time are enough for one to   *)
(* run, one to wait and one to be created or destroyed meanwhile.          *)
(***************************************************************************)
EXTENDS GuidCoroutines
=============================================================================
