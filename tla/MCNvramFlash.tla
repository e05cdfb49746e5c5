---------------------------- MODULE MCNvramFlash ----------------------------
(* NvramFlash for TLC: three sets of settings, so that two unacknowledged  *)
(* attempts can follow an acknowledged one.                                *)
EXTENDS NvramFlash
=============================================================================
