---------------------------- MODULE MCNvramStore ----------------------------
(***************************************************************************)
(* NvramStore for TLC: three variables in two buckets, two of them         *)
(* colliding, and a short and a long value.  The header is scaled down to  *)
(* one byte; NVRAM_SPACE decides whether everything fits.                  *)
(***************************************************************************)
EXTENDS NvramStore

CONSTANTS n1, n2, n3, short, long

MCNameLen == [n \in Names |-> 1]
MCValLen == [v \in Values |-> IF v = long THEN 2 ELSE 1]
MCBucketOf == [n \in Names |-> IF n = n3 THEN 2 ELSE 1]
=============================================================================
