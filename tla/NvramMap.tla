------------------------------ MODULE NvramMap ------------------------------
(***************************************************************************)
(* What the NVRAM variables are to those who use nvram_get, nvram_set,     *)
(* nvram_unset and nvram_commit: a map from names to values, and the map   *)
(* that the last commit made permanent.                                    *)
(***************************************************************************)
CONSTANTS Names, Values, Undefined

VARIABLES
    map,    \* map[n]: the value of n, or Undefined
    saved   \* the map a reboot brings back

vars == <<map, saved>>

Init ==
    /\ map = [n \in Names |-> Undefined]
    /\ saved = map

Set(n, v) == map' = [map EXCEPT ![n] = v] /\ UNCHANGED saved

Unset(n) == map' = [map EXCEPT ![n] = Undefined] /\ UNCHANGED saved

Commit == saved' = map /\ UNCHANGED map

Reboot == map' = saved /\ UNCHANGED saved

Next ==
    \/ \E n \in Names : Unset(n) \/ \E v \in Values : Set(n, v)
    \/ Commit
    \/ Reboot

Spec == Init /\ [][Next]_vars

=============================================================================
