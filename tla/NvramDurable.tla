---------------------------- MODULE NvramDurable ----------------------------
(***************************************************************************)
(* What /dev/nvram promises its users about power loss: the settings in    *)
(* memory can be changed at will, a commit makes them permanent, and the   *)
(* system comes back from any reboot with the last settings whose commit   *)
(* was acknowledged or with ones whose commit was started after that.      *)
(* Nothing is ever mixed, invented or lost.  Flash does not appear here;   *)
(* NvramFlash is shown to implement this with two partitions.              *)
(***************************************************************************)
CONSTANTS
    Contents,   \* whole sets of settings
    Off         \* not a set of settings: the device is not up

VARIABLES
    mem,        \* what nvram_get answers from, Off while the system is down
    committed,  \* the settings of the last acknowledged commit
    attempted   \* the settings of commits begun since, not acknowledged

vars == <<mem, committed, attempted>>

Init ==
    /\ mem = Off
    /\ committed \in Contents
    /\ attempted = {}

Change ==
    /\ mem # Off
    /\ mem' \in Contents
    /\ UNCHANGED <<committed, attempted>>

Begin ==
    /\ mem # Off
    /\ attempted' = attempted \cup {mem}
    /\ UNCHANGED <<mem, committed>>

Acknowledge ==
    /\ mem \in attempted
    /\ committed' = mem
    /\ attempted' = {}
    /\ UNCHANGED mem

GoDown ==
    /\ mem' = Off
    /\ UNCHANGED <<committed, attempted>>

ComeUp ==
    /\ mem = Off
    /\ mem' \in {committed} \cup attempted
    /\ UNCHANGED <<committed, attempted>>

Next == Change \/ Begin \/ Acknowledge \/ GoDown \/ ComeUp

Spec == Init /\ [][Next]_vars

=============================================================================
