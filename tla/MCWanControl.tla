---------------------------- MODULE MCWanControl ----------------------------
EXTENDS WanControl, TLC

CONSTANTS ifup1, ifup2

OneBackup == (0 :> "alwayson") @@ (1 :> "backup")
FirstToSecond == (0 :> 1) @@ (1 :> None)

OneRequest == {[requests |-> 1, faults |-> 0]}

TwoFaultsOrRequest == {[requests |-> 0, faults |-> 2], [requests |-> 1, faults |-> 0]}
=============================================================================
