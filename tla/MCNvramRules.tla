---------------------------- MODULE MCNvramRules ----------------------------
(* NvramRules for TLC: two processes and a set of two rules, each with its *)
(* position, which is never changed, and a state.                          *)
EXTENDS NvramRules

CONSTANTS proc1, proc2

Rule(n, v) == [pos |-> n, state |-> v]

MCRules == [pos : {1, 2, 9}, state : {0, 1}]

\* a rule that was not there before; also what the stack may hold
SomeRule == Rule(9, 1)

TwoRules == <<Rule(1, 0), Rule(2, 0)>>

AttrCalls(positions, vals) ==
    [op : {"attr"}, nth : positions, rule : {NoCall}, attr : {"state"}, val : vals]

\* Every function, with positions in and out of the range of the set, while
\* the second process adds and deletes in front.
SomeCalls ==
    (proc1 :> [op : {"replace", "prepend", "append"}, nth : {0}, rule : {SomeRule}]
              \cup [op : {"add"}, nth : {2}, rule : {SomeRule}]
              \cup [op : {"delete"}, nth : {1}, rule : {NoCall}]
              \cup AttrCalls({1}, {1}) @@
     proc2 :> [op : {"add", "delete"}, nth : {0}, rule : {SomeRule}])

=============================================================================
