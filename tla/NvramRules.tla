----------------------------- MODULE NvramRules -----------------------------
(***************************************************************************)
(* Rule sets: an NVRAM variable that holds a list of rules separated by    *)
(* "|", and the functions of ezp-lib.c that change one rule of it.  None   *)
(* of them works in place: ezplib_op_rule counts the rules, fetches them   *)
(* one by one - each time from the variable, which any other process may   *)
(* have changed meanwhile - into a buffer on the stack and writes that     *)
(* back.  One action is one access to the variable.                        *)
(*                                                                         *)
(* A rule set is the sequence of its rules, a rule a function from its     *)
(* attributes to their values.  Rules are not empty and all of length      *)
(* RuleLen; every attribute is in the table of its rule set.  The variable *)
(* exists (nvram boot creates all of them), and its address stays good     *)
(* while it is copied (NvramStore, PointerStable).                         *)
(***************************************************************************)
EXTENDS Integers, Sequences, SequencesExt

CONSTANTS
    Procs,
    Rules,          \* what a rule may be
    Initial,        \* the rules at the start
    Calls,          \* Calls[p]: what process p may call
    RuleLen,        \* strlen of a rule
    EZPLIB_BUF_LEN,
    Junk,           \* whatever the stack held
    NoCall

\* strlen of the variable that holds rule set s
StrLen(s) == IF s = <<>> THEN 0 ELSE Len(s) * (RuleLen + 1) - 1

\* A rule fits into the buffers; a change of an attribute makes a rule; prepend
\* has no position of its own.
ASSUME RulesAssumption ==
    /\ RuleLen \in Nat /\ EZPLIB_BUF_LEN \in Nat /\ RuleLen < EZPLIB_BUF_LEN
    /\ Initial \in Seq(Rules) /\ StrLen(Initial) < EZPLIB_BUF_LEN
    /\ Junk \in Rules
    /\ NoCall \notin Seq(Rules)
    /\ \A p \in Procs : \A c \in Calls[p] :
         /\ c.op \in {"attr", "replace", "add", "delete", "prepend", "append"}
         /\ c.nth \in Nat /\ (c.op = "prepend" => c.nth = 0)
         /\ c.op \in {"replace", "add", "prepend", "append"} => c.rule \in Rules
         /\ c.op = "attr" => \A rule \in Rules : [rule EXCEPT ![c.attr] = c.val] \in Rules

VARIABLES
    rules,  \* the variable
    pc,     \* pc[p]: the next access of p
    call,   \* call[p]: what p is doing
    num,    \* num[p]: rule_num of ezplib_op_rule
    i,      \* i[p]: its loop index
    new,    \* new[p]: new_rule
    nth,    \* nth[p]: the position still to be handled, -1 when done
    buf,    \* buf[p]: the rules copied so far
    start   \* start[p]: (history) the rules when the call began, or NoCall
            \* when another process has written the variable since

vars == <<rules, pc, call, new, num, i, nth, buf, start>>

Init ==
    /\ rules = Initial
    /\ pc = [p \in Procs |-> "idle"]
    /\ call = [p \in Procs |-> NoCall]
    /\ new = [p \in Procs |-> NoCall]
    /\ num = [p \in Procs |-> 0]
    /\ i = [p \in Procs |-> 0]
    /\ nth = [p \in Procs |-> 0]
    /\ buf = [p \in Procs |-> <<>>]
    /\ start = [p \in Procs |-> NoCall]

\* what p had on its stack is gone
Return(p) ==
    /\ pc' = [pc EXCEPT ![p] = "idle"]
    /\ new' = [new EXCEPT ![p] = NoCall]
    /\ num' = [num EXCEPT ![p] = 0] /\ i' = [i EXCEPT ![p] = 0] /\ nth' = [nth EXCEPT ![p] = 0]
    /\ buf' = [buf EXCEPT ![p] = <<>>]
    /\ call' = [call EXCEPT ![p] = NoCall]

\* ... without having written
GiveUp(p) ==
    /\ Return(p)
    /\ start' = [start EXCEPT ![p] = NoCall]

Goto(p, label) == pc' = [pc EXCEPT ![p] = label]

\* ezplib_replace_attr, _replace_rule, _add_rule, _delete_rule, _prepend_rule,
\* _append_rule
Call(p, c) ==
    /\ pc[p] = "idle"
    /\ call' = [call EXCEPT ![p] = c]
    /\ Goto(p, CASE c.op = "attr" -> "attr"
                 [] c.op \in {"replace", "add"} -> "check"
                 [] c.op \in {"delete", "prepend"} -> "count"
                 [] c.op = "append" -> "append")
    /\ new' = [new EXCEPT ![p] = c.rule]
    /\ nth' = [nth EXCEPT ![p] = c.nth]
    /\ start' = [start EXCEPT ![p] = rules]
    /\ UNCHANGED <<rules, num, i, buf>>

\* ezplib_get_rule of rule n
Gettable(n) == n < Len(rules) /\ StrLen(rules) < EZPLIB_BUF_LEN

\* ezplib_replace_attr: the rule with one attribute changed replaces it; or an
\* error is returned.
Attr(p) ==
    /\ pc[p] = "attr"
    /\ Gettable(nth[p])
    /\ new' = [new EXCEPT ![p] = [rules[nth[p] + 1] EXCEPT ![call[p].attr] = call[p].val]]
    /\ Goto(p, "check")
    /\ UNCHANGED <<rules, call, num, i, nth, buf, start>>

AttrFails(p) ==
    /\ pc[p] = "attr"
    /\ ~Gettable(nth[p])
    /\ GiveUp(p)
    /\ UNCHANGED rules

\* ezplib_get_rule_num in replace_rule and add_rule: the range of nth, and an
\* addition behind the last rule is an append.
Check(p) ==
    /\ pc[p] = "check"
    /\ IF nth[p] > Len(rules)
       THEN GiveUp(p)
       ELSE /\ Goto(p, IF call[p].op = "add" /\ nth[p] = Len(rules) THEN "append" ELSE "count")
            /\ UNCHANGED <<call, new, num, i, nth, buf, start>>
    /\ UNCHANGED rules

\* ezplib_op_rule: ezplib_get_rule_num
Count(p) ==
    /\ pc[p] = "count"
    /\ num' = [num EXCEPT ![p] = Len(rules)]
    /\ Goto(p, IF Len(rules) = 0 THEN "write" ELSE "fetch")
    /\ UNCHANGED <<rules, call, new, i, nth, buf, start>>

\* what one round of the loop prints into the buffer
Printed(p) ==
    IF i[p] # nth[p] THEN <<rules[i[p] + 1]>>
    ELSE IF call[p].op = "delete" THEN <<>>
    ELSE <<new[p]>>

\* each rule is printed with a separator behind it and a NUL
FitsBuf(s) == Len(s) * (RuleLen + 1) < EZPLIB_BUF_LEN

\* A mistake the checks must find: an added rule replaces the fetched one.
FetchNoStepBack(p) ==
    LET copied == buf[p] \o Printed(p)
        adds   == call[p].op \in {"add", "prepend"} /\ i[p] = nth[p]
        next   == i[p] + 1
    IN  /\ pc[p] = "fetch"
        /\ Gettable(i[p])
        /\ FitsBuf(copied)
        /\ buf' = [buf EXCEPT ![p] = copied]
        /\ i' = [i EXCEPT ![p] = next]
        /\ nth' = [nth EXCEPT ![p] = IF adds THEN -1 ELSE @]
        /\ Goto(p, IF next = num[p] THEN "write" ELSE "fetch")
        /\ UNCHANGED <<rules, call, new, num, start>>

\* A mistake the checks must find: a deleted rule is fetched again.
FetchDeletedAgain(p) ==
    LET copied == buf[p] \o Printed(p)
        adds   == call[p].op \in {"add", "prepend"} /\ i[p] = nth[p]
        next   == IF adds \/ Printed(p) = <<>> THEN i[p] ELSE i[p] + 1
    IN  /\ pc[p] = "fetch"
        /\ Gettable(i[p])
        /\ FitsBuf(copied)
        /\ buf' = [buf EXCEPT ![p] = copied]
        /\ i' = [i EXCEPT ![p] = next]
        /\ nth' = [nth EXCEPT ![p] = IF adds THEN -1 ELSE @]
        /\ Goto(p, IF next = num[p] THEN "write" ELSE "fetch")
        /\ UNCHANGED <<rules, call, new, num, start>>

\* One round; an added rule does not consume the fetched one.
Fetch(p) ==
    LET copied == buf[p] \o Printed(p)
        adds   == call[p].op \in {"add", "prepend"} /\ i[p] = nth[p]
        next   == IF adds THEN i[p] ELSE i[p] + 1
    IN  /\ pc[p] = "fetch"
        /\ Gettable(i[p])
        /\ FitsBuf(copied)
        /\ buf' = [buf EXCEPT ![p] = copied]
        /\ i' = [i EXCEPT ![p] = next]
        /\ nth' = [nth EXCEPT ![p] = IF adds THEN -1 ELSE @]
        /\ Goto(p, IF next = num[p] THEN "write" ELSE "fetch")
        /\ UNCHANGED <<rules, call, new, num, start>>

\* The rule is gone or the text too long: nothing is written, and replace_rule,
\* add_rule and delete_rule return 0 all the same.
FetchFails(p) ==
    /\ pc[p] = "fetch"
    /\ Gettable(i[p]) => ~FitsBuf(buf[p] \o Printed(p))
    /\ GiveUp(p)
    /\ UNCHANGED rules

\* nvram_set of another value than the one that others are working on
Store(p, s) ==
    /\ rules' = s
    /\ start' = [q \in Procs |-> NoCall]
    /\ Return(p)

\* The end of ezplib_op_rule.  If no rule was printed, the buffer is what the
\* stack held.
Write(p) ==
    /\ pc[p] = "write"
    /\ \E s \in IF buf[p] = <<>> THEN {<<>>, <<Junk>>} ELSE {buf[p]} : Store(p, s)

\* A mistake the checks must find: no byte is left for the NUL.
AppendNoNul(p) ==
    LET longer == Append(rules, new[p])
    IN  /\ pc[p] = "append"
        /\ IF StrLen(longer) <= EZPLIB_BUF_LEN
           THEN /\ buf' = [buf EXCEPT ![p] = longer]
                /\ Goto(p, "store")
                /\ UNCHANGED <<call, new, num, i, nth, start>>
           ELSE GiveUp(p)
        /\ UNCHANGED rules

\* ezplib_append_rule: get, print ...
Append1(p) ==
    LET longer == Append(rules, new[p])
    IN  /\ pc[p] = "append"
        /\ IF StrLen(longer) < EZPLIB_BUF_LEN
           THEN /\ buf' = [buf EXCEPT ![p] = longer]
                /\ Goto(p, "store")
                /\ UNCHANGED <<call, new, num, i, nth, start>>
           ELSE GiveUp(p)
        /\ UNCHANGED rules

\* ... and set.
Append2(p) ==
    /\ pc[p] = "store"
    /\ Store(p, buf[p])

Step(p) ==
    \/ Attr(p) \/ AttrFails(p) \/ Check(p) \/ Count(p) \/ Fetch(p)
    \/ FetchFails(p) \/ Write(p) \/ Append1(p) \/ Append2(p)

Next == \E p \in Procs : Step(p) \/ \E c \in Calls[p] : Call(p, c)

Spec == Init /\ [][Next]_vars /\ \A p \in Procs : WF_vars(Step(p))

-----------------------------------------------------------------------------
\* The types; the variable always fits into the buffers it is copied to, the
\* loop index stays below the count and a negative position is only the mark
\* of an addition that is done (ezplib_op_rule, ezplib_append_rule).
TypeOK ==
    /\ StrLen(rules) < EZPLIB_BUF_LEN
    /\ \A p \in Procs :
         /\ pc[p] \in {"idle", "attr", "check", "count", "fetch", "write", "append", "store"}
         /\ pc[p] = "idle" \/ call[p] \in Calls[p]
         /\ i[p] \in 0 .. num[p]
         /\ pc[p] = "fetch" => i[p] < num[p]
         /\ nth[p] < 0 => call[p].op \in {"add", "prepend"}
         /\ StrLen(buf[p]) < EZPLIB_BUF_LEN

\* What the documentation of each function says it does to the rule set.
Documented(c, s) ==
    CASE c.op = "replace" -> IF c.nth < Len(s) THEN ReplaceAt(s, c.nth + 1, c.rule) ELSE s
      [] c.op = "attr"    -> [s EXCEPT ![c.nth + 1][c.attr] = c.val]
      [] c.op = "delete"  -> IF c.nth < Len(s) THEN RemoveAt(s, c.nth + 1) ELSE s
      [] c.op = "add"     -> InsertAt(s, c.nth + 1, c.rule)
      [] c.op = "prepend" -> <<c.rule>> \o s
      [] c.op = "append"  -> Append(s, c.rule)

Stores(p) == pc[p] \in {"write", "store"} /\ pc'[p] = "idle"

\* A call during which nobody else wrote the rule set leaves it as documented,
\* when there is a rule before and after it; one that finds no room for the
\* result writes nothing (ezplib_op_rule, ezplib_append_rule).
CallExact ==
    [][\A p \in Procs :
         /\ Stores(p) /\ start[p] # NoCall
         /\ start[p] # <<>> \/ call[p].op \in {"append", "add"}
         /\ Documented(call[p], start[p]) # <<>>
         => rules' = Documented(call[p], start[p])]_vars

\* Every call returns, whatever the others do to the rule set meanwhile (the
\* loop of ezplib_op_rule that steps back after an addition).
CallsReturn == \A p \in Procs : pc[p] # "idle" ~> pc[p] = "idle"

=============================================================================
