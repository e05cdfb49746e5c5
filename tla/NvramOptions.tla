---------------------------- MODULE NvramOptions ----------------------------
(***************************************************************************)
(* What libnvram does with the options of the variables: the table         *)
(* nvram_ezpacket_default, the start (nvram boot), the factory reset       *)
(* (nvram_default and nvram_commit, by the button, the web page or the     *)
(* command line), the backup and the restore of the settings               *)
(* (nvram_export; nvram_import and nvram_commit) and single writes, all of *)
(* them from processes that run at the same time and take no lock.         *)
(*                                                                         *)
(* One write and one commit of the driver are one step each (NvramStore    *)
(* and NvramFlash are about what is inside).  The file of a restore is one *)
(* that this firmware wrote: another product or version is refused, and    *)
(* what nvram_upgrade does with an older one is in FwMigrate.              *)
(*                                                                         *)
(* Left out: builds with several product categories (EZP_PROD_SUPERCAT_X); *)
(* what single brands and platforms add to nvram_upgrade (AXA, M2E, SONY); *)
(* prod_subsubcat, which every nvram_upgrade unsets and nvram boot sets    *)
(* again; fw_version, which has this firmware's value already; and         *)
(* check_action: nothing writes the file it reads, so nvram_commit always  *)
(* commits.                                                                *)
(***************************************************************************)
EXTENDS Naturals, Sequences

CONSTANTS
    Names,        \* the variables of the table
    Values,       \* the values that are not empty
    Empty,        \* the empty string
    Unset,        \* there is no such variable
    Table,        \* nvram_ezpacket_default
    DefaultName,  \* of x: x_default
    Suffixed,     \* has EZP_PROD_VERSION a suffix ("2.0.8-RC-20121108")
    Specials,     \* what special_processing rewrites: ssh_rule, turbonat_enable
    Rewritten,    \* and what it makes of their contents
    Procs,        \* the processes
    Sets,         \* what they write with nvram_set: [name, val]
    FSets,        \* what they write with nvram_fset and nvram_unset
    Rules,        \* what they reset with nvram_default_rule
    None,
    MaxCalls,     \* bound: calls
    MaxReboots    \* bound: reboots and power losses

Options == {"PROTECTED", "TEMP", "EMPTY", "DEFAULT"}
Contents == Values \cup {Empty, Unset}
Images == [Names -> Contents]
Writes == [name : Names, val : Contents]
Last == Len(Table)
Steps == (Last + 1) + (Len(Specials) + 2)  \* of an export, of an import

Has(i, option) == option \in Table[i].options

\* The first entry of each variable, and the last: dual-WAN builds have
\* "vlan2ports" twice, with the ports of VLAN 2 and with those of VLAN 3.
Firsts == {i \in 1 .. Last : \A j \in 1 .. i - 1 : Table[j].name # Table[i].name}
Lasts == {i \in 1 .. Last : \A j \in i + 1 .. Last : Table[j].name # Table[i].name}

(* Every variable has an entry.  Entries that share a name (vlan2ports,    *)
(* no_root_swap) have values and no options.  No protected variable is     *)
(* temporary.  x_default comes before x and has a value of its own.        *)
ASSUME TableAssumption ==
    /\ Values \cap {Empty, Unset} = {} /\ Empty # Unset
    /\ Table \in Seq([name : Names, value : Values \cup {Empty}, options : SUBSET Options])
    /\ \A n \in Names : \E i \in 1 .. Last : Table[i].name = n
    /\ \A i, j \in 1 .. Last : Table[i].name = Table[j].name /\ i # j =>
         Table[i].options = {} /\ Table[i].value \in Values
    /\ \A i \in 1 .. Last : ~ (Has(i, "PROTECTED") /\ Has(i, "TEMP"))
    /\ \A i \in 1 .. Last : Has(i, "DEFAULT") =>
         \E j \in Firsts : /\ j < i /\ Table[j].name = DefaultName[Table[i].name]
                           /\ ~ Has(j, "DEFAULT") /\ ~ Has(j, "EMPTY")
                           /\ Table[j].value \in Values

(* An entry with DEFAULT is empty, and is not left so.                     *)
ASSUME DefaultAssumption ==
    \A i \in 1 .. Last : Has(i, "DEFAULT") => Table[i].value = Empty /\ ~ Has(i, "EMPTY")

(* What special_processing rewrites is in the table, with no options; a    *)
(* value stays a value.                                                    *)
ASSUME SpecialAssumption ==
    /\ Suffixed \in BOOLEAN
    /\ Specials \in Seq(Names)
    /\ \A j, k \in 1 .. Len(Specials) : Specials[j] = Specials[k] => j = k
    /\ \A i \in 1 .. Last, k \in 1 .. Len(Specials) :
         Table[i].name = Specials[k] => Table[i].options = {}
    /\ Rewritten \in [Names -> [Contents -> Contents]]
    /\ \A n \in Names, v \in Values : Rewritten[n][v] \in Values

ASSUME CallAssumption ==
    /\ Sets \subseteq Writes /\ FSets \subseteq Writes /\ Rules \subseteq Names
    /\ MaxCalls \in Nat /\ MaxReboots \in Nat

VARIABLES
    mem,      \* the variables, in the driver
    flash,    \* the variables as they were last committed
    booting,  \* the entry nvram boot has come to; 0 when it has ended
    proc,     \* what each process is about to do
    file,     \* the user's backup of the settings, or None
    calls, reboots,
    \* History: what the user may expect.
    taken,    \* the variables when the backup was made, or None
    expect    \* what the last commit stored: after an undisturbed reset or
              \* restore, the variables before it

vars == <<mem, flash, booting, proc, file, calls, reboots, taken, expect>>

(* A process in a call: the writes it still has to do with nvram_set, has  *)
(* nvram_set found that the variable may be written, does a commit follow; *)
(* for nvram_export the entry it has come to and the lines it has written, *)
(* for nvram_import the step of nvram_upgrade it has come to;              *)
(* as history, the variables at the start of the call (of a restore: when  *)
(* the backup was made), whether no other process has written since, and   *)
(* the protected variables that have been empty since.                     *)
Idle == [op |-> "idle", todo |-> <<>>, allowed |-> FALSE, entry |-> 1, lines |-> <<>>,
         before |-> None, alone |-> FALSE, empty |-> {}]

HasValue(c) == c \in Values

Protected == {Table[i].name : i \in {j \in 1 .. Last : Has(j, "PROTECTED")}}

EmptyOnes(img) == {n \in Protected : ~ HasValue(img[n])}

Start(op, todo, before) ==
    [Idle EXCEPT !.op = op, !.todo = todo, !.before = before, !.alone = TRUE,
                 !.empty = EmptyOnes(mem)]

-----------------------------------------------------------------------------
\* nvram boot: the whole table, before any other process starts.

(* Mutant: the option DEFAULT is not looked at. *)
TableValue(i, img) == Table[i].value

\* The value of entry i in an image in which it is empty.
DefaultValue(i, img) == IF Has(i, "DEFAULT") THEN img[DefaultName[Table[i].name]] ELSE Table[i].value

nvram_boot ==
    /\ booting \in 1 .. Last
    /\ LET n == Table[booting].name
       IN  mem' = IF ~ HasValue(mem[n])
                  THEN IF Has(booting, "EMPTY") THEN mem
                       ELSE [mem EXCEPT ![n] = DefaultValue(booting, mem)]
                  ELSE IF Has(booting, "TEMP") THEN [mem EXCEPT ![n] = Table[booting].value]
                  ELSE mem
    /\ booting' = booting + 1
    /\ UNCHANGED <<flash, proc, file, calls, reboots, taken, expect>>

(* Mutant: the loop does not see the end of the table. *)
BootRunsOn ==
    /\ booting = Last + 1
    /\ booting' = booting + 1
    /\ UNCHANGED <<mem, flash, proc, file, calls, reboots, taken, expect>>

BootDone ==
    /\ booting = Last + 1
    /\ booting' = 0
    /\ UNCHANGED <<mem, flash, proc, file, calls, reboots, taken, expect>>

\* A reboot or a power loss ends every process, wherever it is.
Reboot ==
    /\ reboots < MaxReboots
    /\ reboots' = reboots + 1
    /\ mem' = flash
    /\ booting' = 1
    /\ proc' = [p \in Procs |-> Idle]
    /\ UNCHANGED <<flash, file, calls, taken, expect>>

-----------------------------------------------------------------------------
\* Calls.

Call(p) ==
    /\ booting = 0 /\ proc[p].op = "idle" /\ calls < MaxCalls
    /\ calls' = calls + 1

\* Process p writes: whoever else is in a call is not alone any more.
Disturbed(p, after) ==
    [q \in Procs |-> IF q = p THEN after ELSE IF proc[q].op = "idle" THEN Idle
                     ELSE [proc[q] EXCEPT !.alone = FALSE, !.empty = @ \cup EmptyOnes(mem')]]

nvram_fset(p) ==
    /\ Call(p)
    /\ \E w \in FSets : mem' = [mem EXCEPT ![w.name] = w.val]
    /\ proc' = Disturbed(p, Idle)
    /\ UNCHANGED <<flash, booting, file, reboots, taken, expect>>

\* The calls that go through nvram_set.
BeginSet(p) == \E w \in Sets : proc' = [proc EXCEPT ![p] = Start("set", <<w>>, mem)]

(* Mutant: an entry with an empty value is skipped. *)
default_of_values(p) ==
    proc' = [proc EXCEPT ![p] = Start("reset",
        SelectSeq([i \in 1 .. Last |-> [name |-> Table[i].name, val |-> Table[i].value]],
                  LAMBDA w : w.val # Empty), mem)]

nvram_default(p) ==
    proc' = [proc EXCEPT ![p] =
        Start("reset", [i \in 1 .. Last |-> [name |-> Table[i].name, val |-> Table[i].value]], mem)]

nvram_default_rule(p) ==
    \E i \in {j \in Firsts : Table[j].name \in Rules} :
        proc' = [proc EXCEPT ![p] =
                   Start("set", <<[name |-> Table[i].name, val |-> Table[i].value]>>, mem)]

\* The variables that nvram_export writes and nvram_import reads.
Exported(i) == ~ Has(i, "PROTECTED") /\ ~ Has(i, "TEMP")
ExportedNames == {Table[i].name : i \in {j \in 1 .. Last : Exported(j)}}

(* Mutant: the first variable is taken for a part of the header. *)
import_rest(p) ==
    /\ file # None
    /\ proc' = [proc EXCEPT ![p] = Start("restore", Tail(file), taken)]

nvram_import(p) ==
    /\ file # None
    /\ proc' = [proc EXCEPT ![p] = Start("restore", file, taken)]

BeginExport(p) == proc' = [proc EXCEPT ![p] = Start("export", <<>>, mem)]

Begin(p) ==
    /\ Call(p)
    /\ \/ BeginSet(p) \/ nvram_default(p) \/ nvram_default_rule(p)
       \/ nvram_import(p) \/ BeginExport(p)
    /\ UNCHANGED <<mem, flash, booting, file, reboots, taken, expect>>

-----------------------------------------------------------------------------
\* nvram_set: a protected variable must be empty; the write is a second call
\* of the driver.

Writing(p) == proc[p].todo # <<>>
Current(p) == Head(proc[p].todo)

\* On to the next write; a single one ends the call.
NextWrite(c) ==
    IF c.op = "set" THEN Idle ELSE [c EXCEPT !.todo = Tail(@), !.allowed = FALSE]

\* nvram_import skips a line of a variable that it does not read.
Skipped(c, w) == c.op = "restore" /\ w.name \notin ExportedNames

(* Mutant: the check of the value is lost. *)
SetCheckNothing(p) ==
    /\ Writing(p) /\ ~ proc[p].allowed
    /\ LET w == Current(p)
       IN  /\ w.name \in Protected \/ Skipped(proc[p], w)
           /\ proc' = [proc EXCEPT ![p] =
                IF Skipped(@, w) THEN NextWrite(@) ELSE [@ EXCEPT !.allowed = TRUE]]
    /\ UNCHANGED <<mem, flash, booting, file, calls, reboots, taken, expect>>

SetCheck(p) ==
    /\ Writing(p) /\ ~ proc[p].allowed
    /\ LET w == Current(p)
       IN  /\ w.name \in Protected \/ Skipped(proc[p], w)
           /\ proc' = [proc EXCEPT ![p] =
                IF Skipped(@, w) \/ HasValue(mem[w.name])
                THEN NextWrite(@) ELSE [@ EXCEPT !.allowed = TRUE]]
    /\ UNCHANGED <<mem, flash, booting, file, calls, reboots, taken, expect>>

SetWrite(p) ==
    /\ Writing(p)
    /\ LET w == Current(p)
       IN  /\ proc[p].allowed \/ ~ (w.name \in Protected \/ Skipped(proc[p], w))
           /\ mem' = [mem EXCEPT ![w.name] = w.val]
    /\ proc' = Disturbed(p, NextWrite(proc[p]))
    /\ UNCHANGED <<flash, booting, file, calls, reboots, taken, expect>>

nvram_set(p) == SetCheck(p) \/ SetWrite(p)

NoExpectation == [op |-> "none", before |-> None]

\* The end of nvram_import: nvram_upgrade with the number of the file's version.
\* A build with a suffix takes it for another version, though it converts
\* nothing: special_processing reads its variables and writes those that it
\* changes, and commits; fw_version_update commits again.
SpecialRead(p) ==
    /\ proc[p].op = "restore" /\ ~ Writing(p) /\ Suffixed
    /\ proc[p].entry <= Len(Specials)
    /\ LET n == Specials[proc[p].entry]
           w == [name |-> n, val |-> Rewritten[n][mem[n]]]
       IN  proc' = [proc EXCEPT ![p].entry = @ + 1, ![p].allowed = FALSE,
                                ![p].todo = IF w.val = mem[n] THEN <<>> ELSE <<w>>]
    /\ UNCHANGED <<mem, flash, booting, file, calls, reboots, taken, expect>>

UpgradeCommit(p) ==
    /\ proc[p].op = "restore" /\ ~ Writing(p) /\ Suffixed
    /\ proc[p].entry \in {Len(Specials) + 1, Len(Specials) + 2}
    /\ flash' = mem
    /\ expect' = IF flash' = flash THEN expect ELSE NoExpectation
    /\ proc' = [proc EXCEPT ![p].entry = @ + 1]
    /\ UNCHANGED <<mem, booting, file, calls, reboots, taken>>

nvram_upgrade(p) == SpecialRead(p) \/ UpgradeCommit(p)

Upgraded(c) == Suffixed => c.entry = Len(Specials) + 3

\* A reset and a restore end with nvram_commit.
CommitDone(p) ==
    /\ proc[p].op \in {"reset", "restore"} /\ ~ Writing(p)
    /\ proc[p].op = "restore" => Upgraded(proc[p])
    /\ flash' = mem
    /\ expect' = IF proc[p].alone THEN [op |-> proc[p].op, before |-> proc[p].before]
                 ELSE NoExpectation
    /\ proc' = [proc EXCEPT ![p] = Idle]
    /\ UNCHANGED <<mem, booting, file, calls, reboots, taken>>

nvram_commit(p) ==
    /\ Call(p)
    /\ flash' = mem
    /\ expect' = IF flash' = flash THEN expect ELSE NoExpectation
    /\ UNCHANGED <<mem, booting, proc, file, reboots, taken>>

\* nvram_export writes a line per entry, an empty one for a variable that is
\* not there.
nvram_export(p) ==
    /\ proc[p].op = "export" /\ proc[p].entry <= Last
    /\ LET i == proc[p].entry
           n == Table[i].name
           line == [name |-> n, val |-> IF mem[n] = Unset THEN Empty ELSE mem[n]]
       IN  proc' = [proc EXCEPT ![p].entry = @ + 1,
                                ![p].lines = IF Exported(i) THEN Append(@, line) ELSE @]
    /\ UNCHANGED <<mem, flash, booting, file, calls, reboots, taken, expect>>

ExportDone(p) ==
    /\ proc[p].op = "export" /\ proc[p].entry > Last
    /\ file' = proc[p].lines
    /\ taken' = IF proc[p].alone THEN proc[p].before ELSE None
    /\ proc' = [proc EXCEPT ![p] = Idle]
    /\ UNCHANGED <<mem, flash, booting, calls, reboots, expect>>

-----------------------------------------------------------------------------
\* A new device: nothing is in the flash.
Init ==
    /\ flash = [n \in Names |-> Unset]
    /\ mem = flash
    /\ booting = 1
    /\ proc = [p \in Procs |-> Idle]
    /\ file = None /\ taken = None /\ expect = NoExpectation
    /\ calls = 0 /\ reboots = 0

Next ==
    \/ nvram_boot \/ BootDone \/ Reboot
    \/ \E p \in Procs : \/ nvram_fset(p) \/ Begin(p) \/ nvram_set(p) \/ nvram_upgrade(p)
                        \/ CommitDone(p) \/ nvram_commit(p) \/ nvram_export(p) \/ ExportDone(p)

Spec == Init /\ [][Next]_vars

-----------------------------------------------------------------------------
TypeOK ==
    /\ mem \in Images /\ flash \in Images
    /\ booting \in 0 .. Last + 1
    /\ DOMAIN proc = Procs
    /\ \A p \in Procs : /\ proc[p].todo \in Seq(Writes) /\ proc[p].lines \in Seq(Writes)
                        /\ proc[p].entry \in 1 .. Steps
                        /\ proc[p].op \in {"idle", "set", "reset", "restore", "export"}
                        /\ proc[p].before \in Images \cup {None}
                        /\ proc[p].empty \subseteq Names
                        /\ proc[p].allowed \in BOOLEAN /\ proc[p].alone \in BOOLEAN
    /\ file \in Seq(Writes) \cup {None}
    /\ calls \in 0 .. MaxCalls /\ reboots \in 0 .. MaxReboots

\* What the variable of entry i starts with, if the flash holds img and i is
\* its first entry: the table's value for a temporary variable that has one,
\* otherwise its own value, or that of x_default, as that one starts, or the
\* table's; in whatever order.
Own(i, img) ==
    LET c == img[Table[i].name]
    IN  IF HasValue(c) THEN IF Has(i, "TEMP") THEN Table[i].value ELSE c
        ELSE IF Has(i, "EMPTY") THEN c ELSE Table[i].value

Started(i, img) ==
    IF ~ HasValue(img[Table[i].name]) /\ Has(i, "DEFAULT") /\ ~ Has(i, "EMPTY")
    THEN Own(CHOOSE j \in Firsts : Table[j].name = DefaultName[Table[i].name], img)
    ELSE Own(i, img)

\* nvram_boot goes through the table once and fills variables while it reads
\* others, of an image that a half-finished reset or restore may have left;
\* when it has ended every variable has the value it is to start with.  A
\* variable with two entries starts with the value of the first.
BootExact ==
    booting = Last + 1 => \A i \in Firsts : mem[Table[i].name] = Started(i, flash)

\* After a factory reset and a reboot every variable has its factory value,
\* x that of x_default, and what was protected is what it was before, unless
\* another process wrote during the reset.  The factory value of a variable
\* with two entries is that of the last one: nvram_default writes both, so
\* that vlan2ports is not what a new device starts with (BootExact).
ResetComplete ==
    booting = Last + 1 /\ expect.op = "reset" =>
        \A i \in Lasts :
            LET n == Table[i].name
            IN  IF Has(i, "PROTECTED") /\ HasValue(expect.before[n])
                THEN mem[n] = expect.before[n]
                ELSE mem[n] = IF Has(i, "DEFAULT") THEN mem[DefaultName[n]] ELSE Table[i].value

\* A restore and a reboot give back every setting that the backup was made
\* from, whatever was set, reset and lost in between, unless another process
\* wrote during the backup or the restore.  On a build with a version suffix
\* ssh_rule and turbonat_enable come back as special_processing rewrites them,
\* with ssh off, although the file is of the same firmware.
RestoreComplete ==
    booting = Last + 1 /\ expect.op = "restore" /\ expect.before # None =>
        \A i \in 1 .. Last :
            LET n == Table[i].name
                rewritten == Suffixed /\ \E k \in 1 .. Len(Specials) : Specials[k] = n
            IN  Exported(i) /\ HasValue(expect.before[n]) =>
                    mem[n] = IF rewritten THEN Rewritten[n][expect.before[n]]
                             ELSE expect.before[n]

\* A protected variable keeps its value, except in a reboot (it has the value
\* that was committed), when it is forced (fset, unset), and by a call during
\* which it was empty: nvram_set may have looked at it then, and writes later.
ProtectedKept ==
    [][\A n \in Protected :
         HasValue(mem[n]) /\ mem'[n] # mem[n] =>
             \/ reboots' > reboots
             \/ \E p \in Procs : nvram_fset(p)
             \/ \E p \in Procs : proc'[p] # proc[p] /\ n \in proc[p].empty]_vars
=============================================================================
