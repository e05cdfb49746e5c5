------------------------- MODULE NvramOptionsProofs -------------------------
(***************************************************************************)
(* Proofs about NvramOptions for every table, every number of processes    *)
(* and every sequence of calls and power losses: type correctness, that    *)
(* nvram boot leaves every variable with the value it is to start with,    *)
(* that protected variables are kept, and that an undisturbed reset and    *)
(* an undisturbed backup and restore are complete after the next start.    *)
(***************************************************************************)
EXTENDS NvramOptions, TLAPS

Ops == {"idle", "set", "reset", "restore", "export"}

Calling == [op : Ops, todo : Seq(Writes), allowed : BOOLEAN, entry : 1 .. Steps,
            lines : Seq(Writes), before : Images \cup {None}, alone : BOOLEAN,
            empty : SUBSET Names]

(* TypeOK, with the whole record of a process and the history variables.   *)
Typed ==
    /\ mem \in Images /\ flash \in Images
    /\ booting \in 0 .. Last + 1
    /\ proc \in [Procs -> Calling]
    /\ file \in Seq(Writes) \cup {None}
    /\ calls \in 0 .. MaxCalls /\ reboots \in 0 .. MaxReboots
    /\ taken \in Images \cup {None}

(* Every entry of the table has a name and a value, and there are finitely *)
(* many.                                                                   *)
LEMMA TableFacts ==
    /\ Last \in Nat
    /\ \A i \in 1 .. Last : Table[i].name \in Names /\ Table[i].value \in Contents
    /\ \A i \in 1 .. Last : Has(i, "DEFAULT") => DefaultName[Table[i].name] \in Names
<1> DEFINE Entries == [name : Names, value : Values \cup {Empty}, options : SUBSET Options]
<1>0. Table \in Seq(Entries)
  BY TableAssumption
<1> HIDE DEF Entries
<1>1. Last \in Nat /\ \A i \in 1 .. Last : Table[i] \in Entries
  BY <1>0 DEF Last
<1>2. \A i \in 1 .. Last : Table[i].name \in Names /\ Table[i].value \in Contents
  BY <1>1 DEF Contents, Entries
<1>3. \A i \in 1 .. Last : Has(i, "DEFAULT") => DefaultName[Table[i].name] \in Names
  <2> TAKE i \in 1 .. Last
  <2> HAVE Has(i, "DEFAULT")
  <2>1. PICK j \in Firsts : Table[j].name = DefaultName[Table[i].name]
    BY TableAssumption
  <2>2. j \in 1 .. Last
    BY <2>1 DEF Firsts
  <2> QED BY <1>2, <2>1, <2>2
<1> QED BY <1>1, <1>2, <1>3

(* The variables that special_processing rewrites are in the table.        *)
LEMMA SpecialFacts ==
    /\ Len(Specials) \in Nat /\ Steps \in Nat /\ Last + 1 <= Steps /\ Len(Specials) + 3 <= Steps
    /\ \A k \in 1 .. Len(Specials) : Specials[k] \in Names
    /\ \A n \in Names, c \in Contents : Rewritten[n][c] \in Contents
<1>1. Specials \in Seq(Names) /\ Rewritten \in [Names -> [Contents -> Contents]]
  BY SpecialAssumption
<1>2. Len(Specials) \in Nat /\ \A k \in 1 .. Len(Specials) : Specials[k] \in Names
  BY <1>1
<1>3. Steps \in Nat /\ Last + 1 <= Steps /\ Len(Specials) + 3 <= Steps
  BY <1>2, TableFacts DEF Steps
<1> QED BY <1>1, <1>2, <1>3

LEMMA ProtectedNames ==
    /\ Protected \subseteq Names
    /\ \A n \in Protected : \E i \in 1 .. Last : Table[i].name = n /\ Has(i, "PROTECTED")
    /\ \A i \in 1 .. Last : Has(i, "PROTECTED") => Table[i].name \in Protected
BY TableFacts DEF Protected

(* Entries that share a name have values and no options.                   *)
LEMMA Twins ==
    ASSUME NEW i \in 1 .. Last, NEW j \in 1 .. Last, Table[i].name = Table[j].name, i # j
    PROVE  /\ Table[i].options = {} /\ Table[i].value \in Values
           /\ \A option : ~ Has(i, option)
BY TableAssumption DEF Has

(* The call of a process that has nothing to do, and of one that starts.   *)
LEMMA IdleTyped == Idle \in Calling
BY TableFacts, SpecialFacts DEF Idle, Calling, Ops

LEMMA StartTyped ==
    ASSUME NEW op \in Ops, NEW todo \in Seq(Writes), NEW before \in Images \cup {None}
    PROVE  Start(op, todo, before) \in Calling
BY IdleTyped, ProtectedNames DEF Start, Idle, Calling, EmptyOnes

(* On to the next write: the call keeps its type.                          *)
LEMMA NextWriteTyped ==
    ASSUME NEW c \in Calling, c.todo # <<>>
    PROVE  NextWrite(c) \in Calling
<1>1. Tail(c.todo) \in Seq(Writes)
  BY DEF Calling
<1> QED
  BY <1>1, IdleTyped DEF NextWrite, Calling

LEMMA DisturbedTyped ==
    ASSUME proc \in [Procs -> Calling], NEW p, NEW after \in Calling
    PROVE  Disturbed(p, after) \in [Procs -> Calling]
<1> SUFFICES ASSUME NEW q \in Procs, q # p, proc[q].op # "idle"
             PROVE  [proc[q] EXCEPT !.alone = FALSE, !.empty = @ \cup EmptyOnes(mem')] \in Calling
  BY IdleTyped DEF Disturbed
<1> EmptyOnes(mem') \subseteq Names
  BY ProtectedNames DEF EmptyOnes
<1> QED
  BY DEF Calling

-----------------------------------------------------------------------------
LEMMA TypedInit == Init => Typed
BY IdleTyped, TableFacts, CallAssumption DEF Init, Typed, Images, Contents

(* nvram boot writes values of the table or of x_default.                  *)
LEMMA BootTyped ==
    ASSUME Typed, nvram_boot
    PROVE  Typed'
<1> DEFINE n == Table[booting].name
<1>1. booting \in 1 .. Last /\ n \in Names /\ Table[booting].value \in Contents
  BY TableFacts DEF nvram_boot
<1>2. DefaultValue(booting, mem) \in Contents
  BY <1>1, TableFacts DEF DefaultValue, Typed, Images
<1>3. mem' \in Images
  BY <1>1, <1>2 DEF nvram_boot, Typed, Images
<1> QED
  BY <1>1, <1>3, TableFacts DEF nvram_boot, Typed

(* The calls that start.                                                   *)
LEMMA BeginTyped ==
    ASSUME Typed, NEW p \in Procs, Begin(p)
    PROVE  Typed'
<1> USE DEF Typed
<1>1. CASE BeginSet(p)
  <2>1. PICK w \in Sets : proc' = [proc EXCEPT ![p] = Start("set", <<w>>, mem)]
    BY <1>1 DEF BeginSet
  <2>2. <<w>> \in Seq(Writes)
    BY <2>1, CallAssumption
  <2>3. Start("set", <<w>>, mem) \in Calling
    BY <2>2, StartTyped DEF Ops
  <2> QED BY <2>1, <2>3, CallAssumption DEF Begin, Call
<1>2. CASE nvram_default(p)
  <2> DEFINE all == [i \in 1 .. Last |-> [name |-> Table[i].name, val |-> Table[i].value]]
  <2>1. all \in Seq(Writes)
    BY TableFacts DEF Writes
  <2> HIDE DEF all
  <2>2. Start("reset", all, mem) \in Calling
    BY <2>1, StartTyped DEF Ops
  <2>3. proc' = [proc EXCEPT ![p] = Start("reset", all, mem)]
    BY <1>2 DEF nvram_default, all
  <2> QED BY <2>2, <2>3, CallAssumption DEF Begin, Call
<1>3. CASE nvram_default_rule(p)
  <2>1. PICK i \in 1 .. Last : proc' = [proc EXCEPT ![p] =
               Start("set", <<[name |-> Table[i].name, val |-> Table[i].value]>>, mem)]
    BY <1>3 DEF nvram_default_rule, Firsts
  <2> DEFINE one == <<[name |-> Table[i].name, val |-> Table[i].value]>>
  <2>2. one \in Seq(Writes)
    BY TableFacts DEF Writes
  <2> HIDE DEF one
  <2>3. Start("set", one, mem) \in Calling
    BY <2>2, StartTyped DEF Ops
  <2>4. proc' = [proc EXCEPT ![p] = Start("set", one, mem)]
    BY <2>1 DEF one
  <2> QED BY <2>3, <2>4, CallAssumption DEF Begin, Call
<1>4. CASE nvram_import(p)
  <2>1. Start("restore", file, taken) \in Calling
    BY <1>4, StartTyped DEF Ops, nvram_import
  <2> QED BY <1>4, <2>1, CallAssumption DEF Begin, Call, nvram_import
<1>5. CASE BeginExport(p)
  <2>1. <<>> \in Seq(Writes)
    OBVIOUS
  <2>2. Start("export", <<>>, mem) \in Calling
    BY <2>1, StartTyped DEF Ops
  <2> QED BY <1>5, <2>2, CallAssumption DEF Begin, Call, BeginExport
<1> QED
  BY <1>1, <1>2, <1>3, <1>4, <1>5 DEF Begin

(* The two halves of nvram_set.                                            *)
LEMMA SetTyped ==
    ASSUME Typed, NEW p \in Procs, nvram_set(p)
    PROVE  Typed'
<1> USE DEF Typed
<1>1. proc[p] \in Calling /\ proc[p].todo # <<>>
  BY DEF nvram_set, SetCheck, SetWrite, Writing
<1>2. NextWrite(proc[p]) \in Calling
  BY <1>1, NextWriteTyped
<1>3. Current(p) \in Writes
  BY <1>1 DEF Current, Calling
<1>4. CASE SetCheck(p)
  <2>1. [proc[p] EXCEPT !.allowed = TRUE] \in Calling
    BY <1>1 DEF Calling
  <2>2. proc' \in [Procs -> Calling]
    BY <1>2, <1>4, <2>1 DEF SetCheck
  <2> QED BY <1>4, <2>2 DEF SetCheck
<1>5. CASE SetWrite(p)
  <2>1. mem' \in Images
    BY <1>3, <1>5 DEF SetWrite, Images, Writes
  <2>2. proc' \in [Procs -> Calling]
    BY <1>2, <1>5, DisturbedTyped DEF SetWrite
  <2> QED BY <1>5, <2>1, <2>2 DEF SetWrite
<1> QED
  BY <1>4, <1>5 DEF nvram_set

(* nvram_export appends a line of a variable to the file.                  *)
LEMMA ExportTyped ==
    ASSUME Typed, NEW p \in Procs, nvram_export(p)
    PROVE  Typed'
<1> DEFINE i == proc[p].entry
           line == [name |-> Table[i].name,
                    val |-> IF mem[Table[i].name] = Unset THEN Empty ELSE mem[Table[i].name]]
           after == [proc[p] EXCEPT !.entry = i + 1,
                        !.lines = IF Exported(i) THEN Append(proc[p].lines, line)
                                  ELSE proc[p].lines]
<1>1. proc[p] \in Calling /\ i \in 1 .. Last
  BY TableFacts DEF Typed, Calling, nvram_export
<1>2. line \in Writes
  BY <1>1, TableFacts DEF Typed, Images, Contents, Writes
<1> HIDE DEF line
<1>3. Append(proc[p].lines, line) \in Seq(Writes) /\ i + 1 \in 1 .. Steps
  BY <1>1, <1>2, TableFacts, SpecialFacts DEF Calling
<1>4. after \in Calling
  BY <1>1, <1>3 DEF Calling
<1>5. proc' = [proc EXCEPT ![p] = after]
  BY <1>1 DEF nvram_export, line, Typed, Calling
<1> HIDE DEF after
<1> QED
  BY <1>4, <1>5 DEF nvram_export, Typed

(* nvram_upgrade at the end of nvram_import.                               *)
LEMMA UpgradeTyped ==
    ASSUME Typed, NEW p \in Procs, nvram_upgrade(p)
    PROVE  Typed'
<1> DEFINE c == proc[p]
           n == Specials[c.entry]
           w == [name |-> n, val |-> Rewritten[n][mem[n]]]
           todo == IF w.val = mem[n] THEN <<>> ELSE <<w>>
<1>1. c \in Calling
  BY DEF Typed
<1>2. c.entry \in 1 .. Len(Specials) + 2 /\ c.entry + 1 \in 1 .. Steps
  <2>1. c.entry \in 1 .. Steps
    BY <1>1 DEF Calling
  <2>2. \/ c.entry <= Len(Specials)
        \/ c.entry \in {Len(Specials) + 1, Len(Specials) + 2}
    BY DEF nvram_upgrade, SpecialRead, UpgradeCommit
  <2> HIDE DEF c
  <2> QED BY <2>1, <2>2, SpecialFacts
<1>3. CASE SpecialRead(p)
  <2>1. c.entry \in 1 .. Len(Specials)
    BY <1>2, <1>3, SpecialFacts DEF SpecialRead
  <2>2. w \in Writes
    BY <2>1, SpecialFacts DEF Typed, Images, Writes
  <2> HIDE DEF w
  <2>3. todo \in Seq(Writes)
    BY <2>2
  <2> DEFINE d == [c EXCEPT !.entry = c.entry + 1, !.allowed = FALSE, !.todo = todo]
  <2>4. proc' = [proc EXCEPT ![p] = d]
    BY <1>1, <1>3 DEF SpecialRead, Typed, Calling, w
  <2> HIDE DEF todo
  <2>5. d \in Calling
    BY <1>1, <1>2, <2>3 DEF Calling
  <2> HIDE DEF d
  <2>6. UNCHANGED <<mem, flash, booting, file, calls, reboots, taken>>
    BY <1>3 DEF SpecialRead
  <2> QED BY <2>4, <2>5, <2>6 DEF Typed
<1>4. CASE UpgradeCommit(p)
  <2> DEFINE d == [c EXCEPT !.entry = c.entry + 1]
  <2>1. proc' = [proc EXCEPT ![p] = d]
    BY <1>1, <1>4 DEF UpgradeCommit, Typed, Calling
  <2>2. d \in Calling
    BY <1>1, <1>2 DEF Calling
  <2> HIDE DEF d
  <2> QED BY <1>4, <2>1, <2>2 DEF UpgradeCommit, Typed
<1> QED BY <1>3, <1>4 DEF nvram_upgrade

LEMMA TypedStep == Typed /\ [Next]_vars => Typed'
<1> SUFFICES ASSUME Typed, [Next]_vars PROVE Typed'
  OBVIOUS
<1>1. CASE nvram_boot  BY <1>1, BootTyped
<1>2. CASE BootDone  BY <1>2, TableFacts DEF BootDone, Typed
<1>3. CASE Reboot  BY <1>3, IdleTyped, TableFacts, CallAssumption DEF Reboot, Typed
<1>4. ASSUME NEW p \in Procs, nvram_fset(p) PROVE Typed'
  <2>1. PICK w \in FSets : mem' = [mem EXCEPT ![w.name] = w.val]
    BY <1>4 DEF nvram_fset
  <2>2. mem' \in Images
    BY <2>1, CallAssumption DEF Typed, Images, Writes
  <2>3. proc' \in [Procs -> Calling]
    BY <1>4, IdleTyped, DisturbedTyped DEF nvram_fset, Typed
  <2> QED BY <1>4, <2>2, <2>3, CallAssumption DEF nvram_fset, Call, Typed
<1>5. ASSUME NEW p \in Procs, Begin(p) PROVE Typed'  BY <1>5, BeginTyped
<1>6. ASSUME NEW p \in Procs, nvram_set(p) PROVE Typed'  BY <1>6, SetTyped
<1>7. ASSUME NEW p \in Procs, CommitDone(p) PROVE Typed'
  BY <1>7, IdleTyped DEF CommitDone, Typed
<1>8. ASSUME NEW p \in Procs, nvram_commit(p) PROVE Typed'
  BY <1>8, CallAssumption DEF nvram_commit, Call, Typed
<1>9. ASSUME NEW p \in Procs, nvram_export(p) PROVE Typed'  BY <1>9, ExportTyped
<1>10. ASSUME NEW p \in Procs, ExportDone(p) PROVE Typed'
  <2>1. proc[p] \in Calling
    BY <1>10 DEF Typed
  <2>2. proc[p].lines \in Seq(Writes) /\ proc[p].before \in Images \cup {None}
    BY <2>1 DEF Calling
  <2> QED BY <1>10, <2>2, IdleTyped DEF ExportDone, Typed
<1>11. CASE UNCHANGED vars  BY <1>11 DEF vars, Typed
<1>12. ASSUME NEW p \in Procs, nvram_upgrade(p) PROVE Typed'  BY <1>12, UpgradeTyped
<1> QED
  BY <1>1, <1>2, <1>3, <1>4, <1>5, <1>6, <1>7, <1>8, <1>9, <1>10, <1>11, <1>12 DEF Next

LEMMA TypedAlways == Spec => []Typed
BY TypedInit, TypedStep, PTL DEF Spec

(* Every variable of libnvram's state keeps its type: only contents that a *)
(* variable may have reach the driver, the flash and the backup file.      *)
THEOREM TypeCorrect == Spec => []TypeOK
<1>1. Typed => TypeOK
  BY DEF Typed, TypeOK, Calling, Ops
<1> QED
  BY <1>1, TypedAlways, PTL

-----------------------------------------------------------------------------
(* A variable that no entry of the table makes temporary.                  *)
Lasting(n) == \A i \in 1 .. Last : Table[i].name = n => ~ Has(i, "TEMP")

(* While nvram boot runs nothing else does.  The variables whose first     *)
(* entry it has passed have the value they are to start with, and the      *)
(* others still hold what the flash holds.  A plain entry with a value     *)
(* leaves one behind, and a value in the flash stays unless it is          *)
(* temporary: a second entry of the same name finds a value and does       *)
(* nothing.                                                                *)
BootInv ==
    booting # 0 =>
        /\ \A p \in Procs : proc[p] = Idle
        /\ \A i \in Firsts :
             mem[Table[i].name] = IF i < booting THEN Started(i, flash) ELSE flash[Table[i].name]
        /\ \A i \in 1 .. Last :
             i < booting /\ Table[i].options = {} /\ Table[i].value \in Values
                 => HasValue(mem[Table[i].name])
        /\ \A n \in Names : HasValue(flash[n]) /\ Lasting(n) => mem[n] = flash[n]

LEMMA FirstsFacts ==
    /\ Firsts \subseteq 1 .. Last
    /\ \A i, j \in Firsts : Table[i].name = Table[j].name => i = j
    /\ \A i \in (1 .. Last) \ Firsts : \E j \in 1 .. Last : j < i /\ Table[j].name = Table[i].name
<1>1. Last \in Nat
  BY TableFacts
<1>2. ASSUME NEW i \in Firsts, NEW j \in Firsts, Table[i].name = Table[j].name PROVE i = j
  <2>1. i \in 1 .. Last /\ j \in 1 .. Last
    BY DEF Firsts
  <2>2. ~ (i < j) /\ ~ (j < i)
    <3>1. i < j => i \in 1 .. j - 1
      BY <1>1, <2>1
    <3>2. j < i => j \in 1 .. i - 1
      BY <1>1, <2>1
    <3> QED BY <1>2, <3>1, <3>2 DEF Firsts
  <2> QED BY <1>1, <2>1, <2>2
<1>3. ASSUME NEW i \in (1 .. Last) \ Firsts
      PROVE  \E j \in 1 .. Last : j < i /\ Table[j].name = Table[i].name
  <2>1. PICK j \in 1 .. i - 1 : Table[j].name = Table[i].name
    BY DEF Firsts
  <2>2. j \in 1 .. Last /\ j < i
    BY <1>1, <2>1
  <2> QED BY <2>1, <2>2
<1> QED
  BY <1>2, <1>3 DEF Firsts

(* The first entry of x_default, which comes before that of x, starts with *)
(* what it holds itself.                                                   *)
LEMMA DefaultEntry ==
    ASSUME NEW i \in 1 .. Last, Has(i, "DEFAULT")
    PROVE  \E j \in Firsts : /\ j < i
                             /\ j = CHOOSE k \in Firsts : Table[k].name = DefaultName[Table[i].name]
                             /\ Table[j].name = DefaultName[Table[i].name]
                             /\ ~ Has(j, "DEFAULT")
<1>1. PICK j \in Firsts : /\ j < i /\ Table[j].name = DefaultName[Table[i].name]
                          /\ ~ Has(j, "DEFAULT")
  BY TableAssumption
<1>2. \A k \in Firsts : Table[k].name = DefaultName[Table[i].name] => k = j
  BY FirstsFacts, <1>1
<1>3. j = CHOOSE k \in Firsts : Table[k].name = DefaultName[Table[i].name]
  BY <1>1, <1>2
<1> QED
  BY <1>1, <1>3

(* One round of nvram boot: the first entry of a variable gives it the     *)
(* value it is to start with, a second one nothing, and no other variable  *)
(* changes.                                                                *)
LEMMA BootRound ==
    ASSUME Typed, BootInv, nvram_boot
    PROVE  /\ booting \in Firsts => mem'[Table[booting].name] = Started(booting, flash)
           /\ HasValue(mem[Table[booting].name]) /\ ~ Has(booting, "TEMP") => mem' = mem
           /\ booting \notin Firsts => mem' = mem
           /\ Table[booting].options = {} /\ Table[booting].value \in Values
                => HasValue(mem'[Table[booting].name])
           /\ \A n \in Names : n # Table[booting].name => mem'[n] = mem[n]
<1> DEFINE n == Table[booting].name
<1>1. booting \in 1 .. Last /\ n \in Names /\ booting # 0
  BY TableFacts DEF nvram_boot
<1>3. \A m \in Names : m # n => mem'[m] = mem[m]
  BY <1>1 DEF nvram_boot, Typed, Images
<1>4. ASSUME booting \in Firsts PROVE mem'[n] = Started(booting, flash)
  <2>0. mem[n] = flash[n]
    BY <1>1, <1>4 DEF BootInv
  <2>1. CASE ~ HasValue(flash[n]) /\ Has(booting, "DEFAULT") /\ ~ Has(booting, "EMPTY")
    <3>1. PICK j \in Firsts :
              /\ j < booting
              /\ j = CHOOSE k \in Firsts : Table[k].name = DefaultName[n]
              /\ Table[j].name = DefaultName[n]
              /\ ~ Has(j, "DEFAULT")
      BY <1>1, <2>1, DefaultEntry
    <3>3. mem[Table[j].name] = Started(j, flash)
      BY <1>1, <3>1 DEF BootInv
    <3>4. Started(j, flash) = Own(j, flash)
      BY <3>1 DEF Started
    <3>5. mem'[n] = mem[DefaultName[n]]
      BY <1>1, <2>0, <2>1 DEF nvram_boot, DefaultValue, Typed, Images
    <3>6. Started(booting, flash) = Own(j, flash)
      BY <2>1, <3>1 DEF Started
    <3> QED
      BY <3>1, <3>3, <3>4, <3>5, <3>6
  <2>2. CASE ~ (~ HasValue(flash[n]) /\ Has(booting, "DEFAULT") /\ ~ Has(booting, "EMPTY"))
    <3>1. Started(booting, flash) = Own(booting, flash)
      BY <2>2 DEF Started
    <3>2. mem'[n] = Own(booting, flash)
      BY <1>1, <2>0, <2>2 DEF nvram_boot, DefaultValue, Own, Typed, Images
    <3> QED BY <3>1, <3>2
  <2> QED
    BY <2>1, <2>2
<1>5. HasValue(mem[n]) /\ ~ Has(booting, "TEMP") => mem' = mem
  BY DEF nvram_boot
<1>6. ASSUME booting \notin Firsts PROVE mem' = mem
  <2>1. PICK j \in 1 .. Last : j < booting /\ Table[j].name = n
    BY <1>1, <1>6, FirstsFacts
  <2>2. j # booting
    BY <1>1, <2>1
  <2>3. Table[j].options = {} /\ Table[j].value \in Values
    BY <1>1, <2>1, <2>2, Twins
  <2>4. HasValue(mem[n])
    BY <1>1, <2>1, <2>3 DEF BootInv
  <2>5. ~ Has(booting, "TEMP")
    BY <1>1, <2>1, <2>2, Twins
  <2> QED BY <1>5, <2>4, <2>5
<1>7. ASSUME Table[booting].options = {}, Table[booting].value \in Values
      PROVE  HasValue(mem'[n])
  <2>1. ~ Has(booting, "EMPTY") /\ ~ Has(booting, "TEMP") /\ ~ Has(booting, "DEFAULT")
    BY <1>7 DEF Has
  <2> QED BY <1>1, <1>7, <2>1 DEF nvram_boot, DefaultValue, HasValue, Typed, Images
<1> QED
  BY <1>3, <1>4, <1>5, <1>6, <1>7

LEMMA BootInit ==
    ASSUME booting = 1, mem = flash, \A p \in Procs : proc[p] = Idle
    PROVE  BootInv
<1>1. \A i \in 1 .. Last : ~ (i < booting)
  BY TableFacts
<1>2. \A i \in Firsts : ~ (i < booting)
  BY <1>1, FirstsFacts
<1> QED
  BY <1>1, <1>2 DEF BootInv

LEMMA BootInvStep ==
    ASSUME Typed, BootInv, [Next]_vars
    PROVE  BootInv'
<1>1. CASE nvram_boot
  <2> DEFINE b == Table[booting].name
  <2>1. /\ booting \in 1 .. Last /\ booting # 0 /\ booting' = booting + 1
        /\ flash' = flash /\ proc' = proc
    BY <1>1, TableFacts DEF nvram_boot
  <2>2. ASSUME NEW i \in Firsts
        PROVE  mem'[Table[i].name] = IF i < booting + 1 THEN Started(i, flash) ELSE flash[Table[i].name]
    <3>0. i \in 1 .. Last /\ Table[i].name \in Names
      BY FirstsFacts, TableFacts
    <3>1. CASE i = booting  BY <1>1, <2>1, <3>1, BootRound, TableFacts
    <3>2. CASE i # booting
      <4>1. mem'[Table[i].name] = mem[Table[i].name]
        BY <1>1, <2>2, <3>0, <3>2, BootRound, FirstsFacts
      <4>2. i < booting + 1 <=> i < booting
        BY <2>1, <3>0, <3>2, TableFacts
      <4> QED BY <2>1, <4>1, <4>2 DEF BootInv
    <3> QED BY <3>1, <3>2
  <2>3. \A p \in Procs : proc[p] = Idle
    BY <2>1 DEF BootInv
  <2>4. ASSUME NEW i \in 1 .. Last, i < booting + 1, Table[i].options = {}, Table[i].value \in Values
        PROVE  HasValue(mem'[Table[i].name])
    <3>0. Table[i].name \in Names
      BY TableFacts
    <3>1. CASE i = booting  BY <1>1, <2>4, <3>1, BootRound
    <3>2. CASE i # booting
      <4>1. i < booting
        BY <2>1, <2>4, <3>2, TableFacts
      <4>2. HasValue(mem[Table[i].name])
        BY <2>1, <2>4, <4>1 DEF BootInv
      <4>3. Table[i].name = b => ~ Has(booting, "TEMP")
        BY <2>1, <3>2, Twins
      <4> QED BY <1>1, <3>0, <4>2, <4>3, BootRound
    <3> QED BY <3>1, <3>2
  <2>5. ASSUME NEW n \in Names, HasValue(flash[n]), Lasting(n) PROVE mem'[n] = flash[n]
    <3>1. mem[n] = flash[n]
      BY <2>1, <2>5 DEF BootInv
    <3>2. n = b => ~ Has(booting, "TEMP")
      BY <2>1, <2>5 DEF Lasting
    <3> QED BY <1>1, <2>5, <3>1, <3>2, BootRound
  <2> QED BY <2>1, <2>2, <2>3, <2>4, <2>5 DEF BootInv, Started, Own
<1>2. CASE BootDone  BY <1>2 DEF BootDone, BootInv
<1>3. CASE Reboot
  <2>1. booting' = 1 /\ mem' = flash /\ flash' = flash /\ proc' = [p \in Procs |-> Idle]
    BY <1>3 DEF Reboot
  <2>2. \A i \in 1 .. Last : ~ (i < 1)
    BY TableFacts
  <2> QED BY <2>1, <2>2, FirstsFacts DEF BootInv
<1>4. CASE booting = 0 /\ booting' = 0  BY <1>4 DEF BootInv
<1>5. ASSUME NEW p \in Procs,
             nvram_fset(p) \/ Begin(p) \/ nvram_commit(p) \/ nvram_set(p)
               \/ nvram_upgrade(p) \/ CommitDone(p) \/ nvram_export(p) \/ ExportDone(p)
      PROVE  booting = 0 /\ booting' = 0
  <2>1. booting' = booting
    BY <1>5 DEF nvram_fset, Begin, nvram_commit, nvram_set, SetCheck, SetWrite, nvram_upgrade,
                SpecialRead, UpgradeCommit, CommitDone, nvram_export, ExportDone
  <2>2. CASE nvram_fset(p) \/ Begin(p) \/ nvram_commit(p)
    BY <2>1, <2>2 DEF nvram_fset, Begin, nvram_commit, Call
  <2>3. CASE nvram_set(p)
    BY <2>1, <2>3 DEF BootInv, Idle, nvram_set, SetCheck, SetWrite, Writing
  <2>4. CASE nvram_upgrade(p) \/ CommitDone(p)
    <3>1. proc[p].op # "idle"
      BY <2>4 DEF nvram_upgrade, SpecialRead, UpgradeCommit, CommitDone
    <3> QED BY <2>1, <3>1 DEF BootInv, Idle
  <2>5. CASE nvram_export(p) \/ ExportDone(p)
    BY <2>1, <2>5 DEF BootInv, Idle, nvram_export, ExportDone
  <2> QED BY <1>5, <2>2, <2>3, <2>4, <2>5
<1>6. CASE UNCHANGED vars  BY <1>6 DEF vars, BootInv
<1> QED
  BY <1>1, <1>2, <1>3, <1>4, <1>5, <1>6 DEF Next

(* Whatever a half-finished reset or restore and a power loss have left in *)
(* the flash, and whatever the table: when nvram boot has ended, every     *)
(* variable has the value it is to start with, a variable with two entries *)
(* that of the first.                                                      *)
THEOREM BootCorrect == Spec => []BootExact
<1>1. Init => BootInv
  BY BootInit DEF Init
<1>2. Typed /\ BootInv /\ [Next]_vars => BootInv'
  BY BootInvStep
<1>3. BootInv => BootExact
  <2>1. Last + 1 # 0 /\ \A i \in Firsts : i < Last + 1
    BY TableFacts, FirstsFacts
  <2> QED BY <2>1 DEF BootInv, BootExact
<1> QED
  BY <1>1, <1>2, <1>3, TypedAlways, PTL DEF Spec

-----------------------------------------------------------------------------
(* A call knows every protected variable that is empty, and nvram_set goes *)
(* on only with one that has been empty during the call.                   *)
SeenInv ==
    \A p \in Procs :
        /\ proc[p].op = "idle" => proc[p] = Idle
        /\ proc[p].op # "idle" => EmptyOnes(mem) \subseteq proc[p].empty
        /\ proc[p].todo # <<>> /\ proc[p].allowed => Head(proc[p].todo).name \in proc[p].empty

LEMMA EmptyTodo == Idle.todo = <<>> /\ Idle.op = "idle" /\ ~ Idle.allowed /\ Idle.empty = {}
BY DEF Idle

LEMMA StartSeen ==
    ASSUME NEW op, NEW todo, NEW before
    PROVE  LET c == Start(op, todo, before)
           IN  c.op = op /\ c.empty = EmptyOnes(mem) /\ c.allowed = FALSE
BY DEF Start, Idle

(* What NextWrite leaves of a call.                                        *)
LEMMA NextWriteSeen ==
    ASSUME NEW c \in Calling
    PROVE  \/ NextWrite(c) = Idle
           \/ /\ NextWrite(c).op = c.op /\ NextWrite(c).empty = c.empty
              /\ ~ NextWrite(c).allowed
BY DEF NextWrite, Calling

(* The write of nvram_set: for itself a call sees no new empty variable,   *)
(* the other calls are told.                                               *)
LEMMA SetWriteSeen ==
    ASSUME Typed, SeenInv, NEW p \in Procs, SetWrite(p)
    PROVE  SeenInv'
<1> DEFINE w == Head(proc[p].todo)
<1>1. proc[p] \in Calling /\ proc[p].todo # <<>> /\ w \in Writes
  BY DEF Typed, SetWrite, Writing, Calling
<1>2. proc[p].op # "idle"
  BY <1>1, EmptyTodo DEF SeenInv
<1>3. mem' = [mem EXCEPT ![w.name] = w.val] /\ proc' = Disturbed(p, NextWrite(proc[p]))
  BY DEF SetWrite, Current
<1>4. w.name \in proc[p].empty \/ w.name \notin Protected
  BY <1>1 DEF SetWrite, Current, SeenInv
<1>5. EmptyOnes(mem') \subseteq EmptyOnes(mem) \cup {w.name}
  BY <1>1, <1>3, ProtectedNames DEF EmptyOnes, Typed, Images, Writes
<1>6. EmptyOnes(mem') \subseteq proc[p].empty
  <2>1. EmptyOnes(mem) \subseteq proc[p].empty
    BY <1>2 DEF SeenInv
  <2>2. w.name \notin Protected => w.name \notin EmptyOnes(mem')
    BY DEF EmptyOnes
  <2> QED BY <1>4, <1>5, <2>1, <2>2
<1> SUFFICES ASSUME NEW q \in Procs
             PROVE  /\ proc'[q].op = "idle" => proc'[q] = Idle
                    /\ proc'[q].op # "idle" => EmptyOnes(mem') \subseteq proc'[q].empty
                    /\ proc'[q].todo # <<>> /\ proc'[q].allowed
                         => Head(proc'[q].todo).name \in proc'[q].empty
  BY DEF SeenInv, EmptyOnes
<1>7. CASE q = p
  <2>1. proc'[p] = NextWrite(proc[p])
    BY <1>3 DEF Disturbed
  <2> QED BY <1>1, <1>2, <1>6, <1>7, <2>1, NextWriteSeen, EmptyTodo
<1>8. CASE q # p /\ proc[q].op = "idle"
  <2>1. proc'[q] = Idle
    BY <1>3, <1>8 DEF Disturbed
  <2> QED BY <2>1, EmptyTodo
<1>9. CASE q # p /\ proc[q].op # "idle"
  <2>1. proc'[q] = [proc[q] EXCEPT !.alone = FALSE, !.empty = @ \cup EmptyOnes(mem')]
    BY <1>3, <1>9 DEF Disturbed
  <2>2. proc[q] \in Calling
    BY DEF Typed
  <2>3. /\ proc'[q].op = proc[q].op /\ proc'[q].todo = proc[q].todo
        /\ proc'[q].allowed = proc[q].allowed
        /\ proc'[q].empty = proc[q].empty \cup EmptyOnes(mem')
    BY <2>1, <2>2 DEF Calling
  <2> QED BY <1>9, <2>3 DEF SeenInv
<1> QED BY <1>7, <1>8, <1>9

(* A forced write does the same to the other calls.                        *)
LEMMA FsetSeen ==
    ASSUME Typed, SeenInv, NEW p \in Procs, nvram_fset(p)
    PROVE  SeenInv'
<1> SUFFICES ASSUME NEW q \in Procs
             PROVE  /\ proc'[q].op = "idle" => proc'[q] = Idle
                    /\ proc'[q].op # "idle" => EmptyOnes(mem') \subseteq proc'[q].empty
                    /\ proc'[q].todo # <<>> /\ proc'[q].allowed
                         => Head(proc'[q].todo).name \in proc'[q].empty
  BY DEF SeenInv, EmptyOnes
<1>1. CASE q = p \/ proc[q].op = "idle"
  <2>1. proc'[q] = Idle
    BY <1>1 DEF nvram_fset, Disturbed
  <2> QED BY <2>1, EmptyTodo
<1>2. CASE q # p /\ proc[q].op # "idle"
  <2>1. proc'[q] = [proc[q] EXCEPT !.alone = FALSE, !.empty = @ \cup EmptyOnes(mem')]
    BY <1>2 DEF nvram_fset, Disturbed
  <2>2. proc[q] \in Calling
    BY DEF Typed
  <2>3. /\ proc'[q].op = proc[q].op /\ proc'[q].todo = proc[q].todo
        /\ proc'[q].allowed = proc[q].allowed
        /\ proc'[q].empty = proc[q].empty \cup EmptyOnes(mem')
    BY <2>1, <2>2 DEF Calling
  <2> QED BY <1>2, <2>3 DEF SeenInv
<1> QED BY <1>1, <1>2

(* A step that leaves the variables alone and changes one call.            *)
LEMMA OneCallSeen ==
    ASSUME Typed, SeenInv, mem' = mem, NEW p \in Procs, NEW c, proc' = [proc EXCEPT ![p] = c],
           c.op = "idle" => c = Idle,
           c.op # "idle" => EmptyOnes(mem) \subseteq c.empty,
           c.todo # <<>> /\ c.allowed => Head(c.todo).name \in c.empty
    PROVE  SeenInv'
<1>1. EmptyOnes(mem)' = EmptyOnes(mem)
  BY DEF EmptyOnes
<1>2. ASSUME NEW q \in Procs PROVE proc'[q] = IF q = p THEN c ELSE proc[q]
  BY DEF Typed
<1> QED
  BY <1>1, <1>2 DEF SeenInv

LEMMA SeenStep ==
    ASSUME Typed, BootInv, SeenInv, [Next]_vars
    PROVE  SeenInv'
<1>1. CASE nvram_boot
  <2>1. booting # 0 /\ proc' = proc
    BY <1>1, TableFacts DEF nvram_boot
  <2>2. \A p \in Procs : proc'[p] = Idle
    BY <2>1 DEF BootInv
  <2> QED BY <2>2, EmptyTodo DEF SeenInv
<1>2. CASE BootDone \/ UNCHANGED vars
  BY <1>2 DEF BootDone, vars, SeenInv, EmptyOnes
<1>3. CASE Reboot
  <2>1. \A p \in Procs : proc'[p] = Idle
    BY <1>3 DEF Reboot
  <2> QED BY <2>1, EmptyTodo DEF SeenInv
<1>4. ASSUME NEW p \in Procs, nvram_fset(p) PROVE SeenInv'  BY <1>4, FsetSeen
<1>5. ASSUME NEW p \in Procs, Begin(p) PROVE SeenInv'
  <2>1. PICK op, todo, before :
          op # "idle" /\ proc' = [proc EXCEPT ![p] = Start(op, todo, before)]
    <3>1. CASE BeginSet(p)  BY <3>1 DEF BeginSet
    <3>2. CASE nvram_default(p)  BY <3>2 DEF nvram_default
    <3>3. CASE nvram_default_rule(p)  BY <3>3 DEF nvram_default_rule
    <3>4. CASE nvram_import(p)  BY <3>4 DEF nvram_import
    <3>5. CASE BeginExport(p)  BY <3>5 DEF BeginExport
    <3> QED BY <1>5, <3>1, <3>2, <3>3, <3>4, <3>5 DEF Begin
  <2> DEFINE c == Start(op, todo, before)
  <2>2. c.op = op /\ c.empty = EmptyOnes(mem) /\ c.allowed = FALSE
    BY StartSeen
  <2>3. mem' = mem
    BY <1>5 DEF Begin
  <2> HIDE DEF c
  <2>4. proc' = [proc EXCEPT ![p] = c]
    BY <2>1 DEF c
  <2> QED BY <2>1, <2>2, <2>3, <2>4, OneCallSeen
<1>6. ASSUME NEW p \in Procs, SetWrite(p) PROVE SeenInv'  BY <1>6, SetWriteSeen
<1>7. ASSUME NEW p \in Procs, SetCheck(p) PROVE SeenInv'
  <2> DEFINE w == Head(proc[p].todo)
             c == IF Skipped(proc[p], w) \/ HasValue(mem[w.name])
                  THEN NextWrite(proc[p]) ELSE [proc[p] EXCEPT !.allowed = TRUE]
  <2>1. proc[p] \in Calling /\ proc[p].todo # <<>> /\ w \in Writes /\ mem' = mem
    BY <1>7 DEF Typed, SetCheck, Writing, Calling
  <2>2. proc[p].op # "idle"
    BY <2>1, EmptyTodo DEF SeenInv
  <2>3. proc' = [proc EXCEPT ![p] = c]
    BY <1>7 DEF SetCheck, Current
  <2>4. CASE Skipped(proc[p], w) \/ HasValue(mem[w.name])
    <3>1. c = NextWrite(proc[p])
      BY <2>4
    <3> HIDE DEF c
    <3> QED BY <2>1, <2>2, <2>3, <3>1, NextWriteSeen, EmptyTodo, OneCallSeen DEF SeenInv
  <2>5. CASE ~ (Skipped(proc[p], w) \/ HasValue(mem[w.name]))
    <3>1. c = [proc[p] EXCEPT !.allowed = TRUE]
      BY <2>5
    <3>2. c.op = proc[p].op /\ c.todo = proc[p].todo /\ c.empty = proc[p].empty
      BY <2>1, <3>1 DEF Calling
    <3>3. w.name \in EmptyOnes(mem)
      BY <1>7, <2>1, <2>5 DEF SetCheck, Current, EmptyOnes, Writes
    <3>4. EmptyOnes(mem) \subseteq proc[p].empty
      BY <2>2 DEF SeenInv
    <3> HIDE DEF c
    <3> QED BY <2>1, <2>2, <2>3, <3>2, <3>3, <3>4, OneCallSeen
  <2> QED BY <2>4, <2>5
<1>8. ASSUME NEW p \in Procs, CommitDone(p) \/ ExportDone(p) PROVE SeenInv'
  BY <1>8, EmptyTodo, OneCallSeen DEF CommitDone, ExportDone
<1>11. ASSUME NEW p \in Procs, nvram_upgrade(p) PROVE SeenInv'
  <2> DEFINE c == proc'[p]
  <2>1. proc[p] \in Calling /\ mem' = mem /\ proc[p].op # "idle" /\ proc[p].todo = <<>>
    BY <1>11 DEF nvram_upgrade, SpecialRead, UpgradeCommit, Writing, Typed
  <2>2. c.op = proc[p].op /\ c.empty = proc[p].empty /\ (c.todo = <<>> \/ ~ c.allowed)
    <3>1. CASE SpecialRead(p)
      BY <2>1, <3>1 DEF SpecialRead, Typed, Calling
    <3>2. CASE UpgradeCommit(p)
      BY <2>1, <3>2 DEF UpgradeCommit, Typed, Calling
    <3> QED BY <1>11, <3>1, <3>2 DEF nvram_upgrade
  <2>3. proc' = [proc EXCEPT ![p] = c]
    BY <1>11, <2>1 DEF nvram_upgrade, SpecialRead, UpgradeCommit, Typed
  <2> HIDE DEF c
  <2> QED BY <2>1, <2>2, <2>3, OneCallSeen DEF SeenInv
<1>9. ASSUME NEW p \in Procs, nvram_commit(p) PROVE SeenInv'
  BY <1>9 DEF nvram_commit, SeenInv, EmptyOnes
<1>10. ASSUME NEW p \in Procs, nvram_export(p) PROVE SeenInv'
  <2> DEFINE c == proc'[p]
  <2>1. proc[p] \in Calling /\ mem' = mem /\ proc[p].op # "idle"
    BY <1>10 DEF nvram_export, Typed
  <2>2. /\ c.op = proc[p].op /\ c.todo = proc[p].todo /\ c.empty = proc[p].empty
        /\ c.allowed = proc[p].allowed
    BY <1>10, <2>1 DEF nvram_export, Typed, Calling
  <2>3. proc' = [proc EXCEPT ![p] = c]
    BY <1>10, <2>1 DEF nvram_export, Typed
  <2> HIDE DEF c
  <2> QED BY <2>1, <2>2, <2>3, OneCallSeen DEF SeenInv
<1> QED
  BY <1>1, <1>2, <1>3, <1>4, <1>5, <1>6, <1>7, <1>8, <1>9, <1>10, <1>11 DEF Next, nvram_set

(* A protected variable keeps the value it has through every reset,        *)
(* restore and write of any number of processes, except for the race that  *)
(* nvram_set leaves open between its check and its write.                  *)
THEOREM ProtectedCorrect == Spec => ProtectedKept
<1> DEFINE Kept(n) ==
      HasValue(mem[n]) /\ mem'[n] # mem[n] =>
          \/ reboots' > reboots
          \/ \E p \in Procs : nvram_fset(p)
          \/ \E p \in Procs : proc'[p] # proc[p] /\ n \in proc[p].empty
<1>1. Init => BootInv /\ SeenInv
  <2> SUFFICES ASSUME Init PROVE BootInv /\ SeenInv
    OBVIOUS
  <2>1. booting = 1 /\ mem = flash /\ \A p \in Procs : proc[p] = Idle
    BY DEF Init
  <2>2. BootInv
    BY <2>1, BootInit
  <2> QED BY <2>1, <2>2, EmptyTodo DEF SeenInv
<1>2. Typed /\ BootInv /\ SeenInv /\ [Next]_vars => BootInv' /\ SeenInv'
  BY BootInvStep, SeenStep
<1>3. Typed /\ SeenInv /\ [Next]_vars => [\A n \in Protected : Kept(n)]_vars
  <2> SUFFICES ASSUME Typed, SeenInv, Next, NEW n \in Protected,
                      HasValue(mem[n]), mem'[n] # mem[n]
               PROVE  \/ reboots' > reboots
                      \/ \E p \in Procs : nvram_fset(p)
                      \/ \E p \in Procs : proc'[p] # proc[p] /\ n \in proc[p].empty
    BY DEF vars
  <2>0. n \in Names
    BY ProtectedNames
  <2>1. CASE nvram_boot
    <3>1. booting \in 1 .. Last
      BY <2>1 DEF nvram_boot
    <3>2. n = Table[booting].name /\ Has(booting, "TEMP")
      BY <2>0, <2>1, <3>1, TableFacts DEF nvram_boot, Typed, Images
    <3>3. PICK i \in 1 .. Last : Table[i].name = n /\ Has(i, "PROTECTED")
      BY ProtectedNames
    <3>4. i = booting
      BY <3>1, <3>2, <3>3, Twins
    <3> QED BY <3>2, <3>3, <3>4, TableAssumption
  <2>2. CASE Reboot  BY <2>2 DEF Reboot, Typed
  <2>3. ASSUME NEW p \in Procs, SetWrite(p)
        PROVE  proc'[p] # proc[p] /\ n \in proc[p].empty
    <3> DEFINE w == Head(proc[p].todo)
    <3>1. proc[p] \in Calling /\ proc[p].todo # <<>>
      BY <2>3 DEF Typed, SetWrite, Writing
    <3>2. n = w.name
      BY <2>0, <2>3 DEF SetWrite, Current, Typed, Images
    <3>3. proc[p].allowed = TRUE /\ n \in proc[p].empty
      BY <2>3, <3>1, <3>2 DEF SetWrite, Current, SeenInv, Calling
    <3>4. proc'[p] = NextWrite(proc[p])
      BY <2>3 DEF SetWrite, Disturbed
    <3>5. ~ NextWrite(proc[p]).allowed
      BY <3>1, NextWriteSeen, EmptyTodo
    <3> QED BY <3>3, <3>4, <3>5
  <2>4. ASSUME NEW p \in Procs,
               Begin(p) \/ SetCheck(p) \/ nvram_upgrade(p) \/ CommitDone(p)
                 \/ nvram_commit(p) \/ nvram_export(p) \/ ExportDone(p)
        PROVE  FALSE
    BY <2>4 DEF Begin, SetCheck, nvram_upgrade, SpecialRead, UpgradeCommit, CommitDone,
                nvram_commit, nvram_export, ExportDone
  <2>5. CASE BootDone  BY <2>5 DEF BootDone
  <2> QED BY <2>1, <2>2, <2>3, <2>4, <2>5 DEF Next, nvram_set
<1> QED
  BY <1>1, <1>2, <1>3, TypedAlways, PTL DEF Spec, ProtectedKept
-----------------------------------------------------------------------------
(* What a factory reset that nobody disturbs makes of entry i.             *)
Factory(i, img) ==
    IF Has(i, "PROTECTED") /\ HasValue(img[Table[i].name]) THEN img[Table[i].name]
    ELSE Table[i].value

(* Entry i is the only one of its name from the k-th to the l-th.          *)
Only(i, k, l) == \A j \in k .. l : Table[j].name = Table[i].name => j = i

(* A reset, when the variables are m: the writes it still has to do are    *)
(* those of the entries after the k-th.  A variable has the value of its   *)
(* last entry up to the k-th, or what it had before if it has none there.  *)
Resetting(c, m) ==
    LET k == Last - Len(c.todo)
    IN  /\ Len(c.todo) <= Last /\ c.before \in Images
        /\ \A j \in 1 .. Len(c.todo) :
             c.todo[j] = [name |-> Table[k + j].name, val |-> Table[k + j].value]
        /\ \A i \in 1 .. Last :
             /\ i <= k /\ Only(i, i, k) => m[Table[i].name] = Factory(i, c.before)
             /\ i > k /\ Only(i, 1, k) => m[Table[i].name] = c.before[Table[i].name]
        /\ c.allowed /\ c.todo # <<>> => ~ HasValue(m[Head(c.todo).name])

(* No line of a variable that has a value in img has another than in want. *)
Faithful(lines, img, want) ==
    \A j \in 1 .. Len(lines), i \in 1 .. Last :
        lines[j].name = Table[i].name /\ HasValue(img[Table[i].name])
            => lines[j].val = want[Table[i].name]

Listed(lines, i) == \E j \in 1 .. Len(lines) : lines[j].name = Table[i].name

(* What a restore of the variables img brings back: all as they were, but  *)
(* rewritten where special_processing has come to.                         *)
Wanted(img, step) ==
    [n \in Names |-> IF \E k \in 1 .. Len(Specials) : k < step /\ Specials[k] = n
                     THEN Rewritten[n][img[n]] ELSE img[n]]

(* A restore: what is not as it is to be is still to be written.           *)
Restoring(c, m) ==
    /\ Suffixed \/ c.entry = 1
    /\ Faithful(c.todo, c.before, Wanted(c.before, c.entry))
    /\ \A i \in 1 .. Last :
         Exported(i) /\ HasValue(c.before[Table[i].name]) =>
             \/ m[Table[i].name] = Wanted(c.before, c.entry)[Table[i].name]
             \/ Listed(c.todo, i)

(* A backup: a line for every entry it has passed.                         *)
Exporting(c, m) ==
    /\ c.todo = <<>> /\ c.before = m /\ Faithful(c.lines, c.before, c.before)
    /\ \A i \in 1 .. Last : Exported(i) /\ i < c.entry => Listed(c.lines, i)

(* How far a call that nobody has disturbed has come.                      *)
Progress(c, m) ==
    c.alone => /\ c.op = "reset" => Resetting(c, m)
               /\ c.op = "restore" /\ c.before # None => Restoring(c, m)
               /\ c.op = "export" => Exporting(c, m)

CallsInv == \A p \in Procs : Progress(proc[p], mem)

BackupInv ==
    taken # None =>
        Faithful(file, taken, taken) /\ \A i \in 1 .. Last : Exported(i) => Listed(file, i)

LastStep == IF Suffixed THEN Len(Specials) + 1 ELSE 1

ExpectInv ==
    /\ expect.op = "reset" =>
         \A i \in Lasts : flash[Table[i].name] = Factory(i, expect.before)
    /\ expect.op = "restore" /\ expect.before # None =>
         \A i \in 1 .. Last :
             Exported(i) /\ HasValue(expect.before[Table[i].name]) =>
                 flash[Table[i].name] = Wanted(expect.before, LastStep)[Table[i].name]

CompleteInv == BootInv /\ SeenInv /\ CallsInv /\ BackupInv /\ ExpectInv

-----------------------------------------------------------------------------
(* What Head and Tail are to the positions of a sequence.                  *)
LEMMA TailFacts ==
    ASSUME NEW S, NEW s \in Seq(S), s # <<>>
    PROVE  /\ Len(s) \in Nat /\ Len(s) >= 1 /\ Head(s) = s[1]
           /\ Tail(s) \in Seq(S) /\ Len(Tail(s)) = Len(s) - 1
           /\ \A j \in 1 .. Len(s) - 1 : Tail(s)[j] = s[j + 1]
OBVIOUS

LEMMA ProtectedEntry ==
    ASSUME NEW i \in 1 .. Last
    PROVE  Table[i].name \in Protected <=> Has(i, "PROTECTED")
<1>1. ASSUME Table[i].name \in Protected PROVE Has(i, "PROTECTED")
  <2>1. PICK j \in 1 .. Last : Table[j].name = Table[i].name /\ Has(j, "PROTECTED")
    BY <1>1, ProtectedNames
  <2> QED BY <2>1, Twins
<1> QED BY <1>1, ProtectedNames

(* Options belong to the variable: all its entries have the same.          *)
LEMMA ExportedEntry ==
    ASSUME NEW i \in 1 .. Last
    PROVE  Table[i].name \in ExportedNames <=> Exported(i)
<1>1. ASSUME Table[i].name \in ExportedNames PROVE Exported(i)
  <2>1. PICK j \in 1 .. Last : Table[j].name = Table[i].name /\ Exported(j)
    BY <1>1 DEF ExportedNames
  <2> QED BY <2>1, Twins DEF Exported
<1> QED BY <1>1 DEF ExportedNames

LEMMA NextIndex ==
    ASSUME NEW n \in Nat, NEW k \in Nat, NEW j \in 1 .. n - 1
    PROVE  j + 1 \in 1 .. n /\ k + (j + 1) = k + 1 + j
OBVIOUS

LEMMA NextPlace ==
    ASSUME NEW n \in Nat, NEW k \in Nat, 1 <= k, k <= n
    PROVE  (n - k) + 1 \in 1 .. n /\ (n - k) + 1 <= n /\ n - k \in Nat
OBVIOUS

(* One write of a reset is done, or left out because the variable is       *)
(* protected and has a value.                                              *)
LEMMA ResetWrite ==
    ASSUME NEW c \in Calling, NEW m \in Images, Resetting(c, m), c.todo # <<>>,
           NEW d, d.todo = Tail(c.todo), d.before = c.before, ~ d.allowed,
           NEW m2 \in Images,
           \/ /\ c.allowed \/ Head(c.todo).name \notin Protected
              /\ m2 = [m EXCEPT ![Head(c.todo).name] = Head(c.todo).val]
           \/ /\ Head(c.todo).name \in Protected /\ HasValue(m[Head(c.todo).name])
              /\ m2 = m
    PROVE  Resetting(d, m2)
<1> DEFINE w == Head(c.todo)
           k == Last - Len(c.todo)
<1>1. /\ c.todo \in Seq(Writes) /\ Len(c.todo) \in Nat /\ Len(c.todo) >= 1 /\ w = c.todo[1]
      /\ Len(Tail(c.todo)) = Len(c.todo) - 1
      /\ \A j \in 1 .. Len(c.todo) - 1 : Tail(c.todo)[j] = c.todo[j + 1]
  BY TailFacts DEF Calling
<1>2. Last \in Nat /\ Len(c.todo) <= Last /\ c.before \in Images
  BY TableFacts DEF Resetting
<1>3. k + 1 \in 1 .. Last /\ k + 1 <= Last /\ k \in Nat
  BY <1>1, <1>2, NextPlace
<1>4. w.name = Table[k + 1].name /\ w.val = Table[k + 1].value
  <2>1. 1 \in 1 .. Len(c.todo)
    BY <1>1
  <2>2. c.todo[1] = [name |-> Table[k + 1].name, val |-> Table[k + 1].value]
    BY <2>1 DEF Resetting
  <2> QED BY <1>1, <2>2
<1>5. Has(k + 1, "PROTECTED") => m[w.name] = c.before[w.name]
  <2> SUFFICES ASSUME Has(k + 1, "PROTECTED") PROVE m[w.name] = c.before[w.name]
    OBVIOUS
  <2>1. \A j \in 1 .. Last : Table[j].name = Table[k + 1].name => j = k + 1
    BY <1>3, Twins
  <2>2. Only(k + 1, 1, k)
    BY <1>2, <1>3, <2>1 DEF Only
  <2>3. k + 1 > k
    BY <1>3
  <2>4. m[Table[k + 1].name] = c.before[Table[k + 1].name]
    BY <1>3, <2>2, <2>3 DEF Resetting
  <2> QED BY <1>4, <2>4
<1>6. c.allowed => ~ HasValue(m[w.name])
  BY DEF Resetting
<1>7. w.name \in Protected <=> Has(k + 1, "PROTECTED")
  BY <1>3, <1>4, ProtectedEntry
<1>8. w.name \in Names
  BY <1>3, <1>4, TableFacts
<1>9. m2[w.name] = Factory(k + 1, c.before)
  BY <1>4, <1>5, <1>6, <1>7, <1>8 DEF Factory, Images
<1>10. \A n \in Names : n # w.name => m2[n] = m[n]
  BY <1>8 DEF Images
<1>11. ASSUME NEW i \in 1 .. Last
       PROVE  /\ i <= k + 1 /\ Only(i, i, k + 1) => m2[Table[i].name] = Factory(i, c.before)
              /\ i > k + 1 /\ Only(i, 1, k + 1) => m2[Table[i].name] = c.before[Table[i].name]
  <2>1. CASE i = k + 1  BY <1>4, <1>9, <2>1, <1>3
  <2>2. CASE i # k + 1 /\ Table[i].name = w.name
    <3>1. i <= k + 1 => k + 1 \in i .. k + 1
      BY <1>3
    <3>2. i > k + 1 => k + 1 \in 1 .. k + 1
      BY <1>3
    <3> QED BY <1>4, <2>2, <3>1, <3>2 DEF Only
  <2>3. CASE i # k + 1 /\ Table[i].name # w.name
    <3>1. m2[Table[i].name] = m[Table[i].name]
      BY <1>10, <2>3, TableFacts
    <3>2. i <= k + 1 => i <= k
      BY <1>3, <2>3
    <3>3. i > k + 1 => i > k
      BY <1>3
    <3>4. Only(i, i, k + 1) => Only(i, i, k)
      BY <1>3 DEF Only
    <3>5. Only(i, 1, k + 1) => Only(i, 1, k)
      BY <1>3 DEF Only
    <3> QED BY <3>1, <3>2, <3>3, <3>4, <3>5 DEF Resetting
  <2> QED BY <2>1, <2>2, <2>3
<1>12. ASSUME NEW j \in 1 .. Len(c.todo) - 1
       PROVE  Tail(c.todo)[j] = [name |-> Table[k + 1 + j].name, val |-> Table[k + 1 + j].value]
  <2>1. j + 1 \in 1 .. Len(c.todo) /\ k + (j + 1) = k + 1 + j
    <3> HIDE DEF k
    <3> QED BY <1>1, <1>3, NextIndex
  <2>2. c.todo[j + 1] = [name |-> Table[k + (j + 1)].name, val |-> Table[k + (j + 1)].value]
    BY <2>1 DEF Resetting
  <2> QED BY <1>1, <2>1, <2>2
<1>13. Last - (Len(c.todo) - 1) = k + 1 /\ Len(c.todo) - 1 <= Last
  BY <1>1, <1>2
<1>14. Len(d.todo) = Len(c.todo) - 1 /\ Last - Len(d.todo) = k + 1
  BY <1>1, <1>13
<1> HIDE DEF k
<1>15. \A j \in 1 .. Len(d.todo) :
         d.todo[j] = [name |-> Table[k + 1 + j].name, val |-> Table[k + 1 + j].value]
  BY <1>12, <1>14
<1> DEFINE k2 == Last - Len(d.todo)
<1>16. k2 = k + 1
  BY <1>14
<1> HIDE DEF k2
<1>17. /\ \A j \in 1 .. Len(d.todo) :
            d.todo[j] = [name |-> Table[k2 + j].name, val |-> Table[k2 + j].value]
       /\ \A i \in 1 .. Last :
            /\ i <= k2 /\ Only(i, i, k2) => m2[Table[i].name] = Factory(i, d.before)
            /\ i > k2 /\ Only(i, 1, k2) => m2[Table[i].name] = d.before[Table[i].name]
  BY <1>11, <1>15, <1>16
<1>18. Len(d.todo) <= Last /\ d.before \in Images
  BY <1>2, <1>13, <1>14
<1> QED
  BY <1>17, <1>18 DEF Resetting, k2

(* One line of a restore is written, or skipped.                           *)
LEMMA RestoreWrite ==
    ASSUME NEW c \in Calling, NEW m \in Images, Restoring(c, m), c.todo # <<>>,
           NEW d, d.todo = Tail(c.todo), d.before = c.before, d.entry = c.entry,
           NEW m2 \in Images,
           \/ m2 = [m EXCEPT ![Head(c.todo).name] = Head(c.todo).val]
           \/ /\ \A i \in 1 .. Last : Table[i].name = Head(c.todo).name => ~ Exported(i)
              /\ m2 = m
    PROVE  Restoring(d, m2)
<1> DEFINE w == Head(c.todo)
           want == Wanted(c.before, c.entry)
<1>1. /\ c.todo \in Seq(Writes) /\ Len(c.todo) \in Nat /\ Len(c.todo) >= 1 /\ w = c.todo[1]
      /\ Len(Tail(c.todo)) = Len(c.todo) - 1
      /\ \A j \in 1 .. Len(c.todo) - 1 : Tail(c.todo)[j] = c.todo[j + 1]
  BY TailFacts DEF Calling
<1>2. Faithful(c.todo, c.before, want)
  BY DEF Restoring
<1> HIDE DEF want
<1>3. Faithful(Tail(c.todo), c.before, want)
  <2> SUFFICES ASSUME NEW j \in 1 .. Len(c.todo) - 1, NEW i \in 1 .. Last,
                      Tail(c.todo)[j].name = Table[i].name, HasValue(c.before[Table[i].name])
               PROVE  Tail(c.todo)[j].val = want[Table[i].name]
    BY <1>1 DEF Faithful
  <2>1. j + 1 \in 1 .. Len(c.todo) /\ Tail(c.todo)[j] = c.todo[j + 1]
    BY <1>1
  <2> QED BY <1>2, <2>1 DEF Faithful
<1>4. ASSUME NEW i \in 1 .. Last, Exported(i), HasValue(c.before[Table[i].name])
      PROVE  m2[Table[i].name] = want[Table[i].name] \/ Listed(Tail(c.todo), i)
  <2>1. Table[i].name \in Names
    BY TableFacts
  <2>2. CASE Table[i].name = w.name
    <3>1. w.val = want[Table[i].name]
      BY <1>1, <1>2, <1>4, <2>2 DEF Faithful
    <3> QED BY <1>4, <2>1, <2>2, <3>1 DEF Images
  <2>3. CASE Table[i].name # w.name
    <3>1. m2[Table[i].name] = m[Table[i].name]
      BY <2>1, <2>3 DEF Images
    <3>2. m[Table[i].name] = want[Table[i].name] \/ Listed(c.todo, i)
      BY <1>4 DEF Restoring, want
    <3>3. ASSUME Listed(c.todo, i) PROVE Listed(Tail(c.todo), i)
      <4>1. PICK j \in 1 .. Len(c.todo) : c.todo[j].name = Table[i].name
        BY <3>3 DEF Listed
      <4>2. j # 1
        BY <1>1, <2>3, <4>1
      <4>3. j - 1 \in 1 .. Len(c.todo) - 1 /\ (j - 1) + 1 = j
        BY <1>1, <4>2
      <4>4. Tail(c.todo)[j - 1].name = Table[i].name
        BY <1>1, <4>1, <4>3
      <4> QED BY <1>1, <4>3, <4>4 DEF Listed
    <3> QED BY <3>1, <3>2, <3>3
  <2> QED BY <2>2, <2>3
<1> QED
  BY <1>3, <1>4 DEF Restoring, want

(* One line of a backup.                                                   *)
LEMMA ExportLine ==
    ASSUME NEW c \in Calling, NEW m \in Images, Exporting(c, m), c.entry <= Last,
           NEW line, line.name = Table[c.entry].name,
           line.val = IF m[line.name] = Unset THEN Empty ELSE m[line.name], line \in Writes,
           NEW d, d.todo = c.todo, d.before = c.before, d.entry = c.entry + 1,
           d.lines = IF Exported(c.entry) THEN Append(c.lines, line) ELSE c.lines
    PROVE  Exporting(d, m)
<1>1. c.entry \in 1 .. Last /\ Last \in Nat /\ c.lines \in Seq(Writes) /\ Len(c.lines) \in Nat
  BY TableFacts DEF Calling
<1>2. c.todo = <<>> /\ c.before = m /\ Faithful(c.lines, m, m)
  BY DEF Exporting
<1>3. ASSUME NEW i \in 1 .. Last, Exported(i), i < c.entry PROVE Listed(c.lines, i)
  BY <1>3 DEF Exporting
<1>4. CASE ~ Exported(c.entry)
  <2>1. ASSUME NEW i \in 1 .. Last, Exported(i), i < c.entry + 1 PROVE i < c.entry
    BY <1>1, <1>4, <2>1
  <2> QED BY <1>2, <1>3, <1>4, <2>1 DEF Exporting
<1>5. CASE Exported(c.entry)
  <2> DEFINE L == Append(c.lines, line)
  <2>1. /\ Len(L) = Len(c.lines) + 1 /\ L[Len(c.lines) + 1] = line
        /\ \A j \in 1 .. Len(c.lines) : L[j] = c.lines[j]
    BY <1>1
  <2> HIDE DEF L
  <2>2. ASSUME NEW i \in 1 .. Last, Exported(i), i < c.entry + 1 PROVE Listed(L, i)
    <3>1. CASE i = c.entry
      <4>1. Len(c.lines) + 1 \in 1 .. Len(L)
        BY <1>1, <2>1
      <4> QED BY <2>1, <3>1, <4>1 DEF Listed
    <3>2. CASE i # c.entry
      <4>1. i < c.entry
        BY <1>1, <2>2, <3>2
      <4>2. PICK j \in 1 .. Len(c.lines) : c.lines[j].name = Table[i].name
        BY <1>3, <2>2, <4>1 DEF Listed
      <4>3. j \in 1 .. Len(L) /\ L[j] = c.lines[j]
        BY <1>1, <2>1
      <4> QED BY <4>2, <4>3 DEF Listed
    <3> QED BY <3>1, <3>2
  <2>3. ASSUME NEW j \in 1 .. Len(L), NEW i \in 1 .. Last,
               L[j].name = Table[i].name, HasValue(m[Table[i].name])
        PROVE  L[j].val = m[Table[i].name]
    <3>1. CASE j \in 1 .. Len(c.lines)
      <4>1. L[j] = c.lines[j]
        BY <2>1, <3>1
      <4>2. \A y \in 1 .. Last : c.lines[j].name = Table[y].name /\ HasValue(m[Table[y].name]) =>
                                 c.lines[j].val = m[Table[y].name]
        BY <1>2, <3>1 DEF Faithful
      <4> QED BY <2>3, <4>1, <4>2
    <3>2. CASE j \notin 1 .. Len(c.lines)
      <4>1. j = Len(c.lines) + 1
        BY <1>1, <2>1, <3>2
      <4>2. L[j] = line
        BY <2>1, <4>1
      <4>3. m[line.name] # Unset
        BY <2>3, <4>2, TableAssumption DEF HasValue
      <4> QED BY <2>3, <4>2, <4>3
    <3> QED BY <3>1, <3>2
  <2>4. d.lines = L
    BY <1>5 DEF L
  <2>5. Faithful(L, m, m)
    BY <2>3 DEF Faithful
  <2> QED BY <1>2, <2>2, <2>4, <2>5 DEF Exporting
<1> QED
  BY <1>4, <1>5

-----------------------------------------------------------------------------
LEMMA NotAlone == ASSUME NEW c, NEW m, ~ c.alone PROVE Progress(c, m)
BY DEF Progress

LEMMA IdleProgress == ASSUME NEW m PROVE Progress(Idle, m)
BY NotAlone DEF Idle

(* A step that leaves the variables alone and changes one call.            *)
LEMMA OneCallProgress ==
    ASSUME Typed, CallsInv, mem' = mem, NEW p \in Procs, NEW c,
           proc' = [proc EXCEPT ![p] = c], Progress(c, mem)
    PROVE  CallsInv'
<1>1. ASSUME NEW q \in Procs PROVE Progress(proc'[q], mem)
  <2>1. proc'[q] = IF q = p THEN c ELSE proc[q]
    BY DEF Typed
  <2> QED BY <2>1 DEF CallsInv
<1> QED
  BY <1>1 DEF CallsInv

(* After a write no other call is alone.                                   *)
LEMMA DisturbedProgress ==
    ASSUME Typed, NEW p \in Procs, NEW after, proc' = Disturbed(p, after),
           Progress(after, mem')
    PROVE  CallsInv'
<1>1. ASSUME NEW q \in Procs PROVE Progress(proc'[q], mem')
  <2>1. CASE q = p
    <3>1. proc'[q] = after
      BY <2>1 DEF Disturbed
    <3> QED BY <3>1
  <2>2. CASE q # p /\ proc[q].op = "idle"
    <3>1. proc'[q] = Idle
      BY <2>2 DEF Disturbed
    <3> QED BY <3>1, IdleProgress
  <2>3. CASE q # p /\ proc[q].op # "idle"
    <3>1. proc'[q] = [proc[q] EXCEPT !.alone = FALSE, !.empty = @ \cup EmptyOnes(mem')]
      BY <2>3 DEF Disturbed
    <3>2. proc[q] \in Calling
      BY DEF Typed
    <3>3. ~ proc'[q].alone
      BY <3>1, <3>2 DEF Calling
    <3> QED BY <3>3, NotAlone
  <2> QED BY <2>1, <2>2, <2>3
<1> QED
  BY <1>1 DEF CallsInv

(* Every call starts with everything still to do.                          *)
LEMMA BeginProgress ==
    ASSUME Typed, CallsInv, BackupInv, NEW p \in Procs, Begin(p)
    PROVE  CallsInv'
<1>0. mem' = mem
  BY DEF Begin
<1>1. ASSUME NEW todo, NEW before, proc' = [proc EXCEPT ![p] = Start("set", todo, before)]
      PROVE  CallsInv'
  <2>1. Progress(Start("set", todo, before), mem)
    BY DEF Progress, Start, Idle
  <2> QED BY <1>0, <1>1, <2>1, OneCallProgress
<1>2. CASE nvram_default(p)
  <2> DEFINE all == [i \in 1 .. Last |-> [name |-> Table[i].name, val |-> Table[i].value]]
             c == Start("reset", all, mem)
  <2>1. Last \in Nat /\ Len(all) = Last
    BY TableFacts
  <2>2. \A j \in 1 .. Last : all[j] = [name |-> Table[j].name, val |-> Table[j].value]
    OBVIOUS
  <2> HIDE DEF all
  <2>3. c.op = "reset" /\ c.todo = all /\ c.before = mem /\ c.allowed = FALSE
    BY DEF Start, Idle
  <2> HIDE DEF c
  <2>4. Last - Last = 0 /\ Last <= Last /\ \A j \in 1 .. Last : 0 + j = j /\ ~ (j <= 0)
    BY <2>1
  <2>5. \A j \in 1 .. Last : all[j] = [name |-> Table[0 + j].name, val |-> Table[0 + j].value]
    BY <2>2, <2>4
  <2>6. Resetting(c, mem)
    BY <2>1, <2>3, <2>4, <2>5 DEF Resetting, Typed
  <2>7. Progress(c, mem)
    BY <2>3, <2>6 DEF Progress
  <2>8. proc' = [proc EXCEPT ![p] = c]
    BY <1>2 DEF nvram_default, all, c
  <2> QED BY <1>0, <2>7, <2>8, OneCallProgress
<1>3. CASE nvram_import(p)
  <2> DEFINE c == Start("restore", file, taken)
  <2>1. c.op = "restore" /\ c.todo = file /\ c.before = taken /\ c.entry = 1
    BY DEF Start, Idle
  <2>2. proc' = [proc EXCEPT ![p] = c]
    BY <1>3 DEF nvram_import
  <2> HIDE DEF c
  <2>3. \A i \in 1 .. Last : Wanted(taken, 1)[Table[i].name] = taken[Table[i].name]
    <3>1. \A k \in 1 .. Len(Specials) : ~ (k < 1)
      BY SpecialFacts
    <3> QED BY <3>1, TableFacts DEF Wanted
  <2>4. taken # None => Faithful(file, taken, Wanted(taken, 1))
    BY <2>3 DEF Faithful, BackupInv
  <2>5. Progress(c, mem)
    BY <2>1, <2>4 DEF Progress, Restoring, BackupInv
  <2> QED BY <1>0, <2>2, <2>5, OneCallProgress
<1>4. CASE BeginExport(p)
  <2> DEFINE c == Start("export", <<>>, mem)
  <2>1. /\ c.op = "export" /\ c.todo = <<>> /\ c.before = mem
        /\ c.entry = 1 /\ c.lines = <<>>
    BY DEF Start, Idle
  <2>2. proc' = [proc EXCEPT ![p] = c]
    BY <1>4 DEF BeginExport
  <2> HIDE DEF c
  <2>3. \A i \in 1 .. Last : ~ (i < 1)
    BY TableFacts
  <2>4. Faithful(<<>>, mem, mem)
    BY DEF Faithful
  <2>5. Progress(c, mem)
    BY <2>1, <2>3, <2>4 DEF Progress, Exporting
  <2> QED BY <1>0, <2>2, <2>5, OneCallProgress
<1>5. CASE BeginSet(p)  BY <1>1, <1>5 DEF BeginSet
<1>6. CASE nvram_default_rule(p)  BY <1>1, <1>6 DEF nvram_default_rule
<1> QED
  BY <1>2, <1>3, <1>4, <1>5, <1>6 DEF Begin

(* What NextWrite leaves of a call of several writes.                      *)
LEMMA NextWriteFields ==
    ASSUME NEW c \in Calling, c.op # "set"
    PROVE  LET d == NextWrite(c)
           IN  /\ d.op = c.op /\ d.todo = Tail(c.todo) /\ d.before = c.before
               /\ d.entry = c.entry /\ d.allowed = FALSE /\ d.alone = c.alone
BY DEF NextWrite, Calling

(* The two halves of nvram_set.                                            *)
LEMMA SetProgress ==
    ASSUME Typed, Typed', SeenInv, CallsInv, NEW p \in Procs, nvram_set(p)
    PROVE  CallsInv'
<1> DEFINE c == proc[p]
           w == Head(c.todo)
           d == NextWrite(c)
<1>1. c \in Calling /\ c.todo # <<>> /\ mem \in Images /\ mem' \in Images
  BY DEF nvram_set, SetCheck, SetWrite, Writing, Typed
<1>2. c.op # "idle" /\ Progress(c, mem)
  BY <1>1, EmptyTodo DEF SeenInv, CallsInv
<1>3. c.alone => c.op \in {"set", "reset", "restore"}
  BY <1>1, <1>2 DEF Progress, Exporting, Calling, Ops
<1>4. ASSUME \/ /\ c.allowed \/ ~ (w.name \in Protected \/ Skipped(c, w))
                /\ mem' = [mem EXCEPT ![w.name] = w.val]
             \/ /\ w.name \in Protected \/ Skipped(c, w)
                /\ Skipped(c, w) \/ HasValue(mem[w.name])
                /\ mem' = mem
      PROVE  Progress(d, mem')
  <2>1. CASE c.op = "set"
    BY <2>1, IdleProgress DEF NextWrite
  <2>2. CASE ~ c.alone /\ c.op # "set"
    <3>1. ~ d.alone
      BY <1>1, <2>2, NextWriteFields
    <3> QED BY <3>1, NotAlone
  <2>3. CASE c.alone /\ c.op = "reset"
    <3>1. d.op = "reset" /\ d.todo = Tail(c.todo) /\ d.before = c.before /\ d.allowed = FALSE
      BY <1>1, <2>3, NextWriteFields
    <3>2. Resetting(c, mem)
      BY <1>2, <2>3 DEF Progress
    <3>3. ~ Skipped(c, w)
      BY <2>3 DEF Skipped
    <3> HIDE DEF d
    <3>4. Resetting(d, mem')
      BY <1>1, <1>4, <3>1, <3>2, <3>3, ResetWrite
    <3> QED BY <3>1, <3>4 DEF Progress
  <2>4. CASE c.alone /\ c.op = "restore" /\ c.before # None
    <3>1. /\ d.op = "restore" /\ d.todo = Tail(c.todo) /\ d.before = c.before
          /\ d.entry = c.entry
      BY <1>1, <2>4, NextWriteFields
    <3>2. Restoring(c, mem)
      BY <1>2, <2>4 DEF Progress
    <3>3. w.name \in Protected \/ Skipped(c, w) =>
            \A i \in 1 .. Last : Table[i].name = w.name => ~ Exported(i)
      BY ProtectedEntry, ExportedEntry DEF Skipped, Exported
    <3> HIDE DEF d
    <3>4. Restoring(d, mem')
      BY <1>1, <1>4, <3>1, <3>2, <3>3, RestoreWrite
    <3> QED BY <3>1, <3>4 DEF Progress
  <2>5. CASE c.alone /\ c.op = "restore" /\ c.before = None
    <3>1. d.op = "restore" /\ d.before = None
      BY <1>1, <2>5, NextWriteFields
    <3> HIDE DEF d
    <3> QED BY <3>1 DEF Progress
  <2> HIDE DEF c, d
  <2> QED BY <1>3, <2>1, <2>2, <2>3, <2>4, <2>5
<1>5. CASE SetWrite(p)
  <2>1. proc' = Disturbed(p, d) /\ mem' = [mem EXCEPT ![w.name] = w.val]
    BY <1>5 DEF SetWrite, Current
  <2>2. c.allowed \/ ~ (w.name \in Protected \/ Skipped(c, w))
    BY <1>5 DEF SetWrite, Current
  <2>3. Progress(d, mem')
    BY <1>4, <2>1, <2>2
  <2> HIDE DEF d
  <2> QED BY <2>1, <2>3, DisturbedProgress
<1>6. CASE SetCheck(p)
  <2>1. /\ mem' = mem /\ (w.name \in Protected \/ Skipped(c, w))
        /\ proc' = [proc EXCEPT ![p] = IF Skipped(c, w) \/ HasValue(mem[w.name])
                                       THEN d ELSE [c EXCEPT !.allowed = TRUE]]
    BY <1>6 DEF SetCheck, Current, Typed
  <2>2. CASE Skipped(c, w) \/ HasValue(mem[w.name])
    <3>1. Progress(d, mem)
      BY <1>4, <2>1, <2>2
    <3>2. proc' = [proc EXCEPT ![p] = d]
      BY <2>1, <2>2
    <3> HIDE DEF d
    <3> QED BY <2>1, <3>1, <3>2, OneCallProgress
  <2>3. CASE ~ (Skipped(c, w) \/ HasValue(mem[w.name]))
    <3> DEFINE e == [c EXCEPT !.allowed = TRUE]
    <3>1. /\ e.op = c.op /\ e.todo = c.todo /\ e.before = c.before /\ e.alone = c.alone
          /\ e.entry = c.entry /\ e.lines = c.lines
      BY <1>1 DEF Calling
    <3>2. proc' = [proc EXCEPT ![p] = e]
      BY <2>1, <2>3
    <3>4. w = Head(c.todo)
      OBVIOUS
    <3> HIDE DEF e
    <3>3. Progress(e, mem)
      <4> HIDE DEF c, w
      <4>1. Resetting(c, mem) => Resetting(e, mem)
        BY <2>3, <3>1, <3>4 DEF Resetting
      <4>2. Restoring(c, mem) => Restoring(e, mem)
        BY <3>1 DEF Restoring
      <4>3. Exporting(c, mem) => Exporting(e, mem)
        BY <3>1 DEF Exporting
      <4> QED BY <1>2, <3>1, <4>1, <4>2, <4>3 DEF Progress
    <3> QED BY <2>1, <3>2, <3>3, OneCallProgress
  <2> QED BY <2>2, <2>3
<1> QED
  BY <1>5, <1>6 DEF nvram_set

(* One line of nvram_export.                                               *)
LEMMA ExportProgress ==
    ASSUME Typed, CallsInv, NEW p \in Procs, nvram_export(p)
    PROVE  CallsInv'
<1> DEFINE c == proc[p]
           i == c.entry
           line == [name |-> Table[i].name,
                    val |-> IF mem[Table[i].name] = Unset THEN Empty ELSE mem[Table[i].name]]
           d == [c EXCEPT !.entry = i + 1,
                          !.lines = IF Exported(i) THEN Append(c.lines, line) ELSE c.lines]
<1>1. c \in Calling /\ i \in 1 .. Last /\ i <= Last /\ c.op = "export" /\ mem' = mem
  BY TableFacts DEF Typed, Calling, nvram_export
<1>2. line \in Writes /\ line.name = Table[i].name
      /\ line.val = IF mem[line.name] = Unset THEN Empty ELSE mem[line.name]
  BY <1>1, TableFacts DEF Typed, Images, Contents, Writes
<1>3. proc' = [proc EXCEPT ![p] = d]
  BY <1>1 DEF nvram_export, Typed, Calling
<1> HIDE DEF line
<1>4. /\ d.op = c.op /\ d.todo = c.todo /\ d.before = c.before /\ d.alone = c.alone
      /\ d.entry = i + 1
      /\ d.lines = IF Exported(i) THEN Append(c.lines, line) ELSE c.lines
  BY <1>1 DEF Calling
<1>5. Progress(c, mem)
  BY DEF CallsInv
<1> HIDE DEF d
<1>6. c.alone => Exporting(d, mem)
  <2> SUFFICES ASSUME c.alone PROVE Exporting(d, mem)
    OBVIOUS
  <2>1. Exporting(c, mem)
    BY <1>1, <1>5 DEF Progress
  <2>2. mem \in Images
    BY DEF Typed
  <2> QED BY <1>1, <1>2, <1>4, <2>1, <2>2, ExportLine
<1>7. Progress(d, mem)
  BY <1>1, <1>4, <1>6 DEF Progress
<1> QED
  BY <1>1, <1>3, <1>7, OneCallProgress

(* special_processing rewrites one variable more, which so far is as it was *)
(* when the backup was made.                                                *)
LEMMA SpecialProgress ==
    ASSUME Typed, CallsInv, NEW p \in Procs, SpecialRead(p)
    PROVE  CallsInv'
<1> DEFINE c == proc[p]
           s == c.entry
           n == Specials[s]
           w == [name |-> n, val |-> Rewritten[n][mem[n]]]
           todo == IF w.val = mem[n] THEN <<>> ELSE <<w>>
           d == [c EXCEPT !.entry = s + 1, !.allowed = FALSE, !.todo = todo]
<1>1. /\ c \in Calling /\ c.op = "restore" /\ c.todo = <<>> /\ Suffixed /\ mem' = mem
      /\ s \in 1 .. Len(Specials) /\ n \in Names
  BY SpecialFacts DEF SpecialRead, Writing, Typed, Calling
<1>2. proc' = [proc EXCEPT ![p] = d]
  BY <1>1 DEF SpecialRead, Typed, Calling
<1>3. w.name = n /\ w.val = Rewritten[n][mem[n]]
  OBVIOUS
<1>w. /\ w.val = mem[n] => todo = <<>>
      /\ w.val # mem[n] => todo = <<w>>
  OBVIOUS
<1> HIDE DEF w, todo
<1>4. /\ d.op = "restore" /\ d.entry = s + 1 /\ d.todo = todo /\ d.before = c.before
      /\ d.alone = c.alone
  BY <1>1 DEF Calling
<1> HIDE DEF d
<1> DEFINE want == Wanted(c.before, s)
           next == Wanted(c.before, s + 1)
<1>5. \A k \in 1 .. Len(Specials) : (k < s + 1 <=> k < s \/ k = s) /\ (Specials[k] = n => k = s)
  BY <1>1, SpecialAssumption, SpecialFacts
<1>6. want[n] = c.before[n] /\ next[n] = Rewritten[n][c.before[n]]
  <2>1. ~ \E k \in 1 .. Len(Specials) : k < s /\ Specials[k] = n
    BY <1>1, <1>5, SpecialFacts
  <2>2. \E k \in 1 .. Len(Specials) : k < s + 1 /\ Specials[k] = n
    BY <1>1, <1>5
  <2> QED BY <1>1, <2>1, <2>2 DEF Wanted
<1>7. \A x \in Names : x # n => next[x] = want[x]
  <2> TAKE x \in Names
  <2> HAVE x # n
  <2>1. (\E k \in 1 .. Len(Specials) : k < s + 1 /\ Specials[k] = x)
          <=> (\E k \in 1 .. Len(Specials) : k < s /\ Specials[k] = x)
    BY <1>5
  <2> QED BY <2>1 DEF Wanted
<1> HIDE DEF want, next
<1>8. ASSUME Restoring(c, mem) PROVE Restoring(d, mem)
  <2>1. ASSUME NEW i \in 1 .. Last, Exported(i), HasValue(c.before[Table[i].name])
        PROVE  mem[Table[i].name] = want[Table[i].name]
    <3>1. ~ Listed(c.todo, i)
      BY <1>1 DEF Listed
    <3> QED BY <1>8, <2>1, <3>1 DEF Restoring, want
  <2>2. ASSUME NEW i \in 1 .. Last, Table[i].name = n, HasValue(c.before[n])
        PROVE  mem[n] = c.before[n] /\ w.val = next[n]
    <3>1. Exported(i)
      BY <1>1, <2>2, SpecialAssumption DEF Exported, Has
    <3> QED BY <1>3, <1>6, <2>1, <2>2, <3>1
  <2>3. Faithful(todo, c.before, next)
    <3>1. CASE w.val = mem[n]
      BY <1>w, <3>1 DEF Faithful
    <3>2. CASE w.val # mem[n]
      <4>1. todo = <<w>>
        BY <1>w, <3>2
      <4>2. Len(todo) = 1 /\ todo[1] = w
        BY <4>1
      <4>3. \A j \in 1 .. Len(todo) : todo[j] = w
        BY <4>2
      <4>4. ASSUME NEW i \in 1 .. Last, w.name = Table[i].name, HasValue(c.before[Table[i].name])
            PROVE  w.val = next[Table[i].name]
        BY <1>3, <2>2, <4>4
      <4> QED BY <4>3, <4>4 DEF Faithful
    <3> QED BY <3>1, <3>2
  <2>4. ASSUME NEW i \in 1 .. Last, Exported(i), HasValue(c.before[Table[i].name])
        PROVE  mem[Table[i].name] = next[Table[i].name] \/ Listed(todo, i)
    <3>1. CASE Table[i].name # n
      BY <1>7, <2>1, <2>4, <3>1, TableFacts
    <3>2. CASE Table[i].name = n /\ w.val = mem[n]
      BY <2>2, <2>4, <3>2
    <3>3. CASE Table[i].name = n /\ w.val # mem[n]
      <4>1. todo = <<w>>
        BY <1>w, <3>3
      <4>2. Len(todo) = 1 /\ todo[1] = w
        BY <4>1
      <4> QED BY <1>3, <3>3, <4>2 DEF Listed
    <3> QED BY <3>1, <3>2, <3>3
  <2> QED BY <1>1, <1>4, <2>3, <2>4 DEF Restoring, next
<1>9. Progress(d, mem)
  BY <1>1, <1>4, <1>8 DEF Progress, CallsInv
<1> QED
  BY <1>1, <1>2, <1>9, OneCallProgress

(* When all are rewritten a further step changes nothing.                  *)
LEMMA WantedAll ==
    ASSUME NEW img, NEW s \in 1 .. Steps, NEW t \in 1 .. Steps, s > Len(Specials), t > Len(Specials)
    PROVE  Wanted(img, s) = Wanted(img, t)
<1>1. \A k \in 1 .. Len(Specials) : k < s /\ k < t
  BY SpecialFacts
<1> QED BY <1>1 DEF Wanted

LEMMA UpgradeProgress ==
    ASSUME Typed, CallsInv, NEW p \in Procs, UpgradeCommit(p)
    PROVE  CallsInv'
<1> DEFINE c == proc[p]
           d == [c EXCEPT !.entry = c.entry + 1]
<1>1. /\ c \in Calling /\ c.op = "restore" /\ Suffixed /\ mem' = mem
      /\ c.entry \in {Len(Specials) + 1, Len(Specials) + 2}
  BY DEF UpgradeCommit, Typed
<1>2. proc' = [proc EXCEPT ![p] = d]
  BY <1>1 DEF UpgradeCommit, Typed, Calling
<1>3. /\ d.op = "restore" /\ d.entry = c.entry + 1 /\ d.todo = c.todo /\ d.before = c.before
      /\ d.alone = c.alone
  BY <1>1 DEF Calling
<1> HIDE DEF d
<1>4. /\ c.entry \in 1 .. Steps /\ d.entry \in 1 .. Steps
      /\ c.entry > Len(Specials) /\ d.entry > Len(Specials)
  BY <1>1, <1>3, SpecialFacts
<1>5. Wanted(c.before, d.entry) = Wanted(c.before, c.entry)
  BY <1>4, WantedAll
<1>6. Restoring(c, mem) => Restoring(d, mem)
  BY <1>1, <1>3, <1>5 DEF Restoring
<1>7. Progress(d, mem)
  BY <1>1, <1>3, <1>6 DEF Progress, CallsInv
<1> QED
  BY <1>1, <1>2, <1>7, OneCallProgress

LEMMA CallsStep ==
    ASSUME Typed, Typed', BootInv, SeenInv, CallsInv, BackupInv, [Next]_vars
    PROVE  CallsInv'
<1>1. CASE nvram_boot
  <2>1. booting # 0 /\ proc' = proc
    BY <1>1, TableFacts DEF nvram_boot
  <2>2. \A p \in Procs : proc'[p] = Idle
    BY <2>1 DEF BootInv
  <2> QED BY <2>2, IdleProgress DEF CallsInv
<1>2. CASE BootDone \/ UNCHANGED vars
  BY <1>2 DEF BootDone, vars, CallsInv
<1>3. CASE Reboot
  <2>1. \A p \in Procs : proc'[p] = Idle
    BY <1>3 DEF Reboot
  <2> QED BY <2>1, IdleProgress DEF CallsInv
<1>4. ASSUME NEW p \in Procs, nvram_fset(p) PROVE CallsInv'
  BY <1>4, IdleProgress, DisturbedProgress DEF nvram_fset
<1>5. ASSUME NEW p \in Procs, Begin(p) PROVE CallsInv'  BY <1>5, BeginProgress
<1>6. ASSUME NEW p \in Procs, nvram_set(p) PROVE CallsInv'  BY <1>6, SetProgress
<1>7. ASSUME NEW p \in Procs, CommitDone(p) \/ ExportDone(p) PROVE CallsInv'
  BY <1>7, IdleProgress, OneCallProgress DEF CommitDone, ExportDone
<1>8. ASSUME NEW p \in Procs, nvram_commit(p) PROVE CallsInv'
  BY <1>8 DEF nvram_commit, CallsInv
<1>9. ASSUME NEW p \in Procs, nvram_export(p) PROVE CallsInv'  BY <1>9, ExportProgress
<1>10. ASSUME NEW p \in Procs, nvram_upgrade(p) PROVE CallsInv'
  BY <1>10, SpecialProgress, UpgradeProgress DEF nvram_upgrade
<1> QED
  BY <1>1, <1>2, <1>3, <1>4, <1>5, <1>6, <1>7, <1>8, <1>9, <1>10 DEF Next

(* The backup file is written when an entry of the whole table has been    *)
(* passed.                                                                 *)
LEMMA BackupStep ==
    ASSUME Typed, CallsInv, BackupInv, [Next]_vars
    PROVE  BackupInv'
<1>1. ASSUME NEW p \in Procs, ExportDone(p) PROVE BackupInv'
  <2> DEFINE c == proc[p]
  <2>1. /\ c \in Calling /\ c.op = "export" /\ c.entry > Last /\ file' = c.lines
        /\ taken' = IF c.alone THEN c.before ELSE None
    BY <1>1 DEF ExportDone, Typed
  <2>2. CASE c.alone
    <3>1. Exporting(c, mem)
      BY <2>1, <2>2 DEF CallsInv, Progress
    <3>2. \A i \in 1 .. Last : i < c.entry
      BY <2>1, TableFacts DEF Calling
    <3>3. Faithful(c.lines, c.before, c.before) /\ \A i \in 1 .. Last : Exported(i) => Listed(c.lines, i)
      BY <3>1, <3>2 DEF Exporting
    <3>4. file' = c.lines /\ taken' = c.before
      BY <2>1, <2>2
    <3> QED BY <3>3, <3>4 DEF BackupInv
  <2>3. CASE ~ c.alone
    BY <2>1, <2>3 DEF BackupInv
  <2> QED BY <2>2, <2>3
<1>2. CASE UNCHANGED <<file, taken>>
  BY <1>2 DEF BackupInv
<1> QED
  BY <1>1, <1>2 DEF Next, vars, nvram_boot, BootDone, Reboot, nvram_fset, Begin, nvram_set,
                    SetCheck, SetWrite, nvram_upgrade, SpecialRead, UpgradeCommit,
                    CommitDone, nvram_commit, nvram_export

(* The commit that ends a reset or a restore stores what it was to make,   *)
(* and a later one that changes the flash takes the promise back.          *)
LEMMA ExpectStep ==
    ASSUME Typed, CallsInv, ExpectInv, [Next]_vars
    PROVE  ExpectInv'
<1>1. ASSUME NEW p \in Procs, CommitDone(p) PROVE ExpectInv'
  <2> DEFINE c == proc[p]
  <2>1. /\ c \in Calling /\ c.op \in {"reset", "restore"} /\ c.todo = <<>> /\ flash' = mem
        /\ c.op = "restore" => Upgraded(c)
        /\ expect' = IF c.alone THEN [op |-> c.op, before |-> c.before] ELSE NoExpectation
    BY <1>1 DEF CommitDone, Writing, Typed
  <2>2. Progress(c, mem) /\ Len(c.todo) = 0
    BY <2>1 DEF CallsInv
  <2> HIDE DEF c
  <2>3. CASE ~ c.alone
    BY <2>1, <2>3 DEF ExpectInv, NoExpectation
  <2>4. CASE c.alone /\ c.op = "reset"
    <3>1. Resetting(c, mem)
      BY <2>2, <2>4 DEF Progress
    <3>2. Last \in Nat /\ Last - 0 = Last
      BY TableFacts
    <3>3. ASSUME NEW i \in Lasts PROVE mem[Table[i].name] = Factory(i, c.before)
      <4>1. i \in 1 .. Last /\ i <= Last
        BY <3>2 DEF Lasts
      <4>2. \A j \in i .. Last : j # i => j \in i + 1 .. Last
        BY <3>2, <4>1
      <4>3. Only(i, i, Last)
        BY <4>2 DEF Only, Lasts
      <4> QED BY <2>2, <3>1, <3>2, <4>1, <4>3 DEF Resetting
    <3>4. expect'.op = "reset" /\ expect'.before = c.before
      BY <2>1, <2>4
    <3> QED BY <2>1, <3>3, <3>4 DEF ExpectInv, Factory
  <2>5. CASE c.alone /\ c.op = "restore"
    <3>1. c.before # None => Restoring(c, mem)
      BY <2>2, <2>5 DEF Progress
    <3>2. \A i \in 1 .. Last : ~ Listed(c.todo, i)
      BY <2>2 DEF Listed
    <3>3. expect'.op = "restore" /\ expect'.before = c.before
      BY <2>1, <2>5
    <3>4. Restoring(c, mem) => Wanted(c.before, c.entry) = Wanted(c.before, LastStep)
      <4>1. CASE Suffixed
        <5>1. c.entry = Len(Specials) + 3 /\ LastStep = Len(Specials) + 1
          BY <2>1, <2>5, <4>1 DEF Upgraded, LastStep
        <5>2. /\ c.entry \in 1 .. Steps /\ LastStep \in 1 .. Steps
              /\ c.entry > Len(Specials) /\ LastStep > Len(Specials)
          BY <5>1, SpecialFacts
        <5> QED BY <5>2, WantedAll
      <4>2. CASE ~ Suffixed
        BY <4>2 DEF Restoring, LastStep
      <4> QED BY <4>1, <4>2
    <3>5. ASSUME c.before # None, NEW i \in 1 .. Last, Exported(i), HasValue(c.before[Table[i].name])
          PROVE  mem[Table[i].name] = Wanted(c.before, LastStep)[Table[i].name]
      BY <3>1, <3>2, <3>4, <3>5 DEF Restoring
    <3> QED BY <2>1, <3>3, <3>5 DEF ExpectInv
  <2> QED BY <2>1, <2>3, <2>4, <2>5
<1>2. ASSUME NEW p \in Procs, nvram_commit(p) \/ UpgradeCommit(p) PROVE ExpectInv'
  <2>1. CASE flash' = flash
    BY <1>2, <2>1 DEF nvram_commit, UpgradeCommit, ExpectInv
  <2>2. CASE flash' # flash
    BY <1>2, <2>2 DEF nvram_commit, UpgradeCommit, ExpectInv, NoExpectation
  <2> QED BY <2>1, <2>2
<1>3. CASE UNCHANGED <<flash, expect>>
  BY <1>3 DEF ExpectInv
<1> QED
  BY <1>1, <1>2, <1>3 DEF Next, vars, nvram_boot, BootDone, Reboot, nvram_fset, Begin,
                    nvram_set, SetCheck, SetWrite, nvram_upgrade, SpecialRead, nvram_export,
                    ExportDone

LEMMA CompleteAlways == Spec => []CompleteInv
<1>1. Init => CompleteInv
  <2> SUFFICES ASSUME Init PROVE CompleteInv
    OBVIOUS
  <2>1. booting = 1 /\ mem = flash /\ \A p \in Procs : proc[p] = Idle
    BY DEF Init
  <2>2. BootInv /\ SeenInv
    BY <2>1, BootInit, EmptyTodo DEF SeenInv
  <2>3. CallsInv
    BY IdleProgress DEF Init, CallsInv
  <2>4. BackupInv /\ ExpectInv
    BY DEF Init, BackupInv, ExpectInv, NoExpectation
  <2> QED BY <2>2, <2>3, <2>4 DEF CompleteInv
<1>2. Typed /\ Typed' /\ CompleteInv /\ [Next]_vars => CompleteInv'
  <2> SUFFICES ASSUME Typed, Typed', CompleteInv, [Next]_vars PROVE CompleteInv'
    OBVIOUS
  <2>1. BootInv /\ SeenInv /\ CallsInv /\ BackupInv /\ ExpectInv
    BY DEF CompleteInv
  <2>2. BootInv'  BY <2>1, BootInvStep
  <2>3. SeenInv'  BY <2>1, SeenStep
  <2>4. CallsInv'  BY <2>1, CallsStep
  <2>5. BackupInv'  BY <2>1, BackupStep
  <2>6. ExpectInv'  BY <2>1, ExpectStep
  <2> QED BY <2>2, <2>3, <2>4, <2>5, <2>6 DEF CompleteInv
<1> QED
  BY <1>1, <1>2, TypedAlways, PTL DEF Spec

(* nvram boot has ended: the variables are what they start with, and those *)
(* that are not temporary and had a value in the flash have that one.      *)
LEMMA Booted ==
    ASSUME BootInv, booting = Last + 1
    PROVE  /\ \A i \in Firsts : mem[Table[i].name] = Started(i, flash)
           /\ \A n \in Names : HasValue(flash[n]) /\ Lasting(n) => mem[n] = flash[n]
<1>1. Last + 1 # 0 /\ \A i \in Firsts : i < Last + 1
  BY TableFacts, FirstsFacts
<1> QED
  BY <1>1 DEF BootInv

(* A variable of which one entry is not temporary.                         *)
LEMMA LastingEntry ==
    ASSUME NEW i \in 1 .. Last, ~ Has(i, "TEMP")
    PROVE  Lasting(Table[i].name)
BY Twins DEF Lasting

(* A factory reset that no other process disturbs, whatever the table and  *)
(* whatever the variables before: after the next start every variable has  *)
(* its factory value, that of its last entry, and the protected ones what  *)
(* they had.                                                               *)
THEOREM ResetCorrect == Spec => []ResetComplete
<1>1. CompleteInv => ResetComplete
  <2> SUFFICES ASSUME BootInv, ExpectInv, booting = Last + 1, expect.op = "reset",
                      NEW i \in Lasts
               PROVE  LET n == Table[i].name
                      IN  IF Has(i, "PROTECTED") /\ HasValue(expect.before[n])
                          THEN mem[n] = expect.before[n]
                          ELSE mem[n] = IF Has(i, "DEFAULT") THEN mem[DefaultName[n]]
                                        ELSE Table[i].value
    BY DEF CompleteInv, ResetComplete
  <2> DEFINE n == Table[i].name
  <2>1. i \in 1 .. Last /\ n \in Names
    BY TableFacts DEF Lasts
  <2>2. flash[n] = Factory(i, expect.before)
    BY DEF ExpectInv
  <2>3. CASE Has(i, "PROTECTED") /\ HasValue(expect.before[n])
    <3>1. flash[n] = expect.before[n] /\ HasValue(flash[n]) /\ ~ Has(i, "TEMP")
      BY <2>1, <2>2, <2>3, TableAssumption DEF Factory
    <3> QED BY <2>1, <2>3, <3>1, LastingEntry, Booted
  <2>4. CASE ~ (Has(i, "PROTECTED") /\ HasValue(expect.before[n])) /\ ~ Has(i, "DEFAULT")
    <3>1. flash[n] = Table[i].value
      BY <2>2, <2>4 DEF Factory
    <3>2. CASE i \in Firsts
      <4>1. mem[n] = Started(i, flash)
        BY <3>2, Booted
      <4>2. Started(i, flash) = Own(i, flash)
        BY <2>4 DEF Started
      <4>3. Own(i, flash) = Table[i].value
        BY <3>1 DEF Own
      <4> QED BY <2>4, <4>1, <4>2, <4>3
    <3>3. CASE i \notin Firsts
      <4>1. PICK j \in 1 .. Last : j < i /\ Table[j].name = n
        BY <2>1, <3>3, FirstsFacts
      <4>2. j # i
        BY <2>1, <4>1, TableFacts
      <4>3. ~ Has(i, "TEMP") /\ Table[i].value \in Values
        BY <2>1, <4>1, <4>2, Twins
      <4>4. HasValue(flash[n])
        BY <3>1, <4>3 DEF HasValue
      <4> QED BY <2>1, <2>4, <3>1, <4>3, <4>4, LastingEntry, Booted
    <3> QED BY <3>2, <3>3
  <2>5. CASE ~ (Has(i, "PROTECTED") /\ HasValue(expect.before[n])) /\ Has(i, "DEFAULT")
    <3>1. flash[n] = Empty /\ ~ Has(i, "EMPTY")
      BY <2>1, <2>2, <2>5, DefaultAssumption DEF Factory
    <3>2. ~ HasValue(flash[n])
      BY <3>1, TableAssumption DEF HasValue
    <3>3. PICK j \in Firsts :
            /\ j = CHOOSE k \in Firsts : Table[k].name = DefaultName[Table[i].name]
            /\ Table[j].name = DefaultName[Table[i].name] /\ ~ Has(j, "DEFAULT")
      BY <2>1, <2>5, DefaultEntry
    <3>4. mem[DefaultName[n]] = Started(j, flash)
      BY <3>3, Booted
    <3>5. Started(j, flash) = Own(j, flash)
      BY <3>3 DEF Started
    <3>6. i \in Firsts
      <4> SUFFICES ASSUME i \notin Firsts PROVE FALSE
        OBVIOUS
      <4>1. PICK k \in 1 .. Last : k < i /\ Table[k].name = n
        BY <2>1, FirstsFacts
      <4>2. k # i
        BY <2>1, <4>1, TableFacts
      <4> QED BY <2>1, <2>5, <4>1, <4>2, Twins
    <3>7. Started(i, flash) = Own(j, flash)
      BY <2>5, <3>1, <3>2, <3>3 DEF Started
    <3>8. mem[n] = Started(i, flash)
      BY <3>6, Booted
    <3> QED BY <2>5, <3>4, <3>5, <3>7, <3>8
  <2> QED BY <2>3, <2>4, <2>5
<1> QED
  BY <1>1, CompleteAlways, PTL

(* A backup and a restore that no other process disturbs give back every   *)
(* setting, rewritten where special_processing does it on a build with a   *)
(* version suffix, whatever happened in between: for every table, and      *)
(* whatever other calls were between the two.                              *)
THEOREM RestoreCorrect == Spec => []RestoreComplete
<1>1. CompleteInv => RestoreComplete
  <2> SUFFICES ASSUME BootInv, ExpectInv, booting = Last + 1, expect.op = "restore",
                      expect.before # None, NEW i \in 1 .. Last, Exported(i),
                      HasValue(expect.before[Table[i].name])
               PROVE  LET n == Table[i].name
                          rewritten == Suffixed /\ \E k \in 1 .. Len(Specials) : Specials[k] = n
                      IN  mem[n] = IF rewritten THEN Rewritten[n][expect.before[n]]
                                   ELSE expect.before[n]
    BY DEF CompleteInv, RestoreComplete
  <2> DEFINE n == Table[i].name
             rewritten == Suffixed /\ \E k \in 1 .. Len(Specials) : Specials[k] = n
             back == IF rewritten THEN Rewritten[n][expect.before[n]] ELSE expect.before[n]
  <2>1. n \in Names
    BY TableFacts
  <2>2. flash[n] = Wanted(expect.before, LastStep)[n]
    BY DEF ExpectInv
  <2>3. Wanted(expect.before, LastStep)[n] = back
    <3>1. (\E k \in 1 .. Len(Specials) : k < LastStep /\ Specials[k] = n) <=> rewritten
      <4>1. CASE Suffixed
        <5>1. \A k \in 1 .. Len(Specials) : k < LastStep
          BY <4>1, SpecialFacts DEF LastStep
        <5> QED BY <4>1, <5>1
      <4>2. CASE ~ Suffixed
        <5>1. \A k \in 1 .. Len(Specials) : ~ (k < LastStep)
          BY <4>2, SpecialFacts DEF LastStep
        <5> QED BY <4>2, <5>1
      <4> QED BY <4>1, <4>2
    <3> HIDE DEF rewritten
    <3> QED BY <2>1, <3>1 DEF Wanted
  <2>4. HasValue(back)
    BY <2>1, SpecialAssumption DEF HasValue
  <2> HIDE DEF back
  <2>5. mem[n] = flash[n]
    BY <2>1, <2>2, <2>3, <2>4, LastingEntry, Booted DEF Exported
  <2> QED BY <2>2, <2>3, <2>5 DEF back
<1> QED
  BY <1>1, CompleteAlways, PTL
=============================================================================
