-------------------------- MODULE WanControlProofs --------------------------
(***************************************************************************)
(* Proofs about WanControl for any number of WANs, ifups, tries and        *)
(* faults: type correctness, and that an address in the NVRAM belongs to a *)
(* DHCP client that is alive.                                              *)
(***************************************************************************)
EXTENDS WanControl, TLAPS

Ctl == {c \in Control : /\ c.pc # "idle" => c.wan \in Wans
                        /\ c.pc = "backup" => c.back \in Wans}

Ups == {u \in [pc : {"none", "check", "device", "client", "route"}, wan : Wans \cup {None}] :
            u.pc # "none" => u.wan \in Wans}

(* TypeOK, and that a script at work has a WAN.                            *)
Typed == TypeOK /\ ctl \in Ctl /\ ifup \in [Ifups -> Ups]

(* The client whose script is inside iface_up is alive: kill_and_wait      *)
(* waits for the script.                                                   *)
ClientInv == (iface # None /\ iface.by = "client") => client[iface.wan] # "off"

(* The WANs that the code names by number.                                 *)
LEMMA ZeroWan == 0 \in Wans /\ usb_wan \in Wans
BY WanAssumption DEF Wans, usb_wan

(* The records of scripts that do not run.                                 *)
LEMMA NotRunning == Idle \in Ctl /\ NoIfup \in Ups
BY DEF Idle, NoIfup, Ctl, Ups, Control, Actions, Forced

(* do_if writes an action.                                                 *)
LEMMA DoIfTyped ==
    ASSUME NEW acts \in [Wans -> Actions], NEW a \in Actions, NEW w \in Wans
    PROVE  do_if(acts, a, w) \in [Wans -> Actions]
BY DEF do_if

(* The rounds of the two loops.                                            *)
LEMMA NextRoundTyped ==
    ASSUME NEW c \in Ctl, c.wan \in Wans, NEW pc \in {"read", "failover"}, NEW after \in Ctl
    PROVE  NextRound(c, pc, after) \in Ctl
<1>1. c \in Control
  BY DEF Ctl
<1>2. CASE c.wan + 1 < NumWans
  <2>1. c.wan + 1 \in Wans
    BY <1>2, WanAssumption DEF Wans
  <2> DEFINE d == [c EXCEPT !.pc = pc, !.wan = @ + 1]
             e == [d EXCEPT !.act = "none", !.st = 0, !.back = None]
  <2>2. "none" \in Actions /\ 0 \in 0 .. 4
    BY DEF Actions
  <2>3. d \in Control /\ d.pc = pc /\ d.wan = c.wan + 1
    BY <1>1, <2>1 DEF Control
  <2>4. NextRound(c, pc, after) = e
    BY <1>2 DEF NextRound
  <2> HIDE DEF d
  <2>5. e \in Control /\ e.pc = pc /\ e.wan = c.wan + 1
    BY <2>2, <2>3 DEF Control
  <2> HIDE DEF e
  <2> QED BY <2>1, <2>4, <2>5 DEF Ctl
<1>3. CASE ~ (c.wan + 1 < NumWans)  BY <1>3 DEF NextRound
<1> QED BY <1>2, <1>3

(* From the first loop to the second.                                      *)
LEMMA FirstLoopTyped ==
    ASSUME NEW c \in Ctl, c.wan \in Wans
    PROVE  FirstLoopRound(c) \in Ctl
<1>1. c \in Control
  BY DEF Ctl
<1> DEFINE d == [c EXCEPT !.pc = "failover", !.wan = 0]
           e == [d EXCEPT !.act = "none", !.st = 0]
<1>2. "none" \in Actions /\ 0 \in 0 .. 4
  BY DEF Actions
<1>3. d \in Control /\ d.pc = "failover" /\ d.wan = 0
  BY <1>1, ZeroWan DEF Control
<1>4. FirstLoopRound(c) = NextRound(c, "read", e)
  BY DEF FirstLoopRound
<1> HIDE DEF d
<1>5. e \in Control /\ e.pc = "failover" /\ e.wan = 0
  BY <1>2, <1>3 DEF Control
<1> HIDE DEF e
<1>6. e \in Ctl
  BY <1>5, ZeroWan DEF Ctl
<1> QED
  BY <1>4, <1>6, NextRoundTyped

(* A step within a round.                                                  *)
LEMMA PlaceTyped ==
    ASSUME NEW c \in Ctl, c.wan \in Wans,
           NEW pc \in {"detect", "down", "downkill", "noip", "noipkill"}
    PROVE  [c EXCEPT !.pc = pc] \in Ctl
BY DEF Ctl, Control

(* What comes after the up and the down of a round.                        *)
LEMMA AfterTyped ==
    ASSUME NEW c \in Ctl, c.wan \in Wans
    PROVE  AfterDown(c) \in Ctl /\ AfterUp(c) \in Ctl
<1>1. AfterDown(c) \in Ctl
  BY FirstLoopTyped, PlaceTyped DEF AfterDown
<1> QED
  BY <1>1, PlaceTyped DEF AfterUp

-----------------------------------------------------------------------------
(* Starting an ifup in the background.                                     *)
LEMMA BringUpTyped ==
    ASSUME ifup \in [Ifups -> Ups], NEW c \in Ctl, c.wan \in Wans, BringUp(c)
    PROVE  ctl' \in Ctl /\ ifup' \in [Ifups -> Ups]
<1>1. ctl' \in Ctl
  BY AfterTyped DEF BringUp
<1>2. ifup' \in [Ifups -> Ups]
  <2> DEFINE free == {i \in Ifups : ifup[i] = NoIfup}
             new == [pc |-> "check", wan |-> c.wan]
  <2>1. new \in Ups
    BY DEF Ups
  <2>2. CASE ifup' = ifup  BY <2>2
  <2>3. CASE free # {} /\ ifup' = [ifup EXCEPT ![CHOOSE i \in free : TRUE] = new]
    <3>1. PICK i \in Ifups : ifup' = [ifup EXCEPT ![i] = new]
      BY <2>3
    <3> QED BY <2>1, <3>1
  <2> QED BY <2>2, <2>3 DEF BringUp
<1> QED BY <1>1, <1>2

(* The first loop reads the status of a WAN.                               *)
LEMMA ReadTyped ==
    ASSUME Typed, ReadStatus
    PROVE  Typed'
<1> DEFINE w == ctl.wan
           c == [ctl EXCEPT !.act = action[w], !.st = state[w],
                            !.plug = IF w = 0 THEN cable[0] ELSE ctl.plug]
<1>1. ctl \in Ctl /\ w \in Wans /\ ctl \in Control
  BY DEF ReadStatus, Typed, Ctl
<1>2. action[w] \in Actions /\ state[w] \in 0 .. 4 /\ cable[0] \in BOOLEAN
  BY <1>1, ZeroWan DEF Typed, TypeOK
<1>3. c \in Ctl /\ c.wan = w
  BY <1>1, <1>2 DEF Ctl, Control
<1>4. [c EXCEPT !.pc = "detect"] \in Ctl
  BY <1>1, <1>3, PlaceTyped
<1> HIDE DEF c
<1>5. ctl' \in Ctl /\ ifup' \in [Ifups -> Ups]
  BY <1>1, <1>3, <1>4, BringUpTyped DEF ReadStatus, c, Typed
<1>6. trycount' \in [Wans -> 0 .. MaxCount]
  <2>1. trycount' = trycount \/ trycount' = [trycount EXCEPT ![w] = 0]
    BY DEF ReadStatus
  <2> QED BY <2>1, WanAssumption DEF Typed, TypeOK
<1> QED
  BY <1>5, <1>6 DEF ReadStatus, Typed, TypeOK, world, Ctl, Ups

(* wandetect.                                                              *)
LEMMA DetectTyped ==
    ASSUME Typed, wandetect
    PROVE  Typed'
<1> DEFINE w == ctl.wan
<1>1. ctl \in Ctl /\ w \in Wans
  BY DEF wandetect, Typed, Ctl
<1>2. ctl' \in Ctl /\ ifup' \in [Ifups -> Ups]
  BY <1>1, BringUpTyped DEF wandetect, Typed
<1>3. PICK dead \in BOOLEAN, fails \in 0 .. Threshold, lost \in BOOLEAN :
        /\ failcount' = [failcount EXCEPT ![w] = fails]
        /\ trycount' = IF dead THEN [trycount EXCEPT ![w] = MaxCount] ELSE trycount
        /\ state' = IF state[w] = 2 /\ ~ dead THEN [state EXCEPT ![w] = 3] ELSE state
        /\ IF lost THEN Fault ELSE budget' = budget
  BY DEF wandetect
<1>4. /\ failcount' \in [Wans -> 0 .. Threshold]
      /\ state' \in [Wans -> 0 .. 4]
  BY <1>1, <1>3 DEF Typed, TypeOK
<1>5. trycount' \in [Wans -> 0 .. MaxCount]
  BY <1>1, <1>3, WanAssumption DEF Typed, TypeOK
<1>6. budget' \in [requests : Nat, faults : Nat]
  BY <1>3 DEF Fault, Typed, TypeOK
<1> QED
  BY <1>2, <1>4, <1>5, <1>6 DEF wandetect, Typed, TypeOK, Ctl, Ups

(* ifdown, up to the kill of the client.                                   *)
LEMMA IfdownTyped ==
    ASSUME Typed, NEW w \in Wans, NEW done \in Ctl, NEW killing \in {"downkill", "noipkill"},
           ctl.wan \in Wans, ifdown(w, done, killing)
    PROVE  /\ state' \in [Wans -> 0 .. 4] /\ ip' \in [Wans -> BOOLEAN] /\ ctl' \in Ctl
<1>1. [ctl EXCEPT !.pc = killing] \in Ctl
  BY PlaceTyped DEF Typed
<1>2. state \in [Wans -> 0 .. 4] /\ ip \in [Wans -> BOOLEAN]
  BY DEF Typed, TypeOK
<1>3. CASE action[w] = "standby"
  <2>1. /\ state' = [state EXCEPT ![w] = 3] /\ ip' = [ip EXCEPT ![w] = FALSE]
        /\ ctl' = done
    BY <1>3 DEF ifdown
  <2>2. state' \in [Wans -> 0 .. 4]
    BY <1>2, <2>1
  <2>3. ip' \in [Wans -> BOOLEAN]
    BY <1>2, <2>1
  <2> QED BY <2>1, <2>2, <2>3
<1>4. CASE action[w] # "standby"  BY <1>1, <1>2, <1>4 DEF ifdown
<1> QED BY <1>3, <1>4

(* The two places where the first loop calls ifdown.                       *)
LEMMA DownTyped ==
    ASSUME Typed, BringDown \/ NoAddress
    PROVE  Typed'
<1>1. ctl \in Ctl /\ ctl.wan \in Wans
  BY DEF BringDown, NoAddress, Typed, Ctl
<1>2. AfterDown(ctl) \in Ctl /\ FirstLoopRound(ctl) \in Ctl
  BY <1>1, AfterTyped, FirstLoopTyped
<1>3. state' \in [Wans -> 0 .. 4] /\ ip' \in [Wans -> BOOLEAN] /\ ctl' \in Ctl
  <2>1. CASE BringDown  BY <1>1, <1>2, <2>1, IfdownTyped DEF BringDown
  <2>2. CASE NoAddress /\ ~ ip[ctl.wan]  BY <1>1, <1>2, <2>2, IfdownTyped DEF NoAddress
  <2>3. CASE NoAddress /\ ip[ctl.wan]  BY <1>2, <2>3 DEF NoAddress, Typed, TypeOK
  <2> QED BY <2>1, <2>2, <2>3
<1> QED
  BY <1>3 DEF BringDown, NoAddress, Typed, TypeOK, world, Ctl, Ups

(* The end of ifdown.                                                      *)
LEMMA KillTyped ==
    ASSUME Typed, KillClient
    PROVE  Typed'
<1>1. ctl \in Ctl /\ ctl.wan \in Wans /\ ctl \in Control
  BY DEF KillClient, Typed, Ctl
<1>2. [ctl EXCEPT !.pc = "read", !.wan = 0] \in Ctl
  BY <1>1, ZeroWan DEF Ctl, Control
<1>3. ctl' \in Ctl
  BY <1>1, <1>2, AfterTyped, FirstLoopTyped DEF KillClient
<1>4. ip' \in [Wans -> BOOLEAN]
  BY <1>1 DEF KillClient, Released, Typed, TypeOK
<1>5. client' \in [Wans -> {"off", "trying", "bound"}]
  BY <1>1 DEF KillClient, Typed, TypeOK
<1> QED
  BY <1>3, <1>4, <1>5 DEF KillClient, Typed, TypeOK, world, status, Ctl, Ups

(* One ifcontrol after the other.                                          *)
LEMMA StartTyped ==
    ASSUME NEW pc \in {"read", "stopped"}, NEW w \in Wans
    PROVE  [Idle EXCEPT !.pc = pc, !.wan = w] \in Ctl
<1> DEFINE d == [Idle EXCEPT !.pc = pc, !.wan = w]
<1>1. Idle \in Control
  BY NotRunning DEF Ctl
<1>2. d \in Control /\ d.pc = pc /\ d.wan = w
  BY <1>1 DEF Control
<1> HIDE DEF d
<1>3. d \in Ctl
  BY <1>2 DEF Ctl
<1> QED BY <1>3 DEF d

(* The three ways in which an ifcontrol starts.                            *)
LEMMA RequestsTyped ==
    ASSUME Typed, Netstat \/ updown \/ active_stop
    PROVE  Typed'
<1>1. CASE Netstat
  <2>1. ctl' \in Ctl
    BY <1>1, StartTyped, ZeroWan DEF Netstat
  <2>2. budget' \in [requests : Nat, faults : Nat]
    BY <1>1 DEF Netstat, Fault, Typed, TypeOK
  <2> QED
    BY <1>1, <2>1, <2>2 DEF Netstat, Typed, TypeOK, status, Ctl, Ups
<1>2. CASE updown
  <2>1. request \in [mode : Modes, wan : Wans] /\ action \in [Wans -> Actions]
    BY <1>2 DEF updown, Typed, TypeOK
  <2>2. "forceup" \in Actions /\ "up" \in Actions /\ "forcedown" \in Actions
    BY DEF Actions, Forced
  <2>3. action' \in [Wans -> Actions]
    BY <1>2, <2>1, <2>2, DoIfTyped DEF updown, UpDownAction
  <2>4. ctl' \in Ctl
    BY <1>2, StartTyped, ZeroWan DEF updown
  <2> QED
    BY <1>2, <2>3, <2>4 DEF updown, Typed, TypeOK, Ctl, Ups
<1>3. CASE active_stop
  <2>1. request \in [mode : Modes, wan : Wans]
    BY <1>3 DEF active_stop, Typed, TypeOK
  <2>2. "down" \in Actions
    BY DEF Actions
  <2>3. action' \in [Wans -> Actions] /\ state' \in [Wans -> 0 .. 4]
    BY <1>3, <2>2 DEF active_stop, Typed, TypeOK
  <2>4. ctl' \in Ctl
    BY <1>3, <2>1, StartTyped DEF active_stop
  <2> QED
    BY <1>3, <2>3, <2>4 DEF active_stop, Typed, TypeOK, Ctl, Ups
<1> QED BY <1>1, <1>2, <1>3

-----------------------------------------------------------------------------
(* The second loop.  The tries stay below the limit: they are counted only *)
(* while they are below it.                                                *)
LEMMA LastTyped ==
    ASSUME Typed, ctl.wan \in Wans, NEW acts \in [Wans -> Actions], NEW st \in 0 .. 4,
           LastDecision(acts, ctl.wan, st)
    PROVE  /\ action' \in [Wans -> Actions]
           /\ trycount' \in [Wans -> 0 .. MaxCount]
           /\ ctl' \in Ctl
<1> DEFINE w == ctl.wan
<1>1. action' \in [Wans -> Actions]
  <2>1. "down" \in Actions
    BY DEF Actions
  <2> QED BY <2>1, DoIfTyped DEF LastDecision
<1>2. trycount' \in [Wans -> 0 .. MaxCount]
  <2>1. trycount \in [Wans -> 0 .. MaxCount] /\ MaxCount \in Nat
    BY WanAssumption DEF Typed, TypeOK
  <2>2. Tries(w) \in 0 .. MaxCount
    BY <2>1 DEF Tries
  <2> DEFINE n == IF Tries(w) >= MaxCount \/ st >= 2 THEN 0
                  ELSE IF st = 1 THEN Tries(w) + 1 ELSE Tries(w)
  <2>3. n \in 0 .. MaxCount
    BY <2>1, <2>2
  <2>4. trycount' = [trycount EXCEPT ![w] = n]
    BY DEF LastDecision
  <2> HIDE DEF n
  <2> QED BY <2>1, <2>3, <2>4
<1>3. ctl' \in Ctl
  BY NextRoundTyped, NotRunning DEF LastDecision, Typed
<1> QED BY <1>1, <1>2, <1>3

(* The actions written before find_next_backup.                            *)
LEMMA FirstTyped ==
    ASSUME action \in [Wans -> Actions], NEW w \in Wans, NEW st \in 0 .. 4
    PROVE  FirstDecisions(w, st) \in [Wans -> Actions]
<1> DEFINE forced == IF action[w] = "forceup" /\ st = 4
                     THEN [action EXCEPT ![w] = "up"] ELSE action
           always == IF Type[w] = "alwayson" /\ st = 0 THEN do_if(forced, "up", w) ELSE forced
           ready == IF Type[w] = "backup_standby" /\ st = 0
                    THEN do_if(always, IF w = usb_wan THEN "up" ELSE "standby", w) ELSE always
           backup == IF Tries(w) >= MaxCount /\ Backup[w] # None
                     THEN do_if(ready, "up", Backup[w]) ELSE ready
<1>1. "up" \in Actions /\ "standby" \in Actions /\ "down" \in Actions
  BY DEF Actions
<1>2. forced \in [Wans -> Actions]
  BY <1>1
<1> HIDE DEF forced
<1>3. always \in [Wans -> Actions]
  BY <1>1, <1>2, DoIfTyped
<1> HIDE DEF always
<1>4. ready \in [Wans -> Actions]
  BY <1>1, <1>3, DoIfTyped
<1> HIDE DEF ready
<1>5. backup \in [Wans -> Actions]
  <2>1. Backup[w] # None => Backup[w] \in Wans
    BY WanAssumption
  <2> QED BY <1>1, <1>4, <2>1, DoIfTyped
<1> HIDE DEF backup
<1>6. FirstDecisions(w, st) =
        IF action[w] = "forcedown" /\ st = 0 THEN [backup EXCEPT ![w] = "down"] ELSE backup
  BY DEF FirstDecisions, forced, always, ready, backup
<1> QED BY <1>1, <1>5, <1>6

(* A round of the second loop.                                             *)
LEMMA FailoverTyped ==
    ASSUME Typed, Failover
    PROVE  Typed'
<1> DEFINE w == ctl.wan
           acts == FirstDecisions(w, state[w])
<1>1. ctl \in Ctl /\ ctl \in Control /\ w \in Wans
  BY DEF Failover, Typed, Ctl
<1>2. state[w] \in 0 .. 4
  BY <1>1 DEF Typed, TypeOK
<1>3. acts \in [Wans -> Actions]
  BY <1>1, <1>2, FirstTyped DEF Typed, TypeOK
<1>4. /\ action' \in [Wans -> Actions]
      /\ trycount' \in [Wans -> 0 .. MaxCount]
      /\ ctl' \in Ctl
  <2>1. CASE /\ ctl' = NextRound(ctl, "failover", Idle)
             /\ UNCHANGED <<action, trycount>>
    BY <1>1, <2>1, NextRoundTyped, NotRunning DEF Typed, TypeOK
  <2>2. CASE /\ ctl' = [ctl EXCEPT !.pc = "backup", !.st = state[w], !.back = w]
             /\ action' = acts
             /\ trycount' = trycount
    <3> DEFINE d == [ctl EXCEPT !.pc = "backup", !.st = state[w], !.back = w]
    <3>1. d \in Control /\ d.wan = w /\ d.back = w
      BY <1>1, <1>2 DEF Control
    <3> HIDE DEF d
    <3>2. d \in Ctl
      BY <1>1, <3>1 DEF Ctl
    <3> QED BY <1>3, <2>2, <3>2 DEF d, Typed, TypeOK
  <2>3. CASE LastDecision(acts, w, state[w])
    <3> HIDE DEF acts
    <3> QED BY <1>1, <1>2, <1>3, <2>3, LastTyped
  <2> QED BY <2>1, <2>2, <2>3 DEF Failover
<1> QED
  BY <1>4 DEF Failover, Typed, TypeOK, world, Ctl, Ups

(* A call of find_next_backup.                                             *)
LEMMA BackupTyped ==
    ASSUME Typed, find_next_backup
    PROVE  Typed'
<1> DEFINE b == Backup[ctl.back]
<1>1. ctl \in Ctl /\ ctl \in Control /\ ctl.wan \in Wans /\ ctl.back \in Wans
  BY DEF find_next_backup, Typed, Ctl
<1>2. ctl.st \in 0 .. 4 /\ action \in [Wans -> Actions]
  BY <1>1 DEF Control, Typed, TypeOK
<1>3. /\ action' \in [Wans -> Actions]
      /\ trycount' \in [Wans -> 0 .. MaxCount]
      /\ ctl' \in Ctl
  <2>1. CASE b = None
    BY <1>1, <1>2, <2>1, LastTyped DEF find_next_backup
  <2>2. CASE b # None
    <3>1. b \in Wans
      BY <1>1, <2>2, WanAssumption
    <3>2. [ctl EXCEPT !.back = b] \in Ctl
      BY <1>1, <3>1 DEF Ctl, Control
    <3>3. "standby" \in Actions /\ "down" \in Actions
      BY DEF Actions
    <3> HIDE DEF b
    <3>4. do_if(action, "standby", b) \in [Wans -> Actions] /\ do_if(action, "down", b) \in [Wans -> Actions]
      BY <1>2, <3>1, <3>3, DoIfTyped
    <3> QED BY <1>2, <2>2, <3>2, <3>4 DEF find_next_backup, Typed, TypeOK, b
  <2> QED BY <2>1, <2>2
<1> QED
  BY <1>3 DEF find_next_backup, Typed, TypeOK, world, Ctl, Ups

-----------------------------------------------------------------------------
(* The ifups.                                                              *)
LEMMA IfupTyped ==
    ASSUME Typed, NEW i \in Ifups, IfupStep(i)
    PROVE  Typed'
<1> DEFINE w == ifup[i].wan
<1>1. ifup \in [Ifups -> Ups] /\ ifup[i] \in Ups /\ w \in Wans
  BY DEF Typed, Ups, IfupStep, IfupCheck, IfupDevice, do_ifup, IfupRoute, Ifup
<1>2. \A pc \in {"client", "route", "device"} : [ifup[i] EXCEPT !.pc = pc] \in Ups
  BY <1>1 DEF Ups
<1>3. CASE IfupCheck(i)
  <2>1. ifup' \in [Ifups -> Ups]
    <3>1. PICK u \in Ups : ifup' = [ifup EXCEPT ![i] = u]
      <4>1. CASE ~ enable[w] \/ state[w] \in {1, 2, 4}
        BY <1>1, <1>3, <4>1, NotRunning DEF IfupCheck
      <4>2. CASE ~ (~ enable[w] \/ state[w] \in {1, 2, 4})
        <5> DEFINE u == [ifup[i] EXCEPT !.pc = IF state[w] = 3 THEN "route" ELSE "device"]
        <5>1. u \in Ups
          BY <1>2
        <5>2. ifup' = [ifup EXCEPT ![i] = u]
          BY <1>1, <1>3, <4>2 DEF IfupCheck
        <5> QED BY <5>1, <5>2
      <4> QED BY <4>1, <4>2
    <3> QED BY <1>1, <3>1
  <2> QED
    BY <1>3, <2>1 DEF IfupCheck, Typed, TypeOK, world, status, Ctl, Ups
<1>4. CASE IfupDevice(i)
  <2>1. ifup' \in [Ifups -> Ups]
    <3>1. ifup' = [ifup EXCEPT ![i] = [ifup[i] EXCEPT !.pc = "client"]]
      BY <1>1, <1>4 DEF IfupDevice
    <3> QED BY <1>1, <1>2, <3>1
  <2>2. state' \in [Wans -> 0 .. 4]
    BY <1>1, <1>4 DEF IfupDevice, Typed, TypeOK
  <2> QED
    BY <1>4, <2>1, <2>2 DEF IfupDevice, Typed, TypeOK, world, Ctl, Ups
<1>5. CASE do_ifup(i)
  <2>1. ifup' \in [Ifups -> Ups]
    BY <1>1, <1>5, NotRunning DEF do_ifup
  <2>2. ip' \in [Wans -> BOOLEAN]
    BY <1>1, <1>5 DEF do_ifup, Released, Typed, TypeOK
  <2>3. client' \in [Wans -> {"off", "trying", "bound"}]
    BY <1>1, <1>5 DEF do_ifup, Typed, TypeOK
  <2> QED
    BY <1>5, <2>1, <2>2, <2>3 DEF do_ifup, Typed, TypeOK, world, status, Ctl, Ups
<1>6. CASE IfupRoute(i)
  <2>1. ifup' \in [Ifups -> Ups]
    BY <1>1, <1>6, NotRunning DEF IfupRoute
  <2>2. iface' \in [wan : Wans, by : {"ifup", "client"}, st : {1, 3}] \cup {None}
    BY <1>1, <1>6 DEF IfupRoute, iface_up
  <2> QED
    BY <1>6, <2>1, <2>2 DEF IfupRoute, Typed, TypeOK, world, status, Ctl, Ups
<1> QED BY <1>3, <1>4, <1>5, <1>6 DEF IfupStep

(* The end of iface_up.                                                    *)
LEMMA IfaceTyped ==
    ASSUME Typed, IfaceUpDone
    PROVE  Typed'
<1>1. iface \in [wan : Wans, by : {"ifup", "client"}, st : {1, 3}]
  BY DEF IfaceUpDone, Typed, TypeOK
<1>2. state' \in [Wans -> 0 .. 4]
  <2>1. iface.st + 1 \in 0 .. 4
    BY <1>1
  <2> QED BY <2>1 DEF IfaceUpDone, Typed, TypeOK
<1>3. ip' \in [Wans -> BOOLEAN]
  <2>1. (iface.by = "client") \in BOOLEAN
    OBVIOUS
  <2> QED BY <2>1 DEF IfaceUpDone, Typed, TypeOK
<1> QED
  BY <1>2, <1>3 DEF IfaceUpDone, Typed, TypeOK, world, Ctl, Ups

-----------------------------------------------------------------------------
(* The clients, the cables and the user.                                   *)
LEMMA WorldTyped ==
    ASSUME Typed, NEW w \in Wans,
           \/ Bound(w) \/ LeaseLost(w) \/ Cable(w) \/ do_connect_cgi(w) \/ do_disconnect_cgi(w)
           \/ NetworkStop \/ NetworkStart
    PROVE  Typed'
<1>1. CASE Bound(w)
  <2>1. iface' \in [wan : Wans, by : {"ifup", "client"}, st : {1, 3}] \cup {None}
    BY <1>1 DEF Bound, iface_up
  <2>2. client' \in [Wans -> {"off", "trying", "bound"}]
    BY <1>1 DEF Bound, Typed, TypeOK
  <2> QED
    BY <1>1, <2>1, <2>2 DEF Bound, Typed, TypeOK, world, status, Ctl, Ups
<1>2. CASE LeaseLost(w)
  <2>1. client' \in [Wans -> {"off", "trying", "bound"}] /\ ip' \in [Wans -> BOOLEAN]
    BY <1>2 DEF LeaseLost, Typed, TypeOK
  <2>2. budget' \in [requests : Nat, faults : Nat]
    BY <1>2 DEF LeaseLost, Fault, Typed, TypeOK
  <2> QED
    BY <1>2, <2>1, <2>2 DEF LeaseLost, Typed, TypeOK, scripts, status, Ctl, Ups
<1>3. CASE Cable(w)
  <2>1. cable' \in [Wans -> BOOLEAN]
    BY <1>3 DEF Cable, Typed, TypeOK
  <2>2. budget' \in [requests : Nat, faults : Nat]
    BY <1>3 DEF Cable, Fault, Typed, TypeOK
  <2> QED
    BY <1>3, <2>1, <2>2 DEF Cable, Typed, TypeOK, scripts, status, Ctl, Ups
<1>4. CASE do_connect_cgi(w) \/ do_disconnect_cgi(w) \/ NetworkStop \/ NetworkStart
  <2>1. budget' \in [requests : Nat, faults : Nat]
    BY <1>4 DEF do_connect_cgi, do_disconnect_cgi, NetworkStop, NetworkStart, Request, Typed, TypeOK
  <2>2. enable' \in [Wans -> BOOLEAN]
    BY <1>4 DEF do_connect_cgi, do_disconnect_cgi, NetworkStop, NetworkStart, Typed, TypeOK
  <2>3. netstat' \in BOOLEAN
    BY <1>4 DEF do_connect_cgi, do_disconnect_cgi, NetworkStop, NetworkStart, Typed, TypeOK
  <2>4. request' \in [mode : Modes, wan : Wans] \cup {None}
    BY <1>4, ZeroWan DEF do_connect_cgi, do_disconnect_cgi, NetworkStop, NetworkStart, Ask, Modes, Typed, TypeOK
  <2>5. UNCHANGED <<status, failcount, ip, client, scripts, cable>>
    BY <1>4 DEF do_connect_cgi, do_disconnect_cgi, NetworkStop, NetworkStart
  <2> QED
    BY <2>1, <2>2, <2>3, <2>4, <2>5 DEF Typed, TypeOK, scripts, status, Ctl, Ups
<1> QED BY <1>1, <1>2, <1>3, <1>4

-----------------------------------------------------------------------------
(* The start.                                                              *)
LEMMA InitTyped ==
    ASSUME Init
    PROVE  Typed
<1>1. "none" \in Actions /\ 0 \in 0 .. MaxCount /\ 0 \in 0 .. Threshold /\ 0 \in 0 .. 4
  BY WanAssumption DEF Actions
<1>2. budget \in [requests : Nat, faults : Nat]
  BY WanAssumption DEF Init
<1>3. ctl \in Ctl /\ ctl \in Control /\ ifup \in [Ifups -> Ups]
  BY NotRunning DEF Init, Ctl
<1> QED
  BY <1>1, <1>2, <1>3 DEF Init, Typed, TypeOK, Ups

(* Every step keeps the types.                                             *)
LEMMA StepTyped ==
    ASSUME Typed, [Next]_vars
    PROVE  Typed'
<1>1. CASE UNCHANGED vars
  BY <1>1 DEF vars, status, scripts, world, Typed, TypeOK, Ctl, Ups
<1>2. CASE Netstat \/ updown \/ active_stop  BY <1>2, RequestsTyped
<1>3. CASE ifcontrol
  BY <1>3, ReadTyped, DetectTyped, DownTyped, KillTyped, FailoverTyped, BackupTyped DEF ifcontrol
<1>4. CASE IfaceUpDone  BY <1>4, IfaceTyped
<1>5. CASE NetworkStop \/ NetworkStart  BY <1>5, WorldTyped, ZeroWan
<1>6. CASE \E i \in Ifups : IfupStep(i)  BY <1>6, IfupTyped
<1>7. CASE \E w \in Wans : \/ Bound(w) \/ LeaseLost(w) \/ Cable(w)
                           \/ do_connect_cgi(w) \/ do_disconnect_cgi(w)
  BY <1>7, WorldTyped
<1> QED BY <1>1, <1>2, <1>3, <1>4, <1>5, <1>6, <1>7 DEF Next

(* Whatever the scripts do, every variable keeps its type: in particular   *)
(* the tries, which ifcontrol compares and counts in one round, never pass *)
(* maxcount.                                                               *)
THEOREM TypeCorrect == Spec => []TypeOK
<1>1. Init => Typed
  BY InitTyped
<1>2. Typed /\ [Next]_vars => Typed'
  BY StepTyped
<1>3. Typed => TypeOK
  BY DEF Typed
<1> QED BY <1>1, <1>2, <1>3, PTL DEF Spec

-----------------------------------------------------------------------------
(* Only a client's script stores an address, and it runs on until it has   *)
(* done so before its client can be killed.                                *)
AddressInv == Typed /\ ClientInv /\ AddressHasClient

(* A kill takes the address away with the client that stored it.           *)
LEMMA KillKeeps ==
    ASSUME AddressInv, NEW w \in Wans, Released(w), iface' = iface,
           NEW c \in {"off", "trying"}, client' = [client EXCEPT ![w] = c]
    PROVE  ClientInv' /\ AddressHasClient'
<1>1. /\ client \in [Wans -> {"off", "trying", "bound"}] /\ ip \in [Wans -> BOOLEAN]
      /\ iface \in [wan : Wans, by : {"ifup", "client"}, st : {1, 3}] \cup {None}
  BY DEF AddressInv, Typed, TypeOK
<1>2. ClientInv'
  BY <1>1 DEF Released, AddressInv, ClientInv
<1>3. AddressHasClient'
  BY <1>1 DEF Released, AddressInv, AddressHasClient
<1> QED BY <1>2, <1>3

(* Every step keeps the invariant.                                         *)
LEMMA AddressStep ==
    ASSUME AddressInv, [Next]_vars
    PROVE  AddressInv'
<1>1. Typed'
  BY StepTyped DEF AddressInv
<1>2. /\ client \in [Wans -> {"off", "trying", "bound"}] /\ ip \in [Wans -> BOOLEAN]
      /\ iface \in [wan : Wans, by : {"ifup", "client"}, st : {1, 3}] \cup {None}
      /\ ctl \in Ctl /\ ifup \in [Ifups -> Ups]
  BY DEF AddressInv, Typed, TypeOK
<1>3. CASE UNCHANGED <<ip, client, iface>>
  BY <1>1, <1>3 DEF AddressInv, ClientInv, AddressHasClient
<1>4. CASE BringDown \/ NoAddress
  <2>1. UNCHANGED <<client, iface>>
    BY <1>4 DEF BringDown, NoAddress
  <2>2. \A w \in Wans : ip'[w] => ip[w]
    BY <1>2, <1>4 DEF BringDown, NoAddress, ifdown
  <2> QED BY <2>1, <2>2, <1>1 DEF AddressInv, ClientInv, AddressHasClient
<1>5. CASE KillClient
  <2>1. ctl.wan \in Wans
    BY <1>2, <1>5 DEF KillClient, Ctl
  <2> QED BY <1>1, <1>5, <2>1, KillKeeps DEF KillClient, AddressInv
<1>6. ASSUME NEW i \in Ifups, IfupStep(i)
      PROVE  AddressInv'
  <2>1. ifup[i].wan \in Wans
    BY <1>2, <1>6 DEF Ups, IfupStep, IfupCheck, IfupDevice, do_ifup, IfupRoute, Ifup
  <2>2. CASE IfupCheck(i) \/ IfupDevice(i)
    BY <1>3, <2>2 DEF IfupCheck, IfupDevice
  <2>3. CASE do_ifup(i)
    BY <1>1, <2>1, <2>3, KillKeeps DEF do_ifup, AddressInv
  <2>4. CASE IfupRoute(i)
    <3>1. UNCHANGED <<ip, client>> /\ (iface' # None => iface'.by = "ifup")
      BY <2>4 DEF IfupRoute, iface_up
    <3> QED BY <1>1, <3>1 DEF AddressInv, ClientInv, AddressHasClient
  <2> QED BY <1>6, <2>2, <2>3, <2>4 DEF IfupStep
<1>7. CASE IfaceUpDone
  <2>1. iface \in [wan : Wans, by : {"ifup", "client"}, st : {1, 3}] /\ client' = client /\ iface' = None
    BY <1>2, <1>7 DEF IfaceUpDone
  <2>2. \A w \in Wans : ip'[w] => ip[w] \/ (w = iface.wan /\ iface.by = "client")
    BY <1>2, <1>7, <2>1 DEF IfaceUpDone
  <2>3. AddressHasClient'
    BY <1>7, <2>1, <2>2 DEF IfaceUpDone, AddressInv, ClientInv, AddressHasClient
  <2> QED BY <1>1, <2>1, <2>3 DEF AddressInv, ClientInv
<1>8. ASSUME NEW w \in Wans, Bound(w)
      PROVE  AddressInv'
  <2>1. ip' = ip /\ client' = [client EXCEPT ![w] = "bound"] /\ (iface' # None => iface'.wan = w)
    BY <1>8 DEF Bound, iface_up
  <2>2. ClientInv' /\ AddressHasClient'
    BY <1>2, <2>1 DEF AddressInv, ClientInv, AddressHasClient
  <2> QED BY <1>1, <2>2 DEF AddressInv
<1>9. ASSUME NEW w \in Wans, LeaseLost(w)
      PROVE  AddressInv'
  <2>1. /\ ip' = [ip EXCEPT ![w] = FALSE] /\ client' = [client EXCEPT ![w] = "trying"]
        /\ iface' = iface
    BY <1>9 DEF LeaseLost, scripts
  <2>2. ClientInv' /\ AddressHasClient'
    BY <1>2, <2>1 DEF AddressInv, ClientInv, AddressHasClient
  <2> QED BY <1>1, <2>2 DEF AddressInv
<1>10. CASE \/ Netstat \/ updown \/ active_stop \/ ReadStatus \/ wandetect \/ Failover
            \/ find_next_backup \/ NetworkStop \/ NetworkStart \/ UNCHANGED vars
            \/ \E w \in Wans : Cable(w) \/ do_connect_cgi(w) \/ do_disconnect_cgi(w)
  BY <1>3, <1>10 DEF Netstat, updown, active_stop, ReadStatus, wandetect, Failover,
     find_next_backup, NetworkStop, NetworkStart, vars, scripts, Cable, do_connect_cgi, do_disconnect_cgi
<1> QED
  BY <1>4, <1>5, <1>6, <1>7, <1>8, <1>9, <1>10 DEF Next, ifcontrol

(* An address in the NVRAM belongs to a DHCP client that is alive, for any *)
(* number of WANs and of ifups that run at the same time.  The invariant   *)
(* adds that the client whose script is inside iface_up is alive: without  *)
(* it that script could store an address after ifdown or do_ifup have      *)
(* killed its client.                                                      *)
THEOREM AddressCorrect == Spec => []AddressHasClient
<1>1. Init => AddressInv
  BY InitTyped DEF AddressInv, Init, ClientInv, AddressHasClient
<1>2. AddressInv /\ [Next]_vars => AddressInv'
  BY AddressStep
<1>3. AddressInv => AddressHasClient
  BY DEF AddressInv
<1> QED BY <1>1, <1>2, <1>3, PTL DEF Spec
=============================================================================
