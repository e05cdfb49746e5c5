------------------------------ MODULE WanControl ------------------------------
(***************************************************************************)
(* The WAN connection manager: sbin/ifcontrol with the scripts it runs     *)
(* (ifup, ifdown, wandetect) and the DHCP client's event script, which     *)
(* share the rule set wan_status_rule of the NVRAM.                        *)
(*                                                                         *)
(* One ifcontrol runs at a time: it holds /tmp/.net.lock from its first to *)
(* its last step.  It goes through the WANs twice.  The first loop starts  *)
(* ifup in the background and runs wandetect and ifdown in the foreground; *)
(* the second one decides which WAN takes over from which.  What changes   *)
(* under its feet are the states and addresses of the WANs, through the    *)
(* ifups it has started and through the DHCP clients; neither takes        *)
(* /tmp/.net.lock.                                                         *)
(*                                                                         *)
(* The state of a WAN:  0 down, 1 connecting, 2 has an address, 3 found    *)
(* usable, 4 carries the default route.                                    *)
(*                                                                         *)
(* Taken as fixed: protocol dhcp on every WAN (Wired: over an Ethernet     *)
(* port, else over a modem, whose link is not looked at), no VPN client    *)
(* (wan_pptp_l2tp_rule), no plug and play of modems (wanupnp_rule), and    *)
(* none of the special cases of the brands GMA, PROX and APOLLO.  One      *)
(* nvram command is one step (NvramRules is about what is inside); the     *)
(* commands of ifcontrol that touch only what no other script touches are  *)
(* one step together.  The interface exists and the licence is valid, and  *)
(* a client that is killed ends within the 30 seconds of kill_and_wait.    *)
(* if_serialize_check is left out: all it does to an ifup is to delay it.  *)
(***************************************************************************)
EXTENDS Naturals

CONSTANTS
    NumWans,     \* wan_num
    Type,        \* wan_lb_rule type of each WAN
    Backup,      \* wan_lb_rule backup of each WAN: a WAN or None
    MaxCount,    \* wan_main_rule maxcount: passes to wait for an address
    Wired,       \* the WANs over Ethernet
    Detecting,   \* the WANs whose wan_detect_rule is enabled
    Threshold,   \* wan_detect_rule threshold
    Ifups,       \* names for the ifups that run at the same time
    None,
    Budgets      \* bound: how many requests of the user, and how many faults:
                 \* cables pulled or plugged, leases lost, pings lost, scripts
                 \* still at work when the next pass starts

Wans == 0 .. NumWans - 1

\* the last WAN; its modem may come and go
usb_wan == NumWans - 1

Forced == {"forceup", "forcedown"}
Actions == {"none", "up", "standby", "down"} \cup Forced
Modes == {"start", "start_normal", "stop", "active_stop"}

ASSUME WanAssumption ==
    /\ NumWans \in Nat \ {0}
    /\ Type \in [Wans -> {"alwayson", "backup", "backup_standby"}]
    /\ Backup \in [Wans -> Wans \cup {None}]
    /\ None \notin Wans
    /\ MaxCount \in 1 .. 9999
    /\ Threshold \in Nat \ {0}
    /\ Wired \subseteq Wans /\ Detecting \subseteq Wans
    /\ Budgets \subseteq [requests : Nat, faults : Nat]

VARIABLES
    enable,     \* wan_main_rule enable, written by the web pages
    action,     \* wan_status_rule: what is wanted of the WAN
    state,      \*   ... where it is
    trycount,   \*   ... passes spent in state 1; 9999 is written as MaxCount
    failcount,  \* pings that failed in a row
    ip,         \* does wan<n>_ipaddr hold an address
    client,     \* the DHCP client: off, trying, bound
    cable,      \* is there a link on the WAN's own port
    netstat,    \* does ezp-netstat run, which calls ifcontrol again and again
    request,    \* an ifcontrol of the user that waits for /tmp/.net.lock
    ctl,        \* the ifcontrol that holds /tmp/.net.lock
    ifup,       \* the ifups in the background
    iface,      \* who is inside iface_up, under the lock /tmp/.iface
    budget      \* what is left of one of the Budgets

status == <<action, state, trycount>>
scripts == <<ctl, ifup, iface>>
world == <<enable, cable, netstat, request, budget>>
vars == <<status, failcount, ip, client, scripts, world>>

\* No ifcontrol runs.
Idle == [pc |-> "idle", wan |-> None, plug |-> FALSE, act |-> "none", st |-> 0,
         back |-> None]
NoIfup == [pc |-> "none", wan |-> None]

Control == [pc : {"idle", "stopped", "read", "detect", "down", "downkill", "noip",
                  "noipkill", "failover", "backup"},
            wan : Wans \cup {None}, plug : BOOLEAN,
            act : Actions, st : 0 .. 4, back : Wans \cup {None}]

TypeOK ==
    /\ enable \in [Wans -> BOOLEAN]
    /\ action \in [Wans -> Actions]
    /\ state \in [Wans -> 0 .. 4]
    /\ trycount \in [Wans -> 0 .. MaxCount]
    /\ failcount \in [Wans -> 0 .. Threshold]
    /\ ip \in [Wans -> BOOLEAN]
    /\ client \in [Wans -> {"off", "trying", "bound"}]
    /\ cable \in [Wans -> BOOLEAN]
    /\ netstat \in BOOLEAN
    /\ request \in [mode : Modes, wan : Wans] \cup {None}
    /\ ctl \in Control
    /\ ifup \in [Ifups -> [pc : {"none", "check", "device", "client", "route"},
                           wan : Wans \cup {None}]]
    /\ iface \in [wan : Wans, by : {"ifup", "client"}, st : {1, 3}] \cup {None}
    /\ budget \in [requests : Nat, faults : Nat]

-----------------------------------------------------------------------------
\* Rules of the decisions.

\* do_if: a request of the user is not overridden.
do_if(acts, a, w) ==
    IF acts[w] \in Forced THEN acts ELSE [acts EXCEPT ![w] = a]

\* check_link: the port is sampled once per ifcontrol, for the first WAN, and
\* that sample is used for every WAN over Ethernet.
check_link(w, plug) == w \in Wired => plug

UpActions == {"up", "forceup", "standby"}
DownActions == {"down", "forcedown"}

-----------------------------------------------------------------------------
\* ifcontrol starts, takes the lock and obeys the user (updown).

Fault == budget.faults > 0 /\ budget' = [budget EXCEPT !.faults = @ - 1]

\* ezp-netstat calls "ifcontrol lb" unless some ifcontrol is there, six seconds
\* after the last one.  What ifup and iface_up do takes less, as a rule.
Netstat ==
    /\ netstat /\ request = None /\ ctl = Idle
    /\ IF iface = None /\ \A i \in Ifups : ifup[i] = NoIfup
       THEN budget' = budget ELSE Fault
    /\ ctl' = [Idle EXCEPT !.pc = "read", !.wan = 0]
    /\ UNCHANGED <<status, failcount, ip, client, ifup, iface, enable, cable, netstat, request>>

\* The action that updown writes for a WAN; start and start-normal leave a
\* WAN alone that is neither alwayson nor "standby", a type no WAN has.
UpDownAction(mode, w) ==
    CASE mode = "start" /\ Type[w] = "alwayson" -> do_if(action, "forceup", w)
      [] mode = "start_normal" /\ Type[w] = "alwayson" -> do_if(action, "up", w)
      [] mode = "stop" -> do_if(action, "forcedown", w)
      [] OTHER -> action

\* The ifcontrol of the user gets /tmp/.net.lock.
updown ==
    /\ request # None /\ request.mode # "active_stop" /\ ctl = Idle
    /\ action' = UpDownAction(request.mode, request.wan)
    /\ ctl' = [Idle EXCEPT !.pc = "read", !.wan = 0]
    /\ request' = None
    /\ UNCHANGED <<state, trycount, failcount, ip, client, ifup, iface, enable, cable, netstat, budget>>

\* active_stop overrides even the user's request and runs ifdown at once.
active_stop ==
    /\ request # None /\ request.mode = "active_stop" /\ ctl = Idle
    /\ action' = [action EXCEPT ![request.wan] = "down"]
    /\ state' = [state EXCEPT ![request.wan] = 0]
    /\ ctl' = [Idle EXCEPT !.pc = "stopped", !.wan = request.wan]
    /\ request' = None
    /\ UNCHANGED <<trycount, failcount, ip, client, ifup, iface, enable, cable, netstat, budget>>

-----------------------------------------------------------------------------
\* The first loop of load_balance_failover_action.

\* On to the next WAN of a loop, or to what comes after the loop.
NextRound(c, pc, after) ==
    IF c.wan + 1 < NumWans
    THEN [c EXCEPT !.pc = pc, !.wan = @ + 1, !.act = "none", !.st = 0, !.back = None]
    ELSE after

FirstLoopRound(c) ==
    NextRound(c, "read", [c EXCEPT !.pc = "failover", !.wan = 0, !.act = "none", !.st = 0])

\* The step of the round that matters next, for the status c has read.
AfterDown(c) == IF c.st = 4 THEN [c EXCEPT !.pc = "noip"] ELSE FirstLoopRound(c)

(* Mutant: ifdown only from state 1 on, the condition ifcontrol has in a   *)
(* comment: an ifup that has not written its state yet is missed.          *)
AfterUpStarted(c) ==
    IF (c.act \in DownActions /\ c.st >= 1) \/ (c.st = 4 /\ c.act = "standby")
    THEN [c EXCEPT !.pc = "down"] ELSE AfterDown(c)

AfterUp(c) ==
    IF c.act \in DownActions \/ (c.st = 4 /\ c.act = "standby")
    THEN [c EXCEPT !.pc = "down"] ELSE AfterDown(c)

\* Start ifup in the background, from 0 towards 2 or from 3 towards 4.
BringUp(c) ==
    /\ IF \/ c.act \in UpActions /\ c.st = 0 /\ check_link(c.wan, c.plug)
          \/ c.act \in {"up", "forceup"} /\ c.st = 3
       THEN LET free == {i \in Ifups : ifup[i] = NoIfup}
            IN  /\ free # {}
                /\ ifup' = [ifup EXCEPT ![CHOOSE i \in free : TRUE] =
                                [pc |-> "check", wan |-> c.wan]]
       ELSE ifup' = ifup
    /\ ctl' = AfterUp(c)

\* Read the status of the WAN that the rest of the round relies on.
ReadStatus ==
    /\ ctl.pc = "read"
    /\ LET w == ctl.wan
           c == [ctl EXCEPT !.act = action[w], !.st = state[w],
                            !.plug = IF w = 0 THEN cable[0] ELSE ctl.plug]
       IN  IF enable[w] /\ c.st >= 2
           THEN ctl' = [c EXCEPT !.pc = "detect"] /\ UNCHANGED <<trycount, ifup>>
           ELSE /\ BringUp(c)
                /\ trycount' = IF c.act \in UpActions /\ c.st = 0 /\ check_link(w, c.plug)
                               THEN [trycount EXCEPT ![w] = 0] ELSE trycount
    /\ UNCHANGED <<action, state, failcount, ip, client, iface, world>>

\* iface_detect: a ping needs an address on the interface, and may fail even
\* so; the threshold-th failure in a row counts (result 2, "dead").
iface_detect(w, dead, fails, lost) ==
    IF w \in Detecting
    THEN /\ lost => client[w] = "bound"
         /\ fails = IF ~ lost /\ client[w] = "bound" THEN 0
                    ELSE IF failcount[w] + 1 >= Threshold THEN Threshold
                    ELSE failcount[w] + 1
         /\ dead = (fails = Threshold)
    ELSE ~ lost /\ fails = 0 /\ dead = ~ ip[w]

\* wandetect: state 2 becomes 3; a dead WAN has its tries used up.
wandetect ==
    /\ ctl.pc = "detect"
    /\ \E dead \in BOOLEAN, fails \in 0 .. Threshold, lost \in BOOLEAN :
         LET w == ctl.wan
         IN  /\ IF state[w] >= 2 THEN iface_detect(w, dead, fails, lost)
                ELSE ~ dead /\ ~ lost /\ fails = failcount[w]
             /\ failcount' = [failcount EXCEPT ![w] = fails]
             /\ trycount' = IF dead THEN [trycount EXCEPT ![w] = MaxCount] ELSE trycount
             /\ state' = IF state[w] = 2 /\ ~ dead THEN [state EXCEPT ![w] = 3] ELSE state
             /\ IF lost THEN Fault ELSE budget' = budget
    /\ BringUp(ctl)
    /\ UNCHANGED <<action, ip, client, iface, enable, cable, netstat, request>>

\* ifdown up to the kill of the client.  It reads the action again: a standby
\* WAN keeps its client and goes to 3, but iface_down removes the address all
\* the same, because its branch *) stands before standby).
ifdown(w, done, killing) ==
    IF action[w] = "standby"
    THEN /\ state' = [state EXCEPT ![w] = 3]
         /\ ip' = [ip EXCEPT ![w] = FALSE]
         /\ ctl' = done
    ELSE /\ state' = [state EXCEPT ![w] = 0]
         /\ ctl' = [ctl EXCEPT !.pc = killing]
         /\ ip' = ip

BringDown ==
    /\ ctl.pc = "down"
    /\ ifdown(ctl.wan, AfterDown(ctl), "downkill")
    /\ UNCHANGED <<action, trycount, failcount, client, ifup, iface, world>>

(* Mutant: a connected WAN is not looked at again. *)
NoAddressIgnored ==
    /\ ctl.pc = "noip"
    /\ ctl' = FirstLoopRound(ctl)
    /\ UNCHANGED <<status, failcount, ip, client, ifup, iface, world>>

\* A connected WAN without an address goes down.
NoAddress ==
    /\ ctl.pc = "noip"
    /\ IF ~ ip[ctl.wan]
       THEN ifdown(ctl.wan, FirstLoopRound(ctl), "noipkill")
       ELSE ctl' = FirstLoopRound(ctl) /\ UNCHANGED <<state, ip>>
    /\ UNCHANGED <<action, trycount, failcount, client, ifup, iface, world>>

(* Mutant: the client ends without deconfig, as after kill -9. *)
ReleasedSilently(w) ==
    /\ ~ (iface # None /\ iface.wan = w /\ iface.by = "client")
    /\ ip' = ip

\* kill_and_wait: the client finishes the script it is in, gives its address
\* back (deconfig, iface_down) and ends.
Released(w) ==
    /\ ~ (iface # None /\ iface.wan = w /\ iface.by = "client")
    /\ ip' = IF client[w] # "off" THEN [ip EXCEPT ![w] = FALSE] ELSE ip

KillClient ==
    /\ ctl.pc \in {"stopped", "downkill", "noipkill"}
    /\ Released(ctl.wan)
    /\ client' = [client EXCEPT ![ctl.wan] = "off"]
    /\ ctl' = CASE ctl.pc = "stopped" -> [ctl EXCEPT !.pc = "read", !.wan = 0]
                [] ctl.pc = "downkill" -> AfterDown(ctl)
                [] OTHER -> FirstLoopRound(ctl)
    /\ UNCHANGED <<status, failcount, ifup, iface, world>>

-----------------------------------------------------------------------------
\* The second loop: failover.  Only the holder of /tmp/.net.lock touches
\* action and trycount, and the state is read once, so one round is atomic up
\* to the calls of find_next_backup.

(* Mutant: the failover does not look at the link. *)
TriesCounted(w) == trycount[w]

Tries(w) == IF check_link(w, ctl.plug) THEN trycount[w] ELSE MaxCount

\* The actions written before find_next_backup.
FirstDecisions(w, st) ==
    LET forced == IF action[w] = "forceup" /\ st = 4
                  THEN [action EXCEPT ![w] = "up"] ELSE action
        always == IF Type[w] = "alwayson" /\ st = 0 THEN do_if(forced, "up", w) ELSE forced
        ready == IF Type[w] = "backup_standby" /\ st = 0
                 THEN do_if(always, IF w = usb_wan THEN "up" ELSE "standby", w) ELSE always
        backup == IF Tries(w) >= MaxCount /\ Backup[w] # None
                  THEN do_if(ready, "up", Backup[w]) ELSE ready
    IN  IF action[w] = "forcedown" /\ st = 0 THEN [backup EXCEPT ![w] = "down"] ELSE backup

(* Mutant: the tries are counted on when they are used up. *)
LastDecisionCounts(acts, w, st) ==
    /\ action' = IF Tries(w) >= MaxCount THEN do_if(acts, "down", w) ELSE acts
    /\ trycount' = [trycount EXCEPT ![w] =
                      IF st >= 2 THEN 0 ELSE IF st = 1 THEN Tries(w) + 1 ELSE Tries(w)]
    /\ ctl' = NextRound(ctl, "failover", Idle)

\* A WAN whose tries are used up goes down; otherwise they are counted.
LastDecision(acts, w, st) ==
    /\ action' = IF Tries(w) >= MaxCount THEN do_if(acts, "down", w) ELSE acts
    /\ trycount' = [trycount EXCEPT ![w] =
                      IF Tries(w) >= MaxCount \/ st >= 2 THEN 0
                      ELSE IF st = 1 THEN Tries(w) + 1 ELSE Tries(w)]
    /\ ctl' = NextRound(ctl, "failover", Idle)

Failover ==
    /\ ctl.pc = "failover"
    /\ LET w == ctl.wan
           acts == FirstDecisions(w, state[w])
       IN  \/ /\ ~ enable[w]
              /\ ctl' = NextRound(ctl, "failover", Idle)
              /\ UNCHANGED <<action, trycount>>
           \/ /\ enable[w] /\ state[w] >= 3 /\ action[w] = "up" /\ Tries(w) = 0
              /\ ctl' = [ctl EXCEPT !.pc = "backup", !.st = state[w], !.back = w]
              /\ action' = acts
              /\ trycount' = trycount
           \/ /\ enable[w] /\ ~ (state[w] >= 3 /\ action[w] = "up" /\ Tries(w) = 0)
              /\ LastDecision(acts, w, state[w])
    /\ UNCHANGED <<state, failcount, ip, client, ifup, iface, world>>

(* Mutant: the recursion passes the WAN it was called with. *)
find_same_backup ==
    /\ ctl.pc = "backup"
    /\ LET b == Backup[ctl.back]
       IN  IF b = None THEN LastDecision(action, ctl.wan, ctl.st)
           ELSE /\ action' = IF action[b] = "up" THEN do_if(action, "down", b) ELSE action
                /\ UNCHANGED <<ctl, trycount>>
    /\ UNCHANGED <<state, failcount, ip, client, ifup, iface, world>>

(* Mutant: the backup stays up. *)
find_no_backup ==
    /\ ctl.pc = "backup"
    /\ LastDecision(action, ctl.wan, ctl.st)
    /\ UNCHANGED <<state, failcount, ip, client, ifup, iface, world>>

\* One call of find_next_backup, for the WAN in ctl.back; it calls itself with
\* the backup of the backup.
find_next_backup ==
    /\ ctl.pc = "backup"
    /\ LET b == Backup[ctl.back]
       IN  IF b = None
           THEN LastDecision(action, ctl.wan, ctl.st)
           ELSE /\ ctl' = [ctl EXCEPT !.back = b]
                /\ action' = IF action[b] = "up" /\ Type[b] = "backup_standby"
                             THEN do_if(action, "standby", b)
                             ELSE IF action[b] = "up" /\ Type[b] = "backup"
                             THEN do_if(action, "down", b) ELSE action
                /\ trycount' = trycount
    /\ UNCHANGED <<state, failcount, ip, client, ifup, iface, world>>

ifcontrol ==
    \/ ReadStatus \/ wandetect \/ BringDown \/ NoAddress \/ KillClient
    \/ Failover \/ find_next_backup

-----------------------------------------------------------------------------
\* ifup, in the background.

Ifup(i, pc) == ifup[i].pc = pc

\* It gives up on a disabled WAN and on one that is on its way already.
IfupCheck(i) ==
    /\ Ifup(i, "check")
    /\ LET w == ifup[i].wan
       IN  ifup' = [ifup EXCEPT ![i] =
             IF ~ enable[w] \/ state[w] \in {1, 2, 4} THEN NoIfup
             ELSE [@ EXCEPT !.pc = IF state[w] = 3 THEN "route" ELSE "device"]]
    /\ UNCHANGED <<status, failcount, ip, client, ctl, iface, world>>

IfupDevice(i) ==
    /\ Ifup(i, "device")
    /\ state' = [state EXCEPT ![ifup[i].wan] = 1]
    /\ ifup' = [ifup EXCEPT ![i].pc = "client"]
    /\ UNCHANGED <<action, trycount, failcount, ip, client, ctl, iface, world>>

\* do_ifup: an old client is killed and a new one started.
do_ifup(i) ==
    /\ Ifup(i, "client")
    /\ Released(ifup[i].wan)
    /\ client' = [client EXCEPT ![ifup[i].wan] = "trying"]
    /\ ifup' = [ifup EXCEPT ![i] = NoIfup]
    /\ UNCHANGED <<status, failcount, ctl, iface, world>>

\* iface_up takes its lock and reads the state again; in the states 1 and 3
\* it sets the WAN up, which takes a while.
iface_up(w, by) ==
    /\ iface = None
    /\ iface' = IF state[w] \in {1, 3} THEN [wan |-> w, by |-> by, st |-> state[w]] ELSE None

IfupRoute(i) ==
    /\ Ifup(i, "route")
    /\ iface_up(ifup[i].wan, "ifup")
    /\ ifup' = [ifup EXCEPT ![i] = NoIfup]
    /\ UNCHANGED <<status, failcount, ip, client, ctl, world>>

\* ... and then writes the state it leads to, whatever the state is by then.
\* ifup passes no address, so from 1 it would store an empty one.
IfaceUpDone ==
    /\ iface # None
    /\ state' = [state EXCEPT ![iface.wan] = iface.st + 1]
    /\ ip' = IF iface.st = 1 THEN [ip EXCEPT ![iface.wan] = (iface.by = "client")] ELSE ip
    /\ iface' = None
    /\ UNCHANGED <<action, trycount, failcount, client, ctl, ifup, world>>

\* The event script of the DHCP client on bound and renew: it does nothing
\* when the address is the one the NVRAM holds.
Bound(w) ==
    /\ client[w] # "off" /\ ~ ip[w]
    /\ w \in Wired => cable[w]
    /\ iface_up(w, "client")
    /\ client[w] = "trying" \/ iface' # None
    /\ client' = [client EXCEPT ![w] = "bound"]
    /\ UNCHANGED <<status, failcount, ip, ctl, ifup, world>>

-----------------------------------------------------------------------------
\* The world outside.

Request == budget.requests > 0 /\ budget' = [budget EXCEPT !.requests = @ - 1]

\* The lease ends: deconfig removes the address, the client goes on.
LeaseLost(w) ==
    /\ client[w] = "bound" /\ Fault
    /\ ~ (iface # None /\ iface.wan = w /\ iface.by = "client")
    /\ client' = [client EXCEPT ![w] = "trying"]
    /\ ip' = [ip EXCEPT ![w] = FALSE]
    /\ UNCHANGED <<status, failcount, scripts, enable, cable, netstat, request>>

Cable(w) ==
    /\ w \in Wired /\ Fault
    /\ cable' = [cable EXCEPT ![w] = ~ @]
    /\ UNCHANGED <<status, failcount, ip, client, scripts, enable, netstat, request>>

\* The web page writes enable without a lock and then calls ifcontrol.
NoUser == request = None

Ask(mode, w) == request' = [mode |-> mode, wan |-> w]

do_connect_cgi(w) ==
    /\ NoUser /\ Request
    /\ enable' = [enable EXCEPT ![w] = TRUE]
    /\ Ask("start", w)
    /\ UNCHANGED <<status, failcount, ip, client, scripts, cable, netstat>>

do_disconnect_cgi(w) ==
    /\ NoUser /\ Request
    /\ enable' = [enable EXCEPT ![w] = FALSE]
    /\ Ask("stop", w)
    /\ UNCHANGED <<status, failcount, ip, client, scripts, cable, netstat>>

\* init.d/network-wan: stop ends ezp-netstat and takes the first WAN down;
\* start starts ezp-netstat or, when it runs, that WAN.
NetworkStop ==
    /\ NoUser /\ Request
    /\ netstat' = FALSE
    /\ Ask("active_stop", 0)
    /\ UNCHANGED <<status, failcount, ip, client, scripts, enable, cable>>

NetworkStart ==
    /\ NoUser /\ Request
    /\ IF netstat THEN Ask("start_normal", 0) /\ netstat' = netstat
       ELSE netstat' = TRUE /\ request' = request
    /\ UNCHANGED <<status, failcount, ip, client, scripts, enable, cable>>

-----------------------------------------------------------------------------
Init ==
    /\ enable = [w \in Wans |-> TRUE]
    /\ action = [w \in Wans |-> "none"]
    /\ state = [w \in Wans |-> 0]
    /\ trycount = [w \in Wans |-> 0]
    /\ failcount = [w \in Wans |-> 0]
    /\ ip = [w \in Wans |-> FALSE]
    /\ client = [w \in Wans |-> "off"]
    /\ cable = [w \in Wans |-> TRUE]
    /\ netstat = TRUE
    /\ request = None
    /\ ctl = Idle
    /\ ifup = [i \in Ifups |-> NoIfup]
    /\ iface = None
    /\ budget \in Budgets

IfupStep(i) == IfupCheck(i) \/ IfupDevice(i) \/ do_ifup(i) \/ IfupRoute(i)

Next ==
    \/ Netstat \/ updown \/ active_stop \/ ifcontrol \/ IfaceUpDone \/ NetworkStop \/ NetworkStart
    \/ \E i \in Ifups : IfupStep(i)
    \/ \E w \in Wans : \/ Bound(w) \/ LeaseLost(w) \/ Cable(w)
                       \/ do_connect_cgi(w) \/ do_disconnect_cgi(w)

\* The WAN waits for its address and has more than one pass left.  (An address
\* that comes while the last one runs is too late: the tries are compared
\* before state 2 resets them.)
InTime(w) == state[w] = 1 /\ action[w] \in UpActions /\ trycount[w] + 1 < MaxCount

\* Every script runs on, ezp-netstat calls ifcontrol again, and a DHCP client
\* that asks again and again is answered in time, again and again.
Fairness ==
    /\ WF_vars(Netstat) /\ WF_vars(updown \/ active_stop) /\ WF_vars(ifcontrol)
    /\ WF_vars(IfaceUpDone)
    /\ \A i \in Ifups : WF_vars(IfupStep(i))
    /\ \A w \in Wans : WF_vars(Bound(w)) /\ SF_vars(Bound(w) /\ InTime(w))

Spec == Init /\ [][Next]_vars /\ Fairness

-----------------------------------------------------------------------------
\* Properties.

\* An address in the NVRAM belongs to a DHCP client that is alive: however
\* ifup, ifdown and the client's script interleave, ifdown and do_ifup leave
\* no address behind when they have killed the client that stored it.
AddressHasClient == \A w \in Wans : ip[w] => client[w] # "off"

\* Nothing stands in the way of the WAN.
Ready(w) == enable[w] /\ netstat /\ (w \in Wired => cable[w] /\ cable[0])

\* An alwayson WAN that nothing stands in the way of connects and stays
\* connected, whatever ifups, ifdowns and lost leases have left behind, once
\* no forced start is pending.
AlwaysOnConnects ==
    \A w \in Wans : Type[w] = "alwayson" =>
        (<>[](Ready(w) /\ action[w] # "forceup") => <>[](state[w] = 4 /\ ip[w]))

\* ifcontrol says of itself: "force a wan# to start until state 4".
ForceupConnects ==
    \A w \in Wans : <>[]Ready(w) => [](action[w] = "forceup" => <>(state[w] = 4))

\* While the cable of a WAN is out, its backup connects and stays connected.
BackupTakesOver ==
    \A w \in Wired, b \in Wans : Backup[w] = b =>
        (<>[](enable[w] /\ ~ cable[w] /\ Ready(b)) => <>[](state[b] = 4))

\* Once an alwayson WAN is well again, its backup is taken down for good, and
\* no DHCP client of it is left over.
BackupRests ==
    \A w, b \in Wans : (Type[w] = "alwayson" /\ Backup[w] = b /\ Type[b] = "backup") =>
        (<>[](Ready(w) /\ Ready(b) /\ action[w] # "forceup") => <>[](state[b] = 0 /\ client[b] = "off"))

\* A WAN that the user has disconnected goes down and stays down, even when an
\* ifup was under way; a request to connect that is still pending comes first.
DisconnectSticks ==
    \A w \in Wans :
        <>[](~ enable[w] /\ netstat /\ action[w] # "forceup")
          => <>[](state[w] = 0 /\ client[w] = "off" /\ ~ ip[w])

\* Every ifcontrol comes to its end and gives /tmp/.net.lock back: no chain of
\* backups, no kill and no ifup keeps it for ever.
PassEnds == []<>(ctl = Idle)
=============================================================================
