---------------------------- MODULE MCNvramOptions ----------------------------
(* NvramOptions for TLC: a table with one variable of each kind, one that   *)
(* has two entries and the two that special_processing rewrites.            *)
EXTENDS NvramOptions, TLC

CONSTANTS proc1, proc2, license_key, ssid_default, ssid, ddns, status, vlan2ports,
          ssh_rule, turbonat, factory, second, user

Entry(n, v, o) == [name |-> n, value |-> v, options |-> o]

OneOfEach ==
    << Entry(license_key, Empty, {"PROTECTED"}),
       Entry(ssid_default, factory, {"PROTECTED"}),
       Entry(ssid, Empty, {"DEFAULT"}),
       Entry(ddns, factory, {"EMPTY"}),
       Entry(status, factory, {"TEMP"}),
       Entry(vlan2ports, factory, {}),
       Entry(vlan2ports, second, {}),
       Entry(ssh_rule, factory, {}),
       Entry(turbonat, factory, {}) >>

SsidDefault == [n \in {ssid} |-> ssid_default]

\* ssh, which a user has opened, is closed as in the table; turbonat_enable,
\* off or unset, is switched on.
SshAndTurbonat == <<ssh_rule, turbonat>>
Closing ==
    [n \in Names |-> [c \in Contents |->
        IF n = ssh_rule /\ c = user THEN factory
        ELSE IF n = turbonat /\ c \in {factory, Unset} THEN user ELSE c]]

\* The processes are interchangeable.
Symmetry == Permutations(Procs)

W(n, v) == [name |-> n, val |-> v]

SomeSets == {W(license_key, user), W(ssid, user), W(status, user), W(ssh_rule, user)}
SomeFSets == {W(ssid_default, Unset)}
SomeRules == {vlan2ports}
=============================================================================
