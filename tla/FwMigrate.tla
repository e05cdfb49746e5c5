------------------------------ MODULE FwMigrate ------------------------------
(***************************************************************************)
(* Settings follow the firmware: every firmware version that changed the   *)
(* format of a setting has a function that converts the settings from the  *)
(* version before it and one that converts them back.  At boot             *)
(* "nvram upgrade" runs the functions from the version the settings were   *)
(* saved under (fw_version) to the running one; before an image is written *)
(* "mtd write" runs "nvram downgrade", which takes the settings back if    *)
(* the new image is older; "nvram import" loads a file saved by another    *)
(* version and upgrades it.  (package/ezp-nvram/src/nvram_linux.c)         *)
(*                                                                         *)
(* Memory is lost with the power; what the last commit stored survives     *)
(* (NvramFlash shows that a commit is atomic).  A version is a record: its *)
(* number and the suffix of its build ("3.2.1-RC3").  The conversion       *)
(* functions are abstracted to the format level they expect and leave (the *)
(* ones that load defaults too) and to whether they commit; one that is    *)
(* run on any other level garbles the settings.                            *)
(***************************************************************************)
EXTENDS Integers

CONSTANTS
    LastVersion,    \* versions are numbered 0..LastVersion
    Suffixes,       \* suffixes of version strings
    NoSuffix,       \* the one of "3.2.1"
    Files,          \* version strings of configuration files to import
    UpCommits,      \* versions whose upgrade function commits (3.2.1, 3.2.2)
    DownCommits,    \* versions whose downgrade function commits (3.2.0)
    Off,            \* no settings in memory: the power is off
    LossInWindow,   \* may the power fail in the middle of an upgrade
    CommitInWindow, \* may another process commit half-converted settings
    AnyRecovery     \* may the boot loader put an older image into flash

ASSUME ConstantsAssumption == LastVersion \in Nat /\ NoSuffix \in Suffixes

ASSUME SwitchesAssumption == {LossInWindow, CommitInWindow, AnyRecovery} \subseteq BOOLEAN

Levels == 0 .. LastVersion
Garbled == -1
Strings == [base : Levels, suffix : Suffixes]

ASSUME FilesAssumption == Files \subseteq Strings

ASSUME CommitsAssumption == UpCommits \subseteq Levels /\ DownCommits \subseteq Levels

\* ssh_rule: which firmware somebody enabled ssh under; none while it is closed
Closed == {}
Settings == [ver : Strings, fmt : Levels \cup {Garbled}, ssh : SUBSET Strings]

ASSUME OffAssumption == Off \notin Settings

VARIABLES
    fw,     \* the firmware in flash: its version string
    disk,   \* the committed settings
    mem,    \* the settings in memory
    job,    \* who called: "boot", "import", "flash"
    pc,     \* where that call is
    src,    \* old_str: the version the settings come from
    target, \* the image "mtd write" is to write
    i,      \* index of the next conversion function
    change  \* nvram_upgrade and nvram_downgrade return it

vars == <<fw, disk, mem, job, pc, src, target, i, change>>

Init ==
    /\ fw \in Strings
    /\ disk = [ver |-> fw, fmt |-> fw.base, ssh |-> Closed]
    /\ mem = Off
    /\ job = "boot" /\ pc = "off"
    /\ src = fw /\ target = fw
    /\ i = 0
    /\ change = FALSE

\* the version string the settings are marked with by fw_version_update; mtd
\* passes the number of the image only
Pure(v) == [base |-> v.base, suffix |-> NoSuffix]
Destination == IF job = "flash" THEN Pure(target) ELSE fw

\* nvram_fw_table of a firmware ends with its own version
Listed(v) == v.base <= fw.base

\* A mistake the checks must find: only the numbers of the versions compared.
EnterByNumber(who, from, to) ==
    /\ job' = who
    /\ src' = from
    /\ pc' = IF from.base = to.base THEN "lookup" ELSE "special"
    /\ change' = FALSE
    /\ i' = 0

\* A call starts: the special processing and the version update are skipped
\* when the version strings are equal.
Enter(who, from, to) ==
    /\ job' = who
    /\ src' = from
    /\ pc' = IF from = to THEN "lookup" ELSE "special"
    /\ change' = FALSE
    /\ i' = 0

\* Power on: /etc/preinit runs "nvram upgrade" and nobody else is there.
PowerOn ==
    /\ pc = "off"
    /\ mem' = disk
    /\ Enter("boot", disk.ver, fw)
    /\ UNCHANGED <<fw, disk, target>>

\* special_processing: closes the backdoor, commits.
SpecialProcessing ==
    /\ pc = "special"
    /\ mem' = [mem EXCEPT !.ssh = Closed]
    /\ disk' = mem'
    /\ change' = TRUE
    /\ pc' = IF job = "flash" THEN "lookup" ELSE "version"
    /\ UNCHANGED <<fw, job, src, target, i>>

\* fw_version_update: before the conversions of an upgrade, after those of a
\* downgrade; commits.
FwVersionUpdate ==
    /\ pc = "version"
    /\ mem' = [mem EXCEPT !.ver = Destination]
    /\ disk' = mem'
    /\ pc' = IF job = "flash" THEN "finish" ELSE "lookup"
    /\ UNCHANGED <<fw, job, src, target, i, change>>

\* A mistake the checks must find: the loop starts at old.
LookupFromOld ==
    /\ pc = "lookup" /\ job # "flash"
    /\ Listed(src)
    /\ i' = src.base
    /\ pc' = IF src.base < fw.base THEN "convert" ELSE "finish"
    /\ UNCHANGED <<fw, disk, mem, job, src, target, change>>

\* nvram_upgrade finds both versions in the table and is to convert from
\* old + 1 to new.
LookupUpgrade ==
    /\ pc = "lookup" /\ job # "flash"
    /\ Listed(src)
    /\ i' = src.base + 1
    /\ pc' = IF src.base < fw.base THEN "convert" ELSE "finish"
    /\ UNCHANGED <<fw, disk, mem, job, src, target, change>>

\* It does not find the old one: old = 0xEFFFFFFF is a negative int, so
\* old < new.  The entries are 16 bytes, the address of entry old + 1 wraps
\* to that of entry 0, and the loop calls every function of the table ...
LookupUnknown ==
    /\ pc = "lookup" /\ job # "flash"
    /\ ~Listed(src)
    /\ i' = 0
    /\ pc' \in {"wild", "dead"}
    /\ UNCHANGED <<fw, disk, mem, job, src, target, change>>

\* nvram_downgrade: a target that is not in the table is NVRAM_FW_INVALID,
\* greater than all, and an old version that is not is 0: nothing to convert.
Downgrades == Listed(src) /\ Listed(target) /\ src.base > target.base

LookupDowngrade ==
    /\ pc = "lookup" /\ job = "flash"
    /\ i' = src.base
    /\ pc' = IF Downgrades THEN "convert" ELSE "finish"
    /\ UNCHANGED <<fw, disk, mem, job, src, target, change>>

\* fw_upgrade_func and fw_downgrade_func of table entry n, on settings of
\* level f (entry 0 has none)
UpgradeFunc(f, n) == IF n = 0 THEN f ELSE IF f = n - 1 THEN n ELSE Garbled
DowngradeFunc(f, n) == IF f = n /\ n > 0 THEN n - 1 ELSE Garbled

\* some of them commit what they have done
FuncCommits(committing) == disk' = IF i \in committing THEN mem' ELSE disk

ConvertUp ==
    /\ pc = "convert" /\ job # "flash"
    /\ mem' = [mem EXCEPT !.fmt = UpgradeFunc(@, i)]
    /\ FuncCommits(UpCommits)
    /\ i' = i + 1
    /\ pc' = IF i = fw.base THEN "finish" ELSE "convert"
    /\ change' = TRUE
    /\ UNCHANGED <<fw, job, src, target>>

\* A mistake the checks must find: the loop ends one function early.
ConvertDownShort ==
    /\ pc = "convert" /\ job = "flash"
    /\ mem' = [mem EXCEPT !.fmt = DowngradeFunc(@, i)]
    /\ FuncCommits(DownCommits)
    /\ i' = i - 1
    /\ pc' = IF i <= target.base + 2 THEN "version" ELSE "convert"
    /\ change' = TRUE
    /\ UNCHANGED <<fw, job, src, target>>

ConvertDown ==
    /\ pc = "convert" /\ job = "flash"
    /\ mem' = [mem EXCEPT !.fmt = DowngradeFunc(@, i)]
    /\ FuncCommits(DownCommits)
    /\ i' = i - 1
    /\ pc' = IF i = target.base + 1 THEN "version" ELSE "convert"
    /\ change' = TRUE
    /\ UNCHANGED <<fw, job, src, target>>

\* ... and goes on past its end, where the process dies.
ConvertWild ==
    /\ pc = "wild"
    /\ mem' = [mem EXCEPT !.fmt = UpgradeFunc(@, i)]
    /\ FuncCommits(UpCommits)
    /\ i' = i + 1
    /\ pc' = IF i = fw.base THEN "dead" ELSE "wild"
    /\ UNCHANGED <<fw, job, src, target, change>>

\* The callers go on without the process that died.
Dead ==
    /\ pc = "dead"
    /\ pc' = "up"
    /\ UNCHANGED <<fw, disk, mem, job, src, target, i, change>>

\* The nvram command commits when there was a change; who imports a file
\* commits always.  mtd goes on to write the image.
Finish ==
    /\ pc = "finish"
    /\ disk' = IF change \/ job = "import" THEN mem ELSE disk
    /\ pc' = IF job = "flash" THEN "write" ELSE "up"
    /\ UNCHANGED <<fw, mem, job, src, target, i, change>>

\* mtd write: the image is written and the system restarted.
WriteImage ==
    /\ pc = "write"
    /\ fw' = target
    /\ pc' = "off"
    /\ mem' = Off
    /\ UNCHANGED <<disk, job, src, target, i, change>>

StartFlash(image) ==
    /\ pc = "up"
    /\ target' = image
    /\ Enter("flash", mem.ver, Pure(image))
    /\ UNCHANGED <<fw, disk, mem>>

\* A mistake the checks must find: a file of an unknown version is accepted.
ImportUnknown(file, ssh) ==
    /\ pc = "up"
    /\ mem' = [mem EXCEPT !.fmt = file.base, !.ssh = ssh]
    /\ Enter("import", Pure(file), fw)
    /\ UNCHANGED <<fw, disk, target>>

\* nvram_import refuses a file of a version it does not know or that is newer;
\* the settings of another one replace the present ones.  It keeps only the
\* number of the file's version.
StartImport(file, ssh) ==
    /\ pc = "up"
    /\ Listed(file)
    /\ mem' = [mem EXCEPT !.fmt = file.base, !.ssh = ssh]
    /\ Enter("import", Pure(file), fw)
    /\ UNCHANGED <<fw, disk, target>>

\* From /etc/preinit on, the other processes run: stop_services.sh leaves httpd
\* alone while an image is flashed.
OthersRun == pc # "off" /\ (job = "boot" => pc = "up")

\* A downgrade whose special_processing is over.
PastClosing ==
    /\ job = "flash" /\ Downgrades
    /\ pc \in {"lookup", "convert", "version", "finish", "write"}

\* Somebody enables ssh, under the running firmware and, if a downgrade is past
\* its special_processing, also on behalf of the image to come.
EnableSsh ==
    /\ OthersRun
    /\ mem' = [mem EXCEPT !.ssh = {fw} \cup (IF PastClosing THEN {Pure(target)} ELSE {})]
    /\ UNCHANGED <<fw, disk, job, pc, src, target, i, change>>

\* An import or a downgrade has replaced the settings in memory and is not done.
HalfConverted ==
    \/ job = "import" /\ pc # "up"
    \/ job = "flash" /\ pc \in {"convert", "version"}

\* Any process may commit once the system is up.
OtherCommit ==
    /\ OthersRun
    /\ CommitInWindow \/ ~HalfConverted
    /\ disk' = mem
    /\ UNCHANGED <<fw, mem, job, pc, src, target, i, change>>

\* Between the commit of the new fw_version (of the imported settings) and the
\* commit of the converted ones; in a downgrade, between the commit of a
\* conversion function and that of the new fw_version.
InWindow ==
    \/ /\ job = "flash" /\ pc \in {"convert", "version"}
       /\ \E n \in DownCommits : i < n /\ n <= src.base
    \/ job = "boot" /\ pc \in {"lookup", "convert", "wild", "dead", "finish"}
    \/ job = "import" /\ pc \in {"version", "lookup", "convert", "finish"}

PowerLoss ==
    /\ pc # "off"
    /\ LossInWindow \/ ~InWindow
    /\ mem' = Off
    /\ pc' = "off"
    /\ UNCHANGED <<fw, disk, job, src, target, i, change>>

\* external: the boot loader's recovery writes an image, with no downgrade
Recovery(image) ==
    /\ pc = "off"
    /\ AnyRecovery \/ image.base >= disk.ver.base
    /\ fw' = image
    /\ UNCHANGED <<disk, mem, job, pc, src, target, i, change>>

Next ==
    \/ PowerOn \/ SpecialProcessing \/ FwVersionUpdate
    \/ LookupUpgrade \/ LookupUnknown \/ LookupDowngrade
    \/ ConvertUp \/ ConvertDown \/ ConvertWild \/ Dead
    \/ Finish \/ WriteImage
    \/ \E image \in Strings : StartFlash(image) \/ Recovery(image)
    \/ \E file \in Files : \E ssh \in {Closed, {file}} : StartImport(file, ssh)
    \/ EnableSsh \/ OtherCommit \/ PowerLoss

Spec == Init /\ [][Next]_vars

-----------------------------------------------------------------------------
\* The variables have their types: no setting is in memory exactly while the
\* power is off, and a conversion function is only called while it is in the
\* table (the index of nvram_upgrade's and nvram_downgrade's loops).
TypeOK ==
    /\ fw \in Strings
    /\ disk \in Settings
    /\ IF pc = "off" THEN mem = Off ELSE mem \in Settings
    /\ job \in {"boot", "import", "flash"}
    /\ pc \in {"off", "special", "version", "lookup", "convert", "wild", "dead",
               "finish", "write", "up"}
    /\ src \in Strings /\ target \in Strings
    /\ i \in 0 .. LastVersion + 1
    /\ pc = "convert" => i \in 1 .. fw.base
    /\ change \in BOOLEAN

\* Once "nvram upgrade" has run, the settings in memory have the format of
\* the running firmware, whichever versions were installed, imported or
\* flashed before and wherever the power failed (nvram_upgrade,
\* nvram_downgrade, nvram_import).
FormatMatches == pc = "up" => mem.fmt = fw.base

\* Whenever the power may fail, the committed settings have the format of the
\* version they are marked with and the firmware in flash knows that version:
\* that is what lets the next "nvram upgrade" do the right thing.
DiskOK == ~InWindow => disk.fmt = disk.ver.base /\ Listed(disk.ver)

\* An upgrade (at boot or of an imported file) has the settings at the level
\* of src until it converts them, then at the one before function i.
UpgradeOK ==
    job \in {"boot", "import"} /\ pc \notin {"off", "up"} =>
        /\ Listed(src)
        /\ pc \notin {"wild", "dead", "write"}
        /\ pc \in {"special", "version", "lookup"} => mem.fmt = src.base
        /\ pc \in {"special", "version"} /\ job = "boot" => mem.ver = src
        /\ pc = "convert" => mem.fmt = i - 1
        /\ pc = "finish" => mem.fmt = fw.base
        /\ pc \in {"lookup", "convert", "finish"} \/ job = "import" => mem.ver = fw
        /\ pc \in {"lookup", "finish"} /\ job = "boot" /\ ~change => disk = mem

\* A downgrade starts from the running version; when it is done, neither the
\* settings in memory nor those in flash are newer than the image to write.
DowngradeOK ==
    job = "flash" /\ pc \notin {"off", "up"} =>
        /\ pc \notin {"wild", "dead"}
        /\ pc \in {"special", "lookup", "convert", "version"} => mem.ver = fw /\ src = fw
        /\ pc \in {"special", "lookup"} => mem.fmt = fw.base
        /\ pc = "convert" => mem.fmt = i /\ i > target.base
        /\ pc = "version" => mem.fmt = target.base
        /\ pc \in {"convert", "version"} => target.base < fw.base
        /\ pc \in {"finish", "write"} =>
             /\ mem.fmt = mem.ver.base /\ mem.ver.base <= fw.base
             /\ mem.ver.base <= target.base /\ disk.ver.base <= target.base

\* The inductive invariant behind FormatMatches: flash and memory are
\* consistent with what the running call has still to do.
MigrateInv ==
    /\ DiskOK /\ UpgradeOK /\ DowngradeOK
    /\ pc = "up" => mem.fmt = fw.base /\ mem.ver = fw

\* The backdoor does not outlive the firmware it was opened under, with one
\* exception: under the running firmware ssh is closed, or was enabled under
\* that version, or was enabled while that (older) version was being flashed
\* and special_processing had already closed ssh.  In that case the older
\* firmware boots with equal version strings, skips special_processing and
\* keeps ssh open; in every other one it runs, since the strings differ.
BackdoorClosed == pc = "up" => mem.ssh = Closed \/ fw \in mem.ssh

=============================================================================
