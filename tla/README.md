# LC4 in TLA+

LC4 is the firmware of a family of small WAN routers and access points: an
OpenWrt tree (kernel 2.6) with the vendor's own kernel driver for settings, a
settings library, shell scripts that run the WAN connections, and daemons.
Nearly everything the vendor added talks to everything else through one shared
store, the NVRAM variables. This directory holds TLA+ models of that core,
the TLC configurations that check them and TLAPS proofs.

Paths below are relative to the repository. `nvram_cfg/` stands for
`target/linux/generic-2.6/files-2.6.26/drivers/char/nvram_cfg/`.

## 1. Inventory

| Component | State | Operations | Interacts by |
|---|---|---|---|
| Flash commit and boot recovery (`nvram_cfg/nvram_linux.c`, `nvram.c`) | images in the partitions nvram and nvram_backup | `nvram_commit`, `nvram_mtd_commit`, `dev_nvram_init` | reads and writes MTD; called by every process through an ioctl |
| Variables in memory (`nvram_cfg/nvram.c`) | `nvram_hash`, `nvram_buf`, `nvram_offset` | get, set, unset, getall, commit, rehash | under `nvram_sem`; processes map `nvram_buf` and read it without a lock |
| Settings across firmware versions (`package/ezp-nvram/src/nvram_linux.c`, `main.c`, `package/ezp-mtd/mtd.c`, `etc/preinit`) | `fw_version`, the format of all variables, the image in flash | `nvram_upgrade`, `nvram_downgrade`, `nvram_import`, `special_processing`, `fw_version_update` | preinit, `mtd write` and the web interface call it; it commits through the driver |
| Rule sets (`package/ezp-nvram/src/ezp-lib.c`) | variables that hold rules separated by `\|`, attributes by `^` | replace, add, delete, prepend, append, replace_attr, get | read-modify-write of a shared variable, by every daemon and script |
| Options of variables (`nvram_linux.c`, `nvram_data.h`) | the table of defaults and options; the user's backup file | `nvram_set` with protection, `nvram_fset`, `nvram_boot`, `nvram_default`, `nvram_export`, `nvram_import` | used by all callers of the library; preinit runs `nvram boot` before anything else |
| WAN connection manager (`base-files/.../sbin/ifcontrol`, `ifup`, `ifdown`, `wandetect`, `etc/network.sh`, `etc/functions.sh`) | action, state and try count of each WAN in `wan_status_rule`; its address; the DHCP clients; lock files | a pass of `ifcontrol`, `ifup`, `ifdown`, `wandetect`, events of the DHCP client, requests of the user | several scripts at a time, through the rule set, `/tmp/.net.lock` and `/tmp/.iface`; `ezp-netstat` starts a pass every six seconds |
| FIFO semaphores and timers (`semaphore.c`, `linux_timer.c`) | tokens in a FIFO; a list of timers | take, give, delete; create, set, delete, expiry | between processes; signal handler against its own process |
| Firmware upgrade (`ezp-upgraded`, `ezp-nconfig`, `ezp-mtd`) | stage of the upgrade, the image | check, stop services, write, restart | HTTP server, `mtd`, reboot |
| Network status daemon (`ezp-netstat`) | none of its own | calls `ifcontrol lb` unless one runs | the scripts of the WAN manager |
| LEDs and battery, logs, cloud clients, web interface, wireless set-up | mostly mirrors of other state | polling and formatting | through NVRAM variables and scripts |

Everything else in the tree is OpenWrt, the kernel, vendor SDKs and third-party
packages. `PROJECT.json` lists the components, also those that are not
modelled, with the reason.

What is hard in this code, and what makes each part correct:

- **Power loss.** A router is switched off by pulling its plug, at any point of
  an erase, a write, a recovery or a conversion of the settings. Correct: a
  commit that returned 0 survives, and the settings always have the format the
  running firmware expects.
- **Two copies.** Commits write two partitions one after the other, and boot
  chooses. Correct: one copy is always good and not older than the last
  acknowledged commit.
- **A heap that never frees.** Values are appended to one buffer until it is
  full and then compacted, while other processes hold pointers into it. Correct:
  it behaves as a map; a pointer stays good until values are moved (what a reader
  sees whose value a commit moves meanwhile is not promised by the code, and not
  checked).
- **Read-modify-write without a lock.** A rule set is read once per rule and
  written back whole. Correct: a call does what it says if it is alone, ends in
  any case, and does not disturb the rules it is not about.
- **Scripts that overlap.** WAN scripts run for seconds on values read at the
  start, and a DHCP client calls its own script meanwhile. Correct: whatever
  they leave behind, the WAN that should be connected gets connected, its backup
  takes over and steps back, a WAN that was disconnected stays down, and no
  pass hangs.
- **Resets and restores variable by variable.** A factory reset, a backup and a
  restore go through the table while other processes write, commit and lose
  power. Correct: the next boot gives every variable the right value, and
  protected ones are kept.

`PROJECT.json` ("hazards") lists the places at their lines. The ones without a
property say why none is stated.

## 2. Plan

Done, in this order: `NvramFlash` (with its abstract specification
`NvramDurable`), `NvramStore` (with `NvramMap`), `FwMigrate`, `NvramRules`,
`WanControl`, `NvramOptions`, and proofs about each of the six: every
invariant, action property and refinement that a passing run checks is also a
theorem.

Considered and left out of the models: the serialisation lock of `functions.sh`
(270-380), because all it does is to delay an ifup, and `WanControl` lets an
ifup start as late as it likes; the FIFO semaphores and timers, because nothing
but one single-threaded program uses them; the order of steps in a firmware
upgrade beyond what `FwMigrate` has of it, because the check, the write and the
reboot are one sequence without a branch back.

Next: what remains true on boards without a backup partition
(`HasBackup = FALSE`); safety of the WAN manager beyond `AddressHasClient`;
without `Fits`, which variables a commit that does not fit leaves out.

## 3. Modules

### NvramDurable, NvramFlash, MCNvramFlash, NvramFlashProofs

`NvramFlash` models the driver's work on flash. A whole set of settings is one
value; a partition holds such a value, or is `Blank` (erased) or `Torn` (half
erased or half written, CRC wrong). `pc` is the place in `dev_nvram_init` or
`nvram_mtd_commit`, `caller` tells which of the two runs the latter, `target`
is its partition. Erase and write are two actions each, so that a power loss
can fall inside. Every MTD call may fail (`MtdFail`, `NvramInitFails`), which
also stands for failed allocations. `PowerLoss` can happen at every step of boot
and of a commit, also of the commit that is a recovery. `Reboot` is a power
loss while the driver is idle. `acked` and `pending` are history variables.
`BootValidateBackup` keeps what the code does: "validating" the backup with
`_nvram_init` loads it.

`NvramDurable` is what users may rely on: memory changes at will, and the
system comes up with the last acknowledged settings or with settings whose
commit was begun after that. `NvramFlash` implements it
with `mem <- IF caller = "boot" THEN Blank ELSE ram`, as long as no MTD
operation fails.

### NvramMap, NvramStore, MCNvramStore, FoldFacts, NvramStoreProofs, NvramMapProofs

`NvramStore` models the hash table with its bucket lists, the value buffer with
real offsets and lengths, compaction by `_nvram_commit` and `nvram_rehash`
(which reverses buckets, as the code does), and the layout of an image with its
"does not fit" case, which ends a bucket and not the walk. `NVRAM_SPACE` and
`HEADER_SIZE` are constants. Names and values are atoms with a length. Strings
that neither a tuple nor a process refers to are dropped from `buf`: nothing can
read them. `ptr` is the pointer a process has from `nvram_get` into its mapping.
The two partitions are written by one action: `nvram_sem` is held, and power
loss is `NvramFlash`'s subject.

The loops over buckets, tuples and strings are folds with one operator per body:
`Put` appends a string to the image or finds it too long, `PutBucket` walks a
bucket, `SetFrom` is the loop of `nvram_rehash`.

`NvramMap` is the abstract map with its saved copy. `FoldFacts` has what the
proofs need to know of a fold.

### FwMigrate, MCFwMigrate, FwMigrateProofs

One call of `nvram_upgrade` (at boot or for an imported file) or
`nvram_downgrade` (before an image is written) at a time, one action per
commit, lookup and conversion function. A version string is a number and a
suffix. Settings are abstracted to the version they are marked with, the format
level they have, and the ssh setting that `special_processing` closes. The 130
conversion functions are abstracted to the level they expect and leave
(`UpgradeFunc`, `DowngradeFunc`) and whether they commit (`UpCommits`,
`DownCommits`); the ones that call `nvram_default` are taken to leave the level
they are for. That each function does what its name says is an assumption; which
functions are called, in which order and what is committed in between is
modelled. `LookupUnknown` and `ConvertWild` keep the code's behaviour
for a version that is not in the table: `old = 0xEFFFFFFF` is negative in an
`int`, so it is less than `new` and every function of the table is called.

The ssh setting is the set of firmware versions it counts as enabled under, empty
while ssh is closed. `EnableSsh` is possible whenever other processes run
(`OthersRun`): always but during `nvram upgrade` in preinit, so also while an image
is flashed, since `stop_services.sh` kills what `service_list.txt` lists and `httpd`
is not on it. ssh that is enabled once a downgrade is past its
`special_processing` (`PastClosing`) counts as enabled for the image to come, too:
it is committed under the older version, and the older firmware finds equal
strings and does not close it. `BackdoorClosed` says so, and section 6.

`LossInWindow`, `CommitInWindow` and `AnyRecovery` switch on the three
environments in which the code does not keep its promise: power loss in
`InWindow`, a commit of half-converted settings by another process, and a boot
loader recovery to an image older than the settings.

Left out: `non_standard_release_process` and `mosra_special_firmware_setting`
(compiled for some platforms or brands only), the unset of `prod_subsubcat`, and
the variables an import skips. The table lists the string "2.0.12" more than
once (`nvram_linux.c:289`); the functions concerned are empty, so which entry is
found makes no difference, and the model has one entry per version.

### NvramRules, MCNvramRules, NvramRulesProofs

One action per access to the variable: `ezplib_op_rule` reads the number of
rules, then each rule separately, then writes. Local variables are per process;
`Gettable`, `FitsBuf` and `StrLen` are the code's three different length checks.
A failed fetch returns without writing, and three of the callers return 0 all
the same. `Write` with nothing printed stores what the stack held. The variable
is assumed to exist and rules to be of one length. `Rules` are the well-formed
rules; `RulesAssumption` says that one fits into the buffer, that the variable
starts with such rules in a size that fits, and that a call that changes an
attribute makes such a rule. What the stack held is one such rule too (`Junk`).

### WanControl, MCWanControl, WanControlProofs

The module composes everything that touches `wan_status_rule`. `ctl` is the one
`ifcontrol` that holds `/tmp/.net.lock`: the place in its two loops, the WAN, the
action and state it has read (`act`, `st`), the sample of the Ethernet port
(`plug`, taken once per pass for the first WAN and used for all, as the code
does) and the WAN that `find_next_backup` has come to. `ifup[i]` are the ifups
it has started in the background, `iface` is whoever is inside `iface_up`.
`client` is the DHCP client of each WAN with what its event script does:
`Bound` is the events bound and renew, `LeaseLost` is deconfig, `Released` is the
deconfig of a client that is killed.

An `ifdown` is two steps, the write of the state and the kill of the client,
because the client's script and an ifup can come in between. An ifup is its
check of the state, the write of state 1, and the start of the client, or the
route from state 3 to 4. `iface_up` reads the state when it starts and writes
the next one when it ends. The second loop of `ifcontrol` is one step per WAN up
to `find_next_backup`, which is one step per call: only the holder of
the lock touches what they read and write, except the state, which is read
once.

The code's oddities are kept: `do_if` does not override a request of the user;
`ifdown` of a standby WAN removes its address, because the branch `*)` of
`iface_down` stands before `standby)`; an address that comes while a WAN is in
state 2 or 4 is not stored; the tries are compared before state 2 resets them.

### NvramOptions, MCNvramOptions, NvramOptionsProofs

`Table` is `nvram_ezpacket_default`, with the options that change what a
function does. `booting` is the entry `nvram boot` has come to. A process in a
call has the list of writes it still has to do with `nvram_set`: one for
`nvram set` and `nvram default <name>`, the table for a factory reset, the lines
of the file for a restore. `nvram_set` of a protected variable is two steps, the
check and the write. A reset and a restore end with a commit. `nvram_export`
reads one variable per step. `Reboot` stands for `/sbin/reboot` and for a power
loss, at any step, also of `nvram boot`.

A restore ends with `nvram_upgrade` of the number of the file's version. On a build
without a version suffix that is the running version, and nothing happens. On a
build with one (`Suffixed`; `config/PROX-I3.config` has 2.0.8-RC-20121108) the
strings differ though the file is of the same firmware: `SpecialRead` reads
`ssh_rule` and `turbonat_enable` (`Specials`) and writes back what
`special_processing` makes of them (`Rewritten`), and `UpgradeCommit` is its commit
and that of `fw_version_update`. The settings are not converted, since the numbers
are equal; files of other versions are `FwMigrate`'s.

`TableAssumption` states what the proofs need of the table, and `nvram_data.h`
and the headers of the brands satisfy it: every variable has an entry, `x_default`
comes before `x` and has a value, no variable is both protected and temporary, and
entries that share a name have values and no options. There are such entries:
builds with two WANs take both the entries of WAN 1 and of WAN 2
(`nvram_data.h:713-717`), and both have a `vlan2ports`, with different values
(`nvram_ezpacket-rt305x.h:456` and `:468`; also the AS500 and OX810 headers);
AS500 has `no_root_swap` twice, too. `nvram boot` fills a variable
from the first entry of its name (the second finds a value there), and
`nvram_get_option` and `nvram_default_rule` look at the first only (`Firsts`); `nvram_default`
writes all of them, so that the last one stays (`Lasts`).
`SpecialAssumption` says that the rewritten variables are in the table, without
options, and that a value stays a value. `DefaultAssumption` adds that an entry marked DEFAULT is itself empty in the
table and not marked EMPTY, as all such entries are.
`before`, `alone`, `empty`, `taken` and `expect` are history variables.

Left out: builds with several product categories (`EZP_PROD_SUPERCAT_X`), what AXA,
M2E and SONY add to `nvram_upgrade`, `prod_subsubcat`, `fw_version` (a restore of the
same firmware writes what it is) and `check_action` of `nvram_commit` (nothing
writes the file that it reads).

## 4. Runs

| Run | Bounds | What it shows |
|---|---|---|
| `flash_power` | 3 settings, 3 power losses, no MTD error | `CopiesRepaired`, the inductive `DurableInv`, and the refinement `DurableSpec`: boot repairs a spoiled copy before users run, and no commit that was acknowledged is lost |
| `flash_errors` | 2 MTD errors, 2 power losses | `LossNeedsTwoFaults`: a boot that falls through to the failsafe read after an acknowledged commit, on a board with a backup, has had an MTD error and a second fault; `DriverReturns`: boot and commit end |
| `flash_stale_backup` (violation) | 1 MTD error | `AckedCommitServed` fails: see finding 1 |
| `store_fits` | 2 colliding names, 2 values of different length, 1 reader, everything fits | `TableSound`, `GetallComplete`, `PointerStable`, the refinement `MapSpec`, and `StepsExact` |
| `store_full` | 3 names in 2 buckets that do not all fit | `TableSound`, `PartitionsAgree`, `NoForeignValue`: what does not fit may be lost (silently, see section 6), but is never mixed up, and both partitions lose the same |
| `migrate_sound` | versions 0..2, 2 suffixes, undisturbed | `FormatMatches` and its inductive invariant `MigrateInv` |
| `migrate_backdoor` | the same, power loss anywhere, any recovery, files of releases | `BackdoorClosed`: ssh opened under one firmware is closed under the next, unless it was opened while the next, older one was being flashed, after `special_processing` |
| `migrate_power_loss` (violation) | power loss anywhere | `FormatMatches` fails: finding 2 |
| `rules_calls` | 2 processes, 2 rules at the start, a buffer for 3 | `CallExact`: a call that was alone stores what is documented or stores nothing (without room it does so silently, which is not ruled out); `CallsReturn`: every call ends whatever the others do |
| `wan_failover` | an always-on wired WAN and its backup over a modem; 3 tries; two faults or one request | `AddressHasClient`, `AlwaysOnConnects`, `BackupTakesOver`, `BackupRests`, `DisconnectSticks`, `PassEnds` |
| `wan_forceup` (violation) | the same WANs, one request, no detection | `ForceupConnects` fails: finding 3 |
| `nvram_options` | 8 variables in 9 entries: one of each kind, one with two entries, the two that are rewritten; a build with a suffix; 2 processes, 4 calls, 2 reboots | `BootExact`, `ResetComplete`, `RestoreComplete`, `ProtectedKept` |

Each property of a passing run has a mutant in `PROJECT.json`: a changed
definition, kept beside the original, that TLC refutes.

**Why the bounds are enough.** *Flash:* the driver does not look into settings, so
three values give an acknowledged one and two attempts; the three power losses
hit a commit, its recovery and the next recovery. The proofs lift both bounds.
*Store:* collisions, compaction and the full buffer all occur with two or three
names; `NVRAM_SPACE` is 13 where two long variables and a header just fit and
12 where three do not. The header is scaled to one byte. *Migrate:* three
versions give loops of zero, one and two functions in both directions, and a
version that older firmware does not know; two suffixes give builds that differ
in the suffix only. *Rules:* a set of at most three rules in a buffer of 7
reaches the limit of `ezplib_op_rule` and of `ezplib_append_rule`, which differ.
*WanControl:* two WANs have one backup relation; with two faults a cable is
pulled and plugged again, a lease is lost twice, or a lost lease meets a pass
that overtakes an ifup; one request meets every step of a start. Two ifups at a
time are what two passes can start. *Options:* four calls are a write, a backup,
a reset and a restore; the two reboots are a power loss at any step before and
the one after which a reset or restore is looked at; the table has one entry for
each path of `nvram_boot`. The run has 4.2 million states. A build without a
suffix takes the same steps but those of `nvram_upgrade`; the proofs cover both.

**Fairness.** `DriverReturns` is checked under weak fairness of the driver's own
steps: the kernel thread that boots or commits is scheduled, MTD calls
return. Nothing is assumed of users or of the power supply; power losses are
bounded in number. `CallsReturn` is checked under weak fairness of each process:
the functions of `ezp-lib.c` take no lock and never wait.

The properties of `wan_failover` assume that every script goes on (each is a
process of its own that waits for nothing but its locks and a dying client),
that `ezp-netstat` calls `ifcontrol` again and again (its endless loop), and
that a DHCP server answers: a client that is started again and again gets its
address again and again before the last-but-one pass of its time (`InTime`,
strong fairness). Without the last one no router connects; and because the tries
are compared before they are reset, an answer in the last pass is too late.
A pass that starts while an ifup or `iface_up` is still at work is a fault with a
budget: passes are six seconds apart, those scripts take one or two. A repeated
overtaking would keep a WAN from connecting for ever. The other properties need
no fairness.

**Deadlock** is checked in every run but those of `WanControl`, where nothing may
be left to do once `ezp-netstat` is stopped, and `nvram_options`, where the
calls and reboots are used up.

## 5. Proofs

Each module of proofs gives an inductive invariant, shows that `Init` implies it
and that every action keeps it (one step per action, one below it per conjunct
that the action can disturb), and derives the properties. `DurableInv` and
`MigrateInv` are also invariants of their runs.

`NvramFlashProofs` (509 obligations), for any settings and any number of power
losses:

- `TypeCorrect`: `Spec => []TypeOK`, for all constants.
- `DurabilityInvariant`: `Spec => []DurableInv`. `DurableInv` speaks of boards
  with a backup and of sound flash (`HasBackup /\ MaxErrs = 0`); the number of
  power losses and the settings are arbitrary. `CopiesRepaired` alone is not
  inductive: one needs what each copy holds while the other is rewritten
  (`RewriteInv`), that a valid copy holds settings that were committed and that
  only a fresh device has none (`CopyInv`), and what boot has
  found out when it decides (`BootInv`, `CallerInv`).
- `CopiesAlwaysRepaired`: `Spec => []CopiesRepaired`, for any `MaxErrs`: the
  same invariant holds up to the first MTD error (`SoundInv`).
- `TwoFaultsToLose`: `Spec => LossNeedsTwoFaults`, for any number of MTD errors
  and power losses. Power losses alone are covered by `SoundInv`; for one MTD
  error without a power loss the invariant says that before it both copies are
  good and boot has nothing to repair (`NoFaultInv`), and that after it one copy
  is good whenever no commit is at work and boot is on the path that finds it
  (`OneFaultInv`).
- `FlashImplementsDurable`: with a backup and sound flash `Spec => DurableSpec`.
  Each step is a step of `NvramDurable` or stutters; the interesting ones are the
  ends of boot, where `CopyInv` says that what was loaded is acknowledged or
  attempted.

`NvramStoreProofs` (1201 obligations), for any names, values, lengths, hash
function, buffer size and number of processes, with no assumption that anything
fits:

- `TypeCorrect`: `Spec => []TypeOK`.
- `TableCorrect`: `Spec => []TableSound`. The invariant `Sound` says more of the
  buffer than `TableSound`: no two strings start at one offset, all end before
  `nvram_offset`, every tuple has a string of its own, and every tuple is in the
  bucket of its name once. It is kept by a set in place, a set that appends, a
  set that compacts first, an unset, and by rebuilding the table from an image,
  which is a fold of sets.
- `PointersCorrect`: `Spec => []PointerStable`. What a process points to stays in
  the buffer (`PtrInv`) until a consolidation moves it.
- `ValuesCorrect`: `Spec => NoForeignValue`. A commit that drops variables and the
  boot that follows leave a variable with its own value or with none; the
  images in flash name no variable with two values (`FlashInv`).

`FoldFacts` (151 obligations) is what these proofs rest on. The induction theorems
of the library take an operator as a parameter, which the provers cannot
instantiate. A set of numbers is not an operator, so `Induction` is stated for sets
and proved from the least element of what is left (well-foundedness of `<`).
`FoldThrough` follows: if each element takes a result in `J[k - 1]` to one in
`J[k]`, the fold ends in `J[Len(seq)]`. `Op` is a constant of the module, which is
instantiated once for every fold.

`NvramMapProofs` (1018 obligations):

- `PartitionsCorrect`: `Spec => []PartitionsAgree`, without conditions. A commit
  writes the first image, rebuilds the table from it, with every bucket in
  another order, and writes the second image from that. That the
  second holds the same variables is a matter of counting bytes: what the
  first walk laid out takes at most the space there is (`Laid`), the sum of a
  set of strings does not depend on the order (`AnyOrder`), so the second walk
  never meets the end (`WriteOutIs`).
- `GetallCorrect`, `MapCorrect` and `StepsCorrect`: `Spec => []GetallComplete`,
  `Spec => MapSpec` and `Spec => StepsExact`, if all variables fit into the image
  whatever their values (`Fits`). `Fits` is stated with a cost for each set of
  names that grows by at least the size of each name that is added; by
  `BoundedFits` it is enough that the number of names times the longest
  string is no more than the space. The constants of `store_fits` satisfy this
  with nothing to spare (two names, five bytes each, ten bytes of space). Without it the
  three properties are false, as the last part of section 6 says. The
  refinement also needs that what boot reads from flash fits into `nvram_buf`
  (`BackupInv`).

`FwMigrateProofs` (705 obligations), for any number of versions, any
suffixes and any set of committing functions:

- `TypeCorrect`: `Spec => []TypeOK`, in every environment. The invariant
  `IndexInv` says where the loops are, so that no function is called that is not
  in the table of the running firmware.
- `MigrateInvariant`: `Spec => []MigrateInv`, assuming
  `Undisturbed` (none of the three switches).
- `SettingsFollowFirmware`: `Spec => []FormatMatches`, assuming the same. The
  format in memory says nothing of a later boot, so the invariant adds `DiskOK`
  (what is committed outside the windows has the format of its version, and the
  firmware in flash knows that version), `UpgradeOK` and `DowngradeOK` (how far a
  running conversion is).
- `BackdoorStaysClosed`: `Spec => []BackdoorClosed`, with power loss anywhere and
  any recovery, and with ssh enabled whenever others run, assuming `Marked`: no
  other process commits in the middle of an import or of a downgrade's
  conversions, and imported files are of releases (section 6 says what
  happens to others). What counts is the order of the commits: the settings a power
  loss can bring back are closed or marked with a version that ssh counts as
  enabled under (`SshFine`), and a call closes ssh before it changes the mark, so
  that afterwards it is open only on behalf of the version to come. Without the
  exception the theorem would be false: TLC refutes `mem.ssh \subseteq {fw}`.

`NvramRulesProofs` (1004 obligations), for any number of processes, rules and
calls:

- `TypeCorrect`: `Spec => []TypeOK`, which includes that the variable never
  outgrows the buffers it is copied into, whatever the processes do to each other.
- `CallsCorrect`: `Spec => CallExact`. The invariant `Undisturbed` says what the
  buffer holds after each round of the loop of `ezplib_op_rule` while nobody else
  has written (`Copied`: the rules up to the position, the new one if it was
  passed, the rest moved by one or not, according to the function); `CopyRound`
  is one round and `CopyDone` compares the end with `Documented`.

`NvramOptionsProofs` (1870 obligations), for every table that satisfies
`TableAssumption`, `DefaultAssumption` and `SpecialAssumption`, with or without a
version suffix, any number of processes and any calls:

- `TypeCorrect`: `Spec => []TypeOK`.
- `BootCorrect`: `Spec => []BootExact`. The invariant `BootInv` says that while
  `nvram boot` runs no process does, the variables whose first entry it has passed have the value
  they are to start with, and the others still hold what the flash holds. A second
  entry finds a value and leaves it.
  `DefaultEntry` is where the order of the table comes in.
- `ProtectedCorrect`: `Spec => ProtectedKept`. The invariant `SeenInv`: a call
  that `nvram_set` lets through has a variable that was empty during the call.
- `ResetCorrect` and `RestoreCorrect`: `Spec => []ResetComplete` and
  `Spec => []RestoreComplete`. `CallsInv` says how far a call has come that nobody
  disturbed: in a reset each variable has the value of its last entry among those
  written, or the value from before if there is none, in a backup each entry passed
  has its line, in a restore what is not yet back is still on the list, and after
  the file each rewritten variable is what it was or what is wanted, up to the step
  `nvram_upgrade` has come to (`Wanted`, `Restoring`). `BackupInv` is about the
  file, and `ExpectInv` carries the result of a finished call through its commit,
  the reboot and every entry of the `nvram boot` that follows.

`WanControlProofs` (619 obligations), for any number of WANs, of ifups at the
same time, of requests and of faults:

- `TypeCorrect`: `Spec => []TypeOK`. The invariant `Typed` adds that a script at
  work has a WAN, and that `find_next_backup` has one.
- `AddressCorrect`: `Spec => []AddressHasClient`. It is not inductive alone: the
  script that is inside `iface_up` could store an address after its client was
  killed. `ClientInv` says that this client is alive, which `kill_and_wait`
  guarantees by waiting for the script (`Released`); every other place where an
  address appears or a client ends is checked step by step.

**Only model-checked:** the liveness properties `DriverReturns`, `CallsReturn`,
`AlwaysOnConnects`, `BackupTakesOver`, `BackupRests`, `DisconnectSticks` and
`PassEnds`: the prover handles neither fairness nor `ENABLED`.

## 6. Findings

1. `flash_stale_backup`: `nvram_commit` ignores the result of writing the backup
   and returns 0 if the primary was written; boot then prefers the valid but
   stale backup. The committed settings are gone after the next boot.
2. `migrate_power_loss`: `nvram_upgrade` commits the new `fw_version` before it
   converts; after a power loss in between the old settings pass for new ones.
   The same happens in a downgrade when a conversion function commits, and when
   another process commits during a conversion (`CommitInWindow = TRUE`).
3. `wan_forceup`: "force a wan# to start until state 4, while not state 4, this
   wan can't be stoped" (`ifcontrol:695`). When Connect is pressed while an ifup
   is between its look at the state and its write of state 1, a second ifup
   starts, kills the client of the first after that has stored state 2, and
   with it goes the address. In state 2 the address of the new client is not
   stored, and the down that `wandetect` asks for is swallowed by the forced
   start: the WAN stays in state 2 without an address until somebody stops the
   network.

Also met while modelling, described by the models and without a run of their
own: after a power loss between the two partitions, boot reports that it
accesses nvram_mtd and serves nvram_backup (`BootValidateBackup`); an upgrade
from an unknown version is not skipped as its comment says (`LookupUnknown`); a
file of a release candidate that is imported into the release of the same number
skips `special_processing`, because `nvram_import` cuts off the suffix, which is
why `migrate_backdoor` imports files of releases; ssh that is enabled while an older
image is flashed, after `special_processing`, stays open under the older firmware,
though the comment at `nvram_linux.c:970` says that any difference of the versions
should enforce the closing (`EnableSsh`, the exception in `BackdoorClosed`); on
builds with two WANs a factory reset leaves `vlan2ports` with another value than a
new device starts with (`Lasts`, `Firsts`); on a build with a version suffix a backup
of the very same firmware comes back with ssh off and turbo NAT on (`SpecialRead`); prepending to an empty rule
set loses the rule (`Write`); two processes that change different rules of one
set overwrite each other though both calls return 0 (`Write`); a commit drops
variables that fit into `nvram_buf`, where only values count, but not into the
image, and returns 0 (`WriteOut`, the reason why `store_full` states
`NoForeignValue` and not that nothing is lost); two processes that store a
protected variable at the same time both succeed, though `bcmnvram.h` says "it
could be written for once", and a factory reset can erase a licence key that is
stored while it runs (`SetCheck`, `SetWrite`); a standby WAN loses its address
(`ifdown`); two WANs that back each other up would make `find_next_backup` call
itself for ever, and the web page that sets backups does not refuse it
(`PassEnds` is checked for chains that end).

## 7. Running

    tlc -workers 2 -config MCNvramFlash_power.cfg MCNvramFlash
    tlapm NvramFlashProofs.tla
    tlapm NvramMapProofs.tla

The longest runs are `store_fits`, `rules_calls`, `wan_failover` and
`nvram_options`, about two minutes each with two workers; `store_full` takes a
minute and a half, the others seconds. The proofs of a module take from ten
seconds to three minutes; `NvramMapProofs` extends `NvramStoreProofs`, which is
checked on its own.

## 8. Not modelled

The contents of a header and the strength of the CRC8 (a half-written image is
taken to be detected); failing allocations of single tuples; the bytes of names
and values; what a conversion function does to which variable; the attribute
tables and the read-only functions of `ezp-lib.c`; in the WAN manager the
protocols other than DHCP, VPN clients, `upnp_start` and `upnp_stop`, and the
branches for single brands and platforms; a client that survives 30 seconds of
being killed. LEDs and battery, logs and statistics, the web pages and the
command line keep no state that could go wrong in the ways of section 1; the
cloud, DDNS and discovery clients talk to servers that are not in the
repository; the firmware upgrade is one sequence of commands.

The tree has more than two million lines, nearly all of them drivers of
the wireless chips (four copies of one vendor SDK), the kernel, OpenWrt and
third-party packages; the vendor's own logic around the settings and the WANs,
which is what is modelled, is a small share of it. Vendored packages, the kernel, drivers of the chip
vendors, boot loaders and the tool chain are not this project's code.
