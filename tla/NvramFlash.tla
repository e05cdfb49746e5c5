----------------------------- MODULE NvramFlash -----------------------------
(***************************************************************************)
(* The two flash copies of the settings: commit (nvram_commit,             *)
(* nvram_mtd_commit) and recovery at boot (dev_nvram_init, _nvram_init) of *)
(* the kernel driver nvram_cfg, with power loss and MTD errors between     *)
(* and inside their steps.                                                 *)
(*                                                                         *)
(* A whole set of settings is one value here; how settings are laid out in *)
(* memory is NvramStore's subject.  The CRC8 is taken to expose every      *)
(* half-written image.  An allocation failure counts as an MTD error: the  *)
(* code takes the same path for both.                                      *)
(***************************************************************************)
EXTENDS Naturals

CONSTANTS
    Image,       \* sets of settings that users store
    Empty,       \* no settings at all: the table of a driver that read none
    Partial,     \* what a failsafe read makes of a half-written image
    Blank,       \* an erased partition: no magic
    Torn,        \* magic, but the CRC does not match the data
    HasBackup,   \* does the board have an nvram_backup partition?
    MaxErrs,     \* bound on MTD errors in a behaviour
    MaxCrashes   \* bound on power losses in the middle of flash work

Contents == Image \cup {Empty, Partial}

ASSUME ConstantsAssumption ==
    /\ Image # {}
    /\ Blank \notin Contents /\ Torn \notin Contents /\ Blank # Torn
    /\ Empty \notin Image /\ Partial \notin Image /\ Empty # Partial
    /\ HasBackup \in BOOLEAN
    /\ MaxErrs \in Nat /\ MaxCrashes \in Nat

VARIABLES
    flash,    \* flash[p]: what the NVRAM area of partition p holds
    ram,      \* the hash table: the settings users see
    pc,       \* where the driver is
    target,   \* tmp_mtd: the partition nvram_mtd_commit works on
    caller,   \* who runs: "boot" (dev_nvram_init), "commit", "none"
    access,   \* the partition that boot's messages say is accessed
    errs,     \* MTD errors so far
    crashes,  \* power losses so far that cut flash work short
    acked,    \* history: the settings of the last commit that returned 0
    pending   \* history: the settings of commits begun since

vars == <<flash, ram, pc, target, caller, access, errs, crashes, acked, pending>>

Parts == {"primary", "backup"}

(* The steps of dev_nvram_init and those of nvram_mtd_commit.              *)
BootPc == {"off", "boot", "boot_backup", "validate_backup", "reinit", "failsafe"}

MtdPc == {"prepare", "erase", "erasing", "write", "writing", "verify"}

Valid(content) == content \in Contents

-----------------------------------------------------------------------------
(* Both partitions are as the factory leaves them: erased, or holding the  *)
(* same settings.                                                          *)
Init ==
    /\ \/ /\ acked = Empty
          /\ flash = [p \in Parts |-> Blank]
       \/ /\ acked \in Image
          /\ flash = [p \in Parts |->
                        IF p = "primary" \/ HasBackup THEN acked ELSE Blank]
    /\ ram = Empty
    /\ pc = "off"
    /\ target = "primary"
    /\ caller = "boot"
    /\ access = "none"
    /\ errs = 0
    /\ crashes = 0
    /\ pending = {}

MtdError ==
    /\ errs < MaxErrs
    /\ errs' = errs + 1

(* _nvram_init(p, 0): on a valid image the table is rebuilt from it; on an  *)
(* invalid one, or a failed read, nothing is touched.                       *)
NvramInitOk(p) ==
    /\ Valid(flash[p])
    /\ ram' = flash[p]
    /\ UNCHANGED errs

NvramInitFails(p) ==
    /\ \/ ~Valid(flash[p]) /\ UNCHANGED errs
       \/ MtdError
    /\ UNCHANGED ram

StartMtdCommit(p) ==
    /\ target' = p
    /\ pc' = "prepare"

-----------------------------------------------------------------------------
(* dev_nvram_init, one action per read of a partition.                     *)

PowerOn ==
    /\ pc = "off"
    /\ pc' = "boot"
    /\ access' = "none"
    /\ UNCHANGED <<flash, ram, target, caller, errs, crashes, acked, pending>>

BootDone ==
    /\ pc' = "run"
    /\ caller' = "none"

BootPrimary ==
    /\ pc = "boot"
    /\ \/ /\ NvramInitOk("primary")
          /\ access' = "primary"
          /\ IF HasBackup
             THEN pc' = "validate_backup" /\ UNCHANGED caller
             ELSE BootDone
       \/ /\ NvramInitFails("primary")
          /\ pc' = IF HasBackup THEN "boot_backup" ELSE "failsafe"
          /\ UNCHANGED <<caller, access>>
    /\ UNCHANGED <<flash, target, crashes, acked, pending>>

(* Mutant: the backup is used but the primary is left as it is.            *)
BootBackupNoRecovery ==
    /\ pc = "boot_backup"
    /\ \/ /\ NvramInitOk("backup")
          /\ access' = "backup"
          /\ BootDone
       \/ /\ NvramInitFails("backup")
          /\ pc' = "failsafe"
          /\ UNCHANGED <<access, caller>>
    /\ UNCHANGED <<flash, target, crashes, acked, pending>>

(* Mutant: an invalid backup sends boot back to the primary.               *)
BootBackupRetries ==
    /\ pc = "boot_backup"
    /\ \/ /\ NvramInitOk("backup")
          /\ access' = "backup"
          /\ StartMtdCommit("primary")
       \/ /\ NvramInitFails("backup")
          /\ pc' = "boot"
          /\ UNCHANGED <<target, access>>
    /\ UNCHANGED <<flash, caller, crashes, acked, pending>>

(* The primary is invalid: use the backup and rewrite the primary from it. *)
BootBackup ==
    /\ pc = "boot_backup"
    /\ \/ /\ NvramInitOk("backup")
          /\ access' = "backup"
          /\ StartMtdCommit("primary")
       \/ /\ NvramInitFails("backup")
          /\ pc' = "failsafe"
          /\ UNCHANGED <<target, access>>
    /\ UNCHANGED <<flash, caller, crashes, acked, pending>>

(* Mutant: the failsafe read takes the flash contents as they are.         *)
BootFailsafeRaw ==
    /\ pc = "failsafe"
    /\ ram' = flash["primary"]
    /\ access' = "failsafe"
    /\ BootDone
    /\ UNCHANGED <<flash, target, errs, crashes, acked, pending>>

(* Neither is valid: read the primary whatever its CRC says.               *)
BootFailsafe ==
    /\ pc = "failsafe"
    /\ \/ /\ flash["primary"] # Blank
          /\ ram' = IF flash["primary"] = Torn THEN Partial ELSE flash["primary"]
          /\ UNCHANGED errs
       \/ /\ \/ flash["primary"] = Blank /\ UNCHANGED errs
             \/ MtdError
          /\ UNCHANGED ram
    /\ access' = "failsafe"
    /\ BootDone
    /\ UNCHANGED <<flash, target, crashes, acked, pending>>

(* The primary is valid and loaded.  _nvram_init on the backup validates   *)
(* it, and loads it when it is valid.                                      *)
BootValidateBackup ==
    /\ pc = "validate_backup"
    /\ \/ /\ NvramInitOk("backup")
          /\ BootDone
       \/ /\ NvramInitFails("backup")
          /\ pc' = "reinit"
          /\ UNCHANGED caller
    /\ UNCHANGED <<flash, target, access, crashes, acked, pending>>

(* The backup is invalid: rewrite it from the primary, read once more.     *)
BootReinit ==
    /\ pc = "reinit"
    /\ NvramInitOk("primary") \/ NvramInitFails("primary")
    /\ StartMtdCommit("backup")
    /\ UNCHANGED <<flash, caller, access, crashes, acked, pending>>

-----------------------------------------------------------------------------
(* nvram_mtd_commit(target).  A failing step returns at once; the caller   *)
(* decides what that means.                                                *)

(* Mutant: the commit ends after its first partition.                      *)
MtdReturnAfterOne(ok) ==
    /\ pc' = "run"
    /\ caller' = "none"
    /\ acked' = IF ok /\ caller = "commit" THEN ram ELSE acked
    /\ pending' = IF ok /\ caller = "commit" THEN {} ELSE pending
    /\ UNCHANGED target

(* Mutant: the result of the primary's commit is not looked at either.     *)
MtdReturnUnchecked(ok) ==
    \/ /\ caller = "boot"
       /\ BootDone
       /\ UNCHANGED <<target, acked, pending>>
    \/ /\ caller = "commit" /\ target = "backup"
       /\ StartMtdCommit("primary")
       /\ UNCHANGED <<caller, acked, pending>>
    \/ /\ caller = "commit" /\ target = "primary"
       /\ pc' = "run"
       /\ caller' = "none"
       /\ acked' = ram
       /\ pending' = {}
       /\ UNCHANGED target

MtdReturn(ok) ==
    \/ /\ caller = "boot"
       /\ BootDone
       /\ UNCHANGED <<target, acked, pending>>
    \/ /\ caller = "commit" /\ target = "backup"
       /\ StartMtdCommit("primary")
       /\ UNCHANGED <<caller, acked, pending>>
    \/ /\ caller = "commit" /\ target = "primary"
       /\ pc' = "run"
       /\ caller' = "none"
       /\ acked' = IF ok THEN ram ELSE acked
       /\ pending' = IF ok THEN {} ELSE pending
       /\ UNCHANGED target

MtdStep(from, to, content) ==
    /\ pc = from
    /\ flash' = [flash EXCEPT ![target] = content]
    /\ pc' = to
    /\ UNCHANGED <<ram, target, caller, access, errs, crashes, acked, pending>>

(* Mutant: the read after the write is made before it.                     *)
MtdEraseToVerify == MtdStep("erasing", "verify", Blank)

(* Allocate, keep what shares the sector, lay the image out in buf.        *)
MtdPrepare == MtdStep("prepare", "erase", flash[target])

MtdEraseStart == MtdStep("erase", "erasing", Torn)

MtdEraseDone == MtdStep("erasing", "write", Blank)

MtdWriteStart == MtdStep("write", "writing", Torn)

MtdWriteDone == MtdStep("writing", "verify", ram)

(* The read after the write: its result is what nvram_mtd_commit returns.  *)
MtdVerify ==
    /\ pc = "verify"
    /\ MtdReturn(TRUE)
    /\ UNCHANGED <<flash, ram, access, errs, crashes>>

MtdFail ==
    /\ pc \in MtdPc
    /\ MtdError
    /\ MtdReturn(FALSE)
    /\ UNCHANGED <<flash, ram, access, crashes>>

-----------------------------------------------------------------------------
(* nvram_set and nvram_unset; nvram_sem keeps them out of a commit.        *)
Update ==
    /\ pc = "run"
    /\ ram' \in Image
    /\ UNCHANGED <<flash, pc, target, caller, access, errs, crashes, acked, pending>>

(* nvram_commit: the backup first, then the primary.                       *)
NvramCommit ==
    /\ pc = "run"
    /\ caller' = "commit"
    /\ StartMtdCommit(IF HasBackup THEN "backup" ELSE "primary")
    /\ pending' = pending \cup {ram}
    /\ UNCHANGED <<flash, ram, access, errs, crashes, acked>>

PowerOff ==
    /\ pc' = "off"
    /\ caller' = "boot"
    /\ ram' = Empty
    /\ UNCHANGED <<flash, target, access, errs, acked, pending>>

Reboot ==
    /\ pc = "run"
    /\ PowerOff
    /\ UNCHANGED crashes

PowerLoss ==
    /\ pc \notin {"off", "run"}
    /\ crashes < MaxCrashes
    /\ crashes' = crashes + 1
    /\ PowerOff

Driver ==
    \/ PowerOn \/ BootPrimary \/ BootBackup \/ BootFailsafe
    \/ BootValidateBackup \/ BootReinit
    \/ MtdPrepare \/ MtdEraseStart \/ MtdEraseDone
    \/ MtdWriteStart \/ MtdWriteDone \/ MtdVerify \/ MtdFail

Next == Driver \/ Update \/ NvramCommit \/ Reboot \/ PowerLoss

Spec == Init /\ [][Next]_vars

(* The driver's thread runs on; users and the power supply owe nothing.    *)
FairSpec == Spec /\ WF_vars(Driver)

-----------------------------------------------------------------------------
(* Properties.                                                             *)

(* The values every variable takes.                                        *)
TypeOK ==
    /\ flash \in [Parts -> Contents \cup {Blank, Torn}]
    /\ ram \in Contents
    /\ pc \in BootPc \cup MtdPc \cup {"run"}
    /\ target \in Parts
    /\ caller \in {"boot", "commit", "none"}
    /\ access \in {"none", "primary", "backup", "failsafe"}
    /\ errs \in 0 .. MaxErrs
    /\ crashes \in 0 .. MaxCrashes
    /\ acked \in Contents
    /\ pending \subseteq Contents

(* While no MTD operation fails, the users never run with a single good    *)
(* copy: boot repairs whichever partition a power loss spoiled before      *)
(* /dev/nvram is registered, so the next commit, which destroys one copy   *)
(* at a time, always has the other to fall back on.                        *)
CopiesRepaired ==
    pc = "run" /\ HasBackup /\ errs = 0
        => (Valid(flash["primary"]) <=> Valid(flash["backup"]))

(* A boot ends and the device becomes available to users.                  *)
BootEnds == caller = "boot" /\ caller' = "none"

(* Settings had been committed, and boot found no usable copy.             *)
SettingsLost == BootEnds /\ acked \in Image /\ access' = "failsafe"

(* With a backup partition it takes an MTD error and a second fault to     *)
(* lose the settings: a boot that falls through to the failsafe read after *)
(* a commit had been acknowledged has had both.  One fault alone, and any  *)
(* number of power losses alone, never do it.                              *)
LossNeedsTwoFaults ==
    [][SettingsLost /\ HasBackup => errs' >= 1 /\ errs' + crashes >= 2]_vars

(* A boot that finds a valid copy brings back the settings of the last     *)
(* commit that returned 0, or of a commit begun after it: nvram_commit is  *)
(* to "Commit NVRAM variables to permanent storage".                       *)
AckedCommitServed ==
    [][BootEnds /\ access' # "failsafe" => ram' \in {acked} \cup pending]_vars

(* The argument for durability, inductive when no MTD operation fails:     *)
(* where each copy stands at every step of boot and commit.                *)
(* Which driver function runs at which step.                               *)
CallerInv ==
    /\ pc = "run" <=> caller = "none"
    /\ pc \in BootPc => caller = "boot"

(* A valid copy holds committed settings, and only a device that has never *)
(* completed a commit has no valid copy.                                   *)
CopyInv ==
    /\ \A p \in Parts : Valid(flash[p]) => flash[p] \in {acked} \cup pending
    /\ \/ \E p \in Parts : Valid(flash[p])
       \/ flash["primary"] = Blank /\ acked = Empty

(* While a partition is rewritten, the other one can be booted from.       *)
RewriteInv ==
    pc \in MtdPc =>
        /\ target = "primary" => flash["backup"] = ram
        /\ target = "backup" /\ caller = "boot" => flash["primary"] = ram
        /\ target = "backup" /\ caller = "commit" =>
             \/ Valid(flash["primary"])
             \/ flash["primary"] = Blank /\ acked = Empty
        /\ caller = "commit" => ram \in pending
        /\ pc = "verify" => flash[target] = ram

(* What boot has found out so far.                                         *)
BootInv ==
    /\ pc \in {"boot_backup", "failsafe"} => ~Valid(flash["primary"])
    /\ pc \in {"reinit", "failsafe"} => ~Valid(flash["backup"])
    /\ pc \in {"off", "boot", "boot_backup", "failsafe"} => ram = Empty
    /\ pc \in {"validate_backup", "reinit"} => ram = flash["primary"]

(* Together, with CopiesRepaired: power losses alone, at any step of a     *)
(* commit or of a recovery, leave a copy that boot can use, and that copy  *)
(* is never older than the last acknowledged commit.                       *)
DurableInv ==
    HasBackup /\ MaxErrs = 0 =>
        CallerInv /\ CopyInv /\ RewriteInv /\ BootInv /\ CopiesRepaired

(* Every boot and every commit comes to an end, once the power stays on.   *)
DriverReturns == caller # "none" ~> caller = "none"

(* The driver implements the durable store: see NvramDurable.  The device  *)
(* is down, for its users, until dev_nvram_init has registered it.         *)
Durable == INSTANCE NvramDurable WITH
    Off <- Blank,
    mem <- IF caller = "boot" THEN Blank ELSE ram,
    committed <- acked,
    attempted <- pending

DurableSpec == Durable!Spec

=============================================================================
