-------------------------- MODULE NvramFlashProofs --------------------------
(***************************************************************************)
(* Proofs about NvramFlash for any set of settings and any number of power *)
(* losses: type correctness, the durability invariant, and that the two    *)
(* partitions implement NvramDurable.                                      *)
(***************************************************************************)
EXTENDS NvramFlash, TLAPS

(* The driver's variables keep their types in every behaviour.             *)
THEOREM TypeCorrect == Spec => []TypeOK
<1>1. Init => TypeOK
  BY ConstantsAssumption
     DEF Init, TypeOK, Contents, Parts, BootPc
<1>2. TypeOK /\ [Next]_vars => TypeOK'
  <2> SUFFICES ASSUME TypeOK, [Next]_vars
               PROVE  TypeOK'
    OBVIOUS
  <2> USE ConstantsAssumption DEF TypeOK, Parts, BootPc, MtdPc, MtdError,
          NvramInitOk, NvramInitFails, StartMtdCommit, BootDone, Valid
  <2>1. CASE PowerOn  BY <2>1 DEF PowerOn
  <2>2. CASE BootPrimary  BY <2>2 DEF BootPrimary
  <2>3. CASE BootBackup  BY <2>3 DEF BootBackup
  <2>4. CASE BootFailsafe  BY <2>4 DEF BootFailsafe, Contents
  <2>5. CASE BootValidateBackup  BY <2>5 DEF BootValidateBackup
  <2>6. CASE BootReinit  BY <2>6 DEF BootReinit
  <2>7. CASE MtdPrepare  BY <2>7 DEF MtdPrepare, MtdStep
  <2>8. CASE MtdEraseStart  BY <2>8 DEF MtdEraseStart, MtdStep
  <2>9. CASE MtdEraseDone  BY <2>9 DEF MtdEraseDone, MtdStep
  <2>10. CASE MtdWriteStart  BY <2>10 DEF MtdWriteStart, MtdStep
  <2>11. CASE MtdWriteDone  BY <2>11 DEF MtdWriteDone, MtdStep
  <2>12. CASE MtdVerify  BY <2>12 DEF MtdVerify, MtdReturn
  <2>13. CASE MtdFail  BY <2>13 DEF MtdFail, MtdReturn
  <2>14. CASE Update  BY <2>14 DEF Update, Contents
  <2>15. CASE NvramCommit  BY <2>15 DEF NvramCommit
  <2>16. CASE Reboot  BY <2>16 DEF Reboot, PowerOff, Contents
  <2>17. CASE PowerLoss  BY <2>17 DEF PowerLoss, PowerOff, Contents
  <2>18. CASE UNCHANGED vars  BY <2>18 DEF vars
  <2> QED
    BY <2>1, <2>2, <2>3, <2>4, <2>5, <2>6, <2>7, <2>8, <2>9, <2>10, <2>11,
       <2>12, <2>13, <2>14, <2>15, <2>16, <2>17, <2>18 DEF Next, Driver
<1> QED
  BY <1>1, <1>2, PTL DEF Spec

-----------------------------------------------------------------------------
(* The state of the copies, for a board with a backup, up to the first MTD *)
(* error.                                                                  *)
CopiesInv == CallerInv /\ CopyInv /\ RewriteInv /\ BootInv /\ CopiesRepaired

(* Errors and power losses are only counted up.                            *)
LEMMA ErrorsCount ==
    ASSUME TypeOK, [Next]_vars
    PROVE  errs \in Nat /\ crashes \in Nat /\ errs' >= errs /\ crashes' >= crashes
<1> USE ConstantsAssumption DEF TypeOK, NvramInitOk, NvramInitFails, MtdError
<1>1. CASE PowerOn  BY <1>1 DEF PowerOn
<1>2. CASE BootPrimary  BY <1>2 DEF BootPrimary
<1>3. CASE BootBackup  BY <1>3 DEF BootBackup
<1>4. CASE BootFailsafe  BY <1>4 DEF BootFailsafe
<1>5. CASE BootValidateBackup  BY <1>5 DEF BootValidateBackup
<1>6. CASE BootReinit  BY <1>6 DEF BootReinit
<1>7. CASE MtdPrepare  BY <1>7 DEF MtdPrepare, MtdStep
<1>8. CASE MtdEraseStart  BY <1>8 DEF MtdEraseStart, MtdStep
<1>9. CASE MtdEraseDone  BY <1>9 DEF MtdEraseDone, MtdStep
<1>10. CASE MtdWriteStart  BY <1>10 DEF MtdWriteStart, MtdStep
<1>11. CASE MtdWriteDone  BY <1>11 DEF MtdWriteDone, MtdStep
<1>12. CASE MtdVerify  BY <1>12 DEF MtdVerify, MtdReturn
<1>13. CASE MtdFail  BY <1>13 DEF MtdFail, MtdReturn
<1>14. CASE Update  BY <1>14 DEF Update
<1>15. CASE NvramCommit  BY <1>15 DEF NvramCommit
<1>16. CASE Reboot  BY <1>16 DEF Reboot, PowerOff
<1>17. CASE PowerLoss  BY <1>17 DEF PowerLoss, PowerOff
<1>18. CASE UNCHANGED vars  BY <1>18 DEF vars
<1> QED
  BY <1>1, <1>2, <1>3, <1>4, <1>5, <1>6, <1>7, <1>8, <1>9, <1>10, <1>11,
     <1>12, <1>13, <1>14, <1>15, <1>16, <1>17, <1>18 DEF Next, Driver

(* At the start no copy is spoiled.                                        *)
LEMMA CopiesInit ==
    ASSUME Init, HasBackup
    PROVE  CopiesInv
BY ConstantsAssumption
   DEF Init, CopiesInv, CallerInv, CopyInv, RewriteInv, BootInv, CopiesRepaired,
       Valid, Contents, Parts, BootPc, MtdPc

(* No step of a board with a backup disturbs the copies while no MTD       *)
(* operation fails: the heart of the durability argument.                  *)
LEMMA CopiesStep ==
    ASSUME TypeOK, TypeOK', CopiesInv, [Next]_vars, HasBackup, errs' = 0
    PROVE  CopiesInv'
<1> USE ConstantsAssumption
    DEF TypeOK, CopiesInv, CallerInv, CopyInv, RewriteInv, BootInv, CopiesRepaired,
        Valid, Parts, BootPc, MtdPc, MtdError, NvramInitOk, NvramInitFails,
        StartMtdCommit, BootDone
<1>1. CASE PowerOn  BY <1>1 DEF PowerOn
<1>2. CASE BootPrimary  BY <1>2 DEF BootPrimary
<1>3. CASE BootBackup  BY <1>3 DEF BootBackup
<1>4. CASE BootFailsafe  BY <1>4 DEF BootFailsafe
<1>5. CASE BootValidateBackup  BY <1>5 DEF BootValidateBackup
<1>6. CASE BootReinit  BY <1>6 DEF BootReinit
<1>7. CASE MtdPrepare  BY <1>7 DEF MtdPrepare, MtdStep
<1>8. CASE MtdEraseStart  BY <1>8 DEF MtdEraseStart, MtdStep
<1>9. CASE MtdEraseDone  BY <1>9 DEF MtdEraseDone, MtdStep
<1>10. CASE MtdWriteStart  BY <1>10 DEF MtdWriteStart, MtdStep
<1>11. CASE MtdWriteDone  BY <1>11 DEF MtdWriteDone, MtdStep
<1>12. CASE MtdVerify  BY <1>12 DEF MtdVerify, MtdReturn
<1>13. CASE MtdFail  BY <1>13 DEF MtdFail, MtdReturn
<1>14. CASE Update  BY <1>14 DEF Update
<1>15. CASE NvramCommit  BY <1>15 DEF NvramCommit
<1>16. CASE Reboot  BY <1>16 DEF Reboot, PowerOff
<1>17. CASE PowerLoss  BY <1>17 DEF PowerLoss, PowerOff
<1>18. CASE UNCHANGED vars  BY <1>18 DEF vars
<1> QED
  BY <1>1, <1>2, <1>3, <1>4, <1>5, <1>6, <1>7, <1>8, <1>9, <1>10, <1>11,
     <1>12, <1>13, <1>14, <1>15, <1>16, <1>17, <1>18 DEF Next, Driver

(* Up to the first MTD error.                                              *)
SoundInv == HasBackup /\ errs = 0 => CopiesInv

(* An MTD error stays on the count, so the copies are as CopiesInv says as *)
(* long as the count is zero.                                              *)
LEMMA SoundFlash == Spec => []SoundInv
<1>1. Init => SoundInv
  BY CopiesInit DEF SoundInv
<1>2. TypeOK /\ TypeOK' /\ SoundInv /\ [Next]_vars => SoundInv'
  <2> SUFFICES ASSUME TypeOK, TypeOK', SoundInv, [Next]_vars, HasBackup, errs' = 0
               PROVE  CopiesInv'
    BY DEF SoundInv
  <2>1. errs = 0
    BY ErrorsCount DEF TypeOK
  <2> QED
    BY <2>1, CopiesStep DEF SoundInv
<1> QED
  BY <1>1, <1>2, TypeCorrect, PTL DEF Spec

(* For every set of settings and any number of power losses, at any step   *)
(* of commit and recovery, a bootable copy is left that is no older than   *)
(* the last acknowledged commit.                                           *)
THEOREM DurabilityInvariant == Spec => []DurableInv
<1>1. TypeOK /\ SoundInv => DurableInv
  BY DEF SoundInv, DurableInv, CopiesInv, TypeOK
<1> QED
  BY <1>1, TypeCorrect, SoundFlash, PTL

(* On a board with a backup the users never run with a single good copy,   *)
(* until an MTD operation fails: boot repairs what a power loss spoiled.   *)
THEOREM CopiesAlwaysRepaired == Spec => []CopiesRepaired
<1>1. SoundInv => CopiesRepaired
  BY DEF SoundInv, CopiesInv, CopiesRepaired
<1> QED
  BY <1>1, SoundFlash, PTL

-----------------------------------------------------------------------------
(* Each step of the driver is a step of the durable store, or hidden.      *)
LEMMA DurableStep ==
    ASSUME TypeOK, TypeOK', CopiesInv, [Next]_vars, HasBackup, MaxErrs = 0
    PROVE  [Durable!Next]_(Durable!vars)
<1> USE ConstantsAssumption
    DEF TypeOK, CopiesInv, CallerInv, CopyInv, RewriteInv, BootInv, CopiesRepaired,
        Valid, Parts, BootPc, MtdPc, MtdError, NvramInitOk, NvramInitFails,
        StartMtdCommit, BootDone, Durable!vars
<1>1. CASE PowerOn  BY <1>1 DEF PowerOn
<1>2. CASE BootPrimary  BY <1>2 DEF BootPrimary
<1>3. CASE BootBackup  BY <1>3 DEF BootBackup
<1>4. CASE BootFailsafe
  <2>1. Durable!ComeUp
    BY <1>4 DEF BootFailsafe, Durable!ComeUp
  <2> QED  BY <2>1 DEF Durable!Next
<1>5. CASE BootValidateBackup
  <2>1. CASE Valid(flash["backup"])
    <3>1. Durable!ComeUp
      BY <1>5, <2>1 DEF BootValidateBackup, Durable!ComeUp
    <3> QED  BY <3>1 DEF Durable!Next
  <2>2. CASE ~Valid(flash["backup"])
    BY <1>5, <2>2 DEF BootValidateBackup
  <2> QED  BY <2>1, <2>2
<1>6. CASE BootReinit  BY <1>6 DEF BootReinit
<1>7. CASE MtdPrepare  BY <1>7 DEF MtdPrepare, MtdStep
<1>8. CASE MtdEraseStart  BY <1>8 DEF MtdEraseStart, MtdStep
<1>9. CASE MtdEraseDone  BY <1>9 DEF MtdEraseDone, MtdStep
<1>10. CASE MtdWriteStart  BY <1>10 DEF MtdWriteStart, MtdStep
<1>11. CASE MtdWriteDone  BY <1>11 DEF MtdWriteDone, MtdStep
<1>12. CASE MtdVerify
  <2>1. CASE caller = "boot"
    <3>1. Durable!ComeUp
      BY <1>12, <2>1 DEF MtdVerify, MtdReturn, Durable!ComeUp
    <3> QED  BY <3>1 DEF Durable!Next
  <2>2. CASE caller = "commit" /\ target = "backup"
    BY <1>12, <2>2 DEF MtdVerify, MtdReturn
  <2>3. CASE caller = "commit" /\ target = "primary"
    <3>1. Durable!Acknowledge
      BY <1>12, <2>3 DEF MtdVerify, MtdReturn, Durable!Acknowledge
    <3> QED  BY <3>1 DEF Durable!Next
  <2> QED  BY <1>12, <2>1, <2>2, <2>3 DEF MtdVerify
<1>13. CASE MtdFail  BY <1>13 DEF MtdFail
<1>14. CASE Update
  <2>1. Durable!Change
    BY <1>14 DEF Update, Durable!Change, Contents
  <2> QED  BY <2>1 DEF Durable!Next
<1>15. CASE NvramCommit
  <2>1. Durable!Begin
    BY <1>15 DEF NvramCommit, Durable!Begin
  <2> QED  BY <2>1 DEF Durable!Next
<1>16. CASE Reboot
  <2>1. Durable!GoDown
    BY <1>16 DEF Reboot, PowerOff, Durable!GoDown
  <2> QED  BY <2>1 DEF Durable!Next
<1>17. CASE PowerLoss
  <2>1. Durable!GoDown
    BY <1>17 DEF PowerLoss, PowerOff, Durable!GoDown
  <2> QED  BY <2>1 DEF Durable!Next
<1>18. CASE UNCHANGED vars  BY <1>18 DEF vars
<1> QED
  BY <1>1, <1>2, <1>3, <1>4, <1>5, <1>6, <1>7, <1>8, <1>9, <1>10, <1>11,
     <1>12, <1>13, <1>14, <1>15, <1>16, <1>17, <1>18 DEF Next, Driver

(* A board with two partitions and sound flash implements the durable      *)
(* store, whatever the settings and however often the power fails.         *)
THEOREM FlashImplementsDurable ==
    ASSUME HasBackup, MaxErrs = 0
    PROVE  Spec => DurableSpec
<1>1. Init => Durable!Init
  BY ConstantsAssumption DEF Init, Durable!Init, Contents
<1>2. TypeOK /\ TypeOK' /\ CopiesInv /\ [Next]_vars => [Durable!Next]_(Durable!vars)
  BY DurableStep
<1>3. DurableInv => CopiesInv
  BY DEF DurableInv, CopiesInv
<1> QED
  BY <1>1, <1>2, <1>3, TypeCorrect, DurabilityInvariant, PTL
     DEF Spec, DurableSpec, Durable!Spec

-----------------------------------------------------------------------------
(* What one MTD error leaves of the copies while the power has not failed. *)

(* Before any fault both copies are good, and boot has nothing to repair.  *)
NoFaultInv ==
    errs = 0 /\ crashes = 0 /\ acked \in Image =>
        /\ pc \notin MtdPc => Valid(flash["primary"]) /\ Valid(flash["backup"])
        /\ pc \notin {"boot_backup", "reinit", "failsafe"}
        /\ pc \in MtdPc => caller = "commit"

(* After one MTD error one copy is good, except while a commit is at work, *)
(* and boot finds it.                                                      *)
OneFaultInv ==
    errs = 1 /\ crashes = 0 /\ acked \in Image =>
        /\ pc \in {"run", "off", "boot"} => \E p \in Parts : Valid(flash[p])
        /\ pc \in {"validate_backup", "reinit"} => Valid(flash["primary"])
        /\ pc = "boot_backup" => Valid(flash["backup"])
        /\ pc # "failsafe"
        /\ pc \in MtdPc /\ caller = "boot" => Valid(flash[IF target = "primary" THEN "backup" ELSE "primary"])

(* A boot says "failsafe" only when it is over; a verified copy is the one *)
(* in memory.                                                              *)
PlaceInv ==
    /\ CallerInv
    /\ pc \notin {"off", "run"} /\ caller = "boot" => access # "failsafe"
    /\ pc = "verify" => flash[target] = ram

FaultsInv == PlaceInv /\ (HasBackup => NoFaultInv /\ OneFaultInv)

(* The first boot has nothing to find out.                                 *)
LEMMA FaultsInit ==
    ASSUME Init
    PROVE  FaultsInv
BY ConstantsAssumption
   DEF Init, FaultsInv, PlaceInv, NoFaultInv, OneFaultInv, CallerInv, Valid, Contents, Parts,
       BootPc, MtdPc

(* Every step keeps track of the place, whatever fails.                    *)
LEMMA PlaceStep ==
    ASSUME TypeOK, TypeOK', PlaceInv, [Next]_vars
    PROVE  PlaceInv'
<1> USE ConstantsAssumption
    DEF TypeOK, PlaceInv, CallerInv, Parts, BootPc, MtdPc, NvramInitOk, NvramInitFails,
        StartMtdCommit, BootDone
<1>1. CASE PowerOn  BY <1>1 DEF PowerOn
<1>2. CASE BootPrimary  BY <1>2 DEF BootPrimary
<1>3. CASE BootBackup  BY <1>3 DEF BootBackup
<1>4. CASE BootFailsafe  BY <1>4 DEF BootFailsafe
<1>5. CASE BootValidateBackup  BY <1>5 DEF BootValidateBackup
<1>6. CASE BootReinit  BY <1>6 DEF BootReinit
<1>7. CASE MtdPrepare  BY <1>7 DEF MtdPrepare, MtdStep
<1>8. CASE MtdEraseStart  BY <1>8 DEF MtdEraseStart, MtdStep
<1>9. CASE MtdEraseDone  BY <1>9 DEF MtdEraseDone, MtdStep
<1>10. CASE MtdWriteStart  BY <1>10 DEF MtdWriteStart, MtdStep
<1>11. CASE MtdWriteDone  BY <1>11 DEF MtdWriteDone, MtdStep
<1>12. CASE MtdVerify  BY <1>12 DEF MtdVerify, MtdReturn
<1>13. CASE MtdFail  BY <1>13 DEF MtdFail, MtdReturn
<1>14. CASE Update  BY <1>14 DEF Update
<1>15. CASE NvramCommit  BY <1>15 DEF NvramCommit
<1>16. CASE Reboot  BY <1>16 DEF Reboot, PowerOff
<1>17. CASE PowerLoss  BY <1>17 DEF PowerLoss, PowerOff
<1>18. CASE UNCHANGED vars  BY <1>18 DEF vars
<1> QED
  BY <1>1, <1>2, <1>3, <1>4, <1>5, <1>6, <1>7, <1>8, <1>9, <1>10, <1>11,
     <1>12, <1>13, <1>14, <1>15, <1>16, <1>17, <1>18 DEF Next, Driver

(* The first MTD error meets two good copies, or one that a commit has not *)
(* reached yet; the commit and the boots that follow it find a good one.   *)
LEMMA FaultsStep ==
    ASSUME TypeOK, TypeOK', SoundInv, FaultsInv, [Next]_vars, HasBackup
    PROVE  NoFaultInv' /\ OneFaultInv'
<1> USE ConstantsAssumption
    DEF TypeOK, FaultsInv, PlaceInv, NoFaultInv, OneFaultInv, SoundInv, CopiesInv, CallerInv,
        CopyInv, RewriteInv, BootInv, CopiesRepaired, Valid, Parts, BootPc, MtdPc, MtdError,
        NvramInitOk, NvramInitFails, StartMtdCommit, BootDone
<1>1. CASE PowerOn  BY <1>1 DEF PowerOn
<1>2. CASE BootPrimary  BY <1>2 DEF BootPrimary
<1>3. CASE BootBackup  BY <1>3 DEF BootBackup
<1>4. CASE BootFailsafe  BY <1>4 DEF BootFailsafe
<1>5. CASE BootValidateBackup  BY <1>5 DEF BootValidateBackup
<1>6. CASE BootReinit  BY <1>6 DEF BootReinit
<1>7. CASE MtdPrepare  BY <1>7 DEF MtdPrepare, MtdStep
<1>8. CASE MtdEraseStart  BY <1>8 DEF MtdEraseStart, MtdStep
<1>9. CASE MtdEraseDone  BY <1>9 DEF MtdEraseDone, MtdStep
<1>10. CASE MtdWriteStart  BY <1>10 DEF MtdWriteStart, MtdStep
<1>11. CASE MtdWriteDone  BY <1>11 DEF MtdWriteDone, MtdStep
<1>12. CASE MtdVerify  BY <1>12 DEF MtdVerify, MtdReturn
<1>13. CASE MtdFail  BY <1>13 DEF MtdFail, MtdReturn
<1>14. CASE Update  BY <1>14 DEF Update
<1>15. CASE NvramCommit  BY <1>15 DEF NvramCommit
<1>16. CASE Reboot  BY <1>16 DEF Reboot, PowerOff
<1>17. CASE PowerLoss  BY <1>17 DEF PowerLoss, PowerOff
<1>18. CASE UNCHANGED vars  BY <1>18 DEF vars
<1> QED
  BY <1>1, <1>2, <1>3, <1>4, <1>5, <1>6, <1>7, <1>8, <1>9, <1>10, <1>11,
     <1>12, <1>13, <1>14, <1>15, <1>16, <1>17, <1>18 DEF Next, Driver

(* Any board: which faults have happened says which copies are good.       *)
LEMMA FaultsInvariant == Spec => []FaultsInv
<1>1. Init => FaultsInv
  BY FaultsInit
<1>2. TypeOK /\ TypeOK' /\ SoundInv /\ FaultsInv /\ [Next]_vars => FaultsInv'
  BY PlaceStep, FaultsStep DEF FaultsInv
<1> QED
  BY <1>1, <1>2, TypeCorrect, SoundFlash, PTL DEF Spec

(* With a backup partition, settings that were committed are lost to the   *)
(* failsafe read only after an MTD error and a second fault, for any bound *)
(* on either: neither one MTD error nor any number of power losses does it *)
(* alone.                                                                  *)
THEOREM TwoFaultsToLose == Spec => LossNeedsTwoFaults
<1>1. /\ TypeOK /\ TypeOK' /\ SoundInv /\ FaultsInv
      /\ [Next]_vars
      => [SettingsLost /\ HasBackup => errs' >= 1 /\ errs' + crashes >= 2]_vars
  <2> SUFFICES ASSUME TypeOK, TypeOK', SoundInv, FaultsInv, [Next]_vars, SettingsLost, HasBackup
               PROVE  errs' >= 1 /\ errs' + crashes >= 2
    OBVIOUS
  <2>1. errs \in Nat /\ crashes \in Nat /\ errs' \in Nat /\ errs' >= errs
    BY ErrorsCount, ConstantsAssumption DEF TypeOK
  <2>2. pc = "failsafe"
    <3> USE DEF SettingsLost, BootEnds, FaultsInv, PlaceInv, CallerInv, BootPc, MtdPc,
                NvramInitOk, NvramInitFails, StartMtdCommit, BootDone
    <3>1. CASE PowerOn  BY <3>1 DEF PowerOn
    <3>2. CASE BootPrimary  BY <3>2 DEF BootPrimary
    <3>3. CASE BootBackup  BY <3>3 DEF BootBackup
    <3>4. CASE BootFailsafe  BY <3>4 DEF BootFailsafe
    <3>5. CASE BootValidateBackup  BY <3>5 DEF BootValidateBackup
    <3>6. CASE BootReinit  BY <3>6 DEF BootReinit
    <3>7. CASE MtdPrepare  BY <3>7 DEF MtdPrepare, MtdStep
    <3>8. CASE MtdEraseStart  BY <3>8 DEF MtdEraseStart, MtdStep
    <3>9. CASE MtdEraseDone  BY <3>9 DEF MtdEraseDone, MtdStep
    <3>10. CASE MtdWriteStart  BY <3>10 DEF MtdWriteStart, MtdStep
    <3>11. CASE MtdWriteDone  BY <3>11 DEF MtdWriteDone, MtdStep
    <3>12. CASE MtdVerify  BY <3>12 DEF MtdVerify, MtdReturn
    <3>13. CASE MtdFail  BY <3>13 DEF MtdFail, MtdReturn
    <3>14. CASE Update  BY <3>14 DEF Update
    <3>15. CASE NvramCommit  BY <3>15 DEF NvramCommit
    <3>16. CASE Reboot  BY <3>16 DEF Reboot, PowerOff
    <3>17. CASE PowerLoss  BY <3>17 DEF PowerLoss, PowerOff
    <3>18. CASE UNCHANGED vars  BY <3>18 DEF vars
    <3> QED
      BY <3>1, <3>2, <3>3, <3>4, <3>5, <3>6, <3>7, <3>8, <3>9, <3>10, <3>11,
         <3>12, <3>13, <3>14, <3>15, <3>16, <3>17, <3>18 DEF Next, Driver
  <2>3. acked \in Image /\ pc \notin MtdPc
    BY <2>2 DEF SettingsLost, MtdPc
  <2>4. errs # 0
    BY <2>2, <2>3, ConstantsAssumption
       DEF SoundInv, CopiesInv, CopyInv, BootInv, Parts, Valid
  <2>5. errs = 1 => crashes # 0
    BY <2>2, <2>3 DEF FaultsInv, OneFaultInv
  <2>6. \A e, f, c \in Nat : e # 0 /\ (e = 1 => c # 0) /\ f >= e => f >= 1 /\ f + c >= 2
    OBVIOUS
  <2> QED BY <2>1, <2>4, <2>5, <2>6
<1> QED
  BY <1>1, TypeCorrect, SoundFlash, FaultsInvariant, PTL DEF Spec, LossNeedsTwoFaults
=============================================================================
