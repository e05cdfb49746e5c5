--------------------------- MODULE FwMigrateProofs ---------------------------
(***************************************************************************)
(* The settings have the format of the running firmware, for every number  *)
(* of versions and every set of build suffixes, whatever is flashed or     *)
(* imported and wherever the power fails outside InWindow.                 *)
(***************************************************************************)
EXTENDS FwMigrate, TLAPS

USE ConstantsAssumption, FilesAssumption, OffAssumption

\* A version without its suffix is a version with the same number.
LEMMA PureString == \A v \in Strings : Pure(v) \in Strings /\ Pure(v).base = v.base
BY DEF Pure, Strings

-----------------------------------------------------------------------------
\* The index of the conversion loops stays in the table whatever happens: a
\* downgrade ends above its target, and the wild loop at the table's end.
IndexInv ==
    /\ pc = "convert" /\ job = "flash" => i > target.base
    /\ pc = "wild" => i <= fw.base

\* The values of memory and flash while the three calls convert and commit.
LEMMA TypeStep ==
    ASSUME TypeOK, IndexInv, [Next]_vars
    PROVE  TypeOK' /\ IndexInv'
<1> USE DEF Settings, Strings, Levels, Garbled, Listed, IndexInv, Closed
<1>b. change' \in BOOLEAN
  BY DEF TypeOK, Next, vars, PowerOn, SpecialProcessing, FwVersionUpdate, LookupUpgrade,
     LookupUnknown, LookupDowngrade, Downgrades, ConvertUp, ConvertDown, ConvertWild, Dead, Finish,
     WriteImage, StartFlash, Recovery, StartImport, EnableSsh, OtherCommit, PowerLoss, Enter
<1>1. CASE PowerOn
  BY <1>b, <1>1, PureString DEF TypeOK, PowerOn, Enter
<1>2. CASE SpecialProcessing
  BY <1>b, <1>2, PureString DEF TypeOK, SpecialProcessing
<1>3. CASE FwVersionUpdate
  BY <1>b, <1>3, PureString DEF TypeOK, FwVersionUpdate, Destination
<1>4. CASE LookupUpgrade
  BY <1>b, <1>4, PureString DEF TypeOK, LookupUpgrade
<1>5. CASE LookupUnknown
  BY <1>b, <1>5, PureString DEF TypeOK, LookupUnknown
<1>6. CASE LookupDowngrade
  BY <1>b, <1>6, PureString DEF TypeOK, LookupDowngrade, Downgrades
<1>7. CASE ConvertUp
  BY <1>b, <1>7, PureString DEF TypeOK, ConvertUp, UpgradeFunc, FuncCommits
<1>8. CASE ConvertDown
  BY <1>b, <1>8, PureString DEF TypeOK, ConvertDown, DowngradeFunc, FuncCommits
<1>9. CASE ConvertWild
  BY <1>b, <1>9, PureString DEF TypeOK, ConvertWild, UpgradeFunc, FuncCommits
<1>10. CASE Dead
  BY <1>b, <1>10, PureString DEF TypeOK, Dead
<1>11. CASE Finish
  BY <1>b, <1>11, PureString DEF TypeOK, Finish
<1>12. CASE WriteImage
  BY <1>b, <1>12, PureString DEF TypeOK, WriteImage
<1>13. CASE EnableSsh
  BY <1>b, <1>13, PureString DEF TypeOK, EnableSsh, OthersRun, PastClosing
<1>14. CASE OtherCommit
  BY <1>b, <1>14, PureString DEF TypeOK, OtherCommit, OthersRun
<1>15. CASE PowerLoss
  BY <1>b, <1>15, PureString DEF TypeOK, PowerLoss
<1>16. CASE UNCHANGED vars
  BY <1>b, <1>16, PureString DEF TypeOK, vars
<1>17. ASSUME NEW image \in Strings, StartFlash(image) \/ Recovery(image)
       PROVE  TypeOK' /\ IndexInv'
  BY <1>b, <1>17, PureString DEF TypeOK, StartFlash, Recovery, Enter
<1>18. ASSUME NEW file \in Files, NEW ssh \in {Closed, {file}}, StartImport(file, ssh)
       PROVE  TypeOK' /\ IndexInv'
  <2>1. file \in Strings /\ ssh \in SUBSET Strings
    BY FilesAssumption DEF Closed
  <2>2. mem' \in Settings
    BY <1>18, <2>1 DEF TypeOK, StartImport
  <2> QED
    BY <1>b, <1>18, <2>1, <2>2, PureString DEF TypeOK, StartImport, Enter
<1> QED
  BY <1>1, <1>2, <1>3, <1>4, <1>5, <1>6, <1>7, <1>8, <1>9, <1>10, <1>11, <1>12, <1>13, <1>14, <1>15, <1>16, <1>17, <1>18 DEF Next

\* The system is first switched on with settings of its own version.
LEMMA TypeInit ==
    ASSUME Init
    PROVE  TypeOK /\ IndexInv
<1>1. fw \in Strings /\ fw.base \in Levels /\ pc = "off"
  BY DEF Init, Strings
<1>2. disk \in Settings
  BY <1>1 DEF Init, Settings, Closed
<1>3. change \in BOOLEAN
  BY DEF Init
<1>4. i \in 0 .. LastVersion + 1
  BY DEF Init
<1>5. mem = Off /\ job = "boot" /\ src \in Strings /\ target \in Strings
  BY DEF Init
<1> QED
  BY <1>1, <1>2, <1>3, <1>4, <1>5 DEF TypeOK, IndexInv

\* Whatever is flashed, imported or recovered, wherever the power fails and
\* whoever commits: there are settings in memory exactly while the power is
\* on, and no loop calls a conversion function that is not in the table of
\* the running firmware.
THEOREM TypeCorrect == Spec => []TypeOK
<1>1. Init => TypeOK /\ IndexInv
  BY TypeInit
<1>2. TypeOK /\ IndexInv /\ [Next]_vars => (TypeOK /\ IndexInv)'
  BY TypeStep
<1> QED
  BY <1>1, <1>2, PTL DEF Spec

-----------------------------------------------------------------------------
\* What SettingsFollowFirmware needs of the environment: TLC finds a
\* counterexample to FormatMatches when any one of the three is dropped.
Undisturbed == ~LossInWindow /\ ~CommitInWindow /\ ~AnyRecovery

IInv == TypeOK /\ IndexInv /\ MigrateInv

\* The first settings are marked with the version they belong to.
LEMMA MigrateInit == Init => IInv
<1> SUFFICES ASSUME Init PROVE IInv
  OBVIOUS
<1>1. fw \in Strings /\ fw.base \in Levels /\ pc = "off"
  BY DEF Init, Strings
<1>2. MigrateInv
  BY <1>1 DEF Init, MigrateInv, DiskOK, UpgradeOK, DowngradeOK, InWindow, Listed, Levels
<1> QED
  BY <1>2, TypeInit DEF IInv

\* Every step of the three calls keeps the invariant.
LEMMA MigrateStep == Undisturbed /\ IInv /\ [Next]_vars => IInv'
<1> SUFFICES ASSUME Undisturbed, IInv, [Next]_vars PROVE IInv'
  OBVIOUS
<1> USE DEF IInv, Settings, Strings, Levels, Garbled, Listed
<1>a. TypeOK' /\ IndexInv'
  BY TypeStep
<1>t. /\ fw \in Strings /\ disk \in Settings /\ src \in Strings /\ target \in Strings
      /\ i \in 0 .. LastVersion + 1
      /\ pc = "convert" => i \in 1 .. fw.base
      /\ job \in {"boot", "import", "flash"}
      /\ pc # "off" => mem \in Settings
      /\ pc = "off" => mem = Off
  BY DEF TypeOK
<1>f. Files \subseteq Strings
  BY FilesAssumption
<1>1. CASE PowerOn
  <2>2. DiskOK'
    BY <1>1, <1>t, PureString
    DEF PowerOn, Enter, Undisturbed, MigrateInv, DiskOK, UpgradeOK, DowngradeOK, InWindow
  <2>3. UpgradeOK'
    BY <1>1, <1>t, PureString
    DEF PowerOn, Enter, MigrateInv, DiskOK, UpgradeOK, DowngradeOK, InWindow
  <2>4. DowngradeOK'
    BY <1>1, <1>t, PureString
    DEF PowerOn, Enter, MigrateInv, DiskOK, UpgradeOK, DowngradeOK, InWindow
  <2>5. pc' = "up" => mem'.fmt = fw'.base /\ mem'.ver = fw'
    BY <1>1, <1>t DEF PowerOn, Enter, MigrateInv, UpgradeOK, DowngradeOK
  <2> QED
    BY <1>a, <2>2, <2>3, <2>4, <2>5 DEF MigrateInv
<1>2. CASE SpecialProcessing
  <2>2. DiskOK'
    BY <1>2, <1>t, PureString
    DEF SpecialProcessing, Undisturbed, MigrateInv, DiskOK, UpgradeOK, DowngradeOK, InWindow
  <2>3. UpgradeOK'
    BY <1>2, <1>t, PureString
    DEF SpecialProcessing, MigrateInv, DiskOK, UpgradeOK, DowngradeOK, InWindow
  <2>4. DowngradeOK'
    BY <1>2, <1>t, PureString
    DEF SpecialProcessing, MigrateInv, DiskOK, UpgradeOK, DowngradeOK, InWindow
  <2>5. pc' = "up" => mem'.fmt = fw'.base /\ mem'.ver = fw'
    BY <1>2, <1>t DEF SpecialProcessing, MigrateInv, UpgradeOK, DowngradeOK
  <2> QED
    BY <1>a, <2>2, <2>3, <2>4, <2>5 DEF MigrateInv
<1>3. CASE FwVersionUpdate
  <2>2. DiskOK'
    BY <1>3, <1>t, PureString
    DEF FwVersionUpdate, Destination, Undisturbed, MigrateInv, DiskOK, UpgradeOK, DowngradeOK, InWindow
  <2>3. UpgradeOK'
    BY <1>3, <1>t, PureString
    DEF FwVersionUpdate, Destination, MigrateInv, DiskOK, UpgradeOK, DowngradeOK, InWindow
  <2>4. DowngradeOK'
    BY <1>3, <1>t, PureString
    DEF FwVersionUpdate, Destination, MigrateInv, DiskOK, UpgradeOK, DowngradeOK, InWindow
  <2>5. pc' = "up" => mem'.fmt = fw'.base /\ mem'.ver = fw'
    BY <1>3, <1>t DEF FwVersionUpdate, Destination, MigrateInv, UpgradeOK, DowngradeOK
  <2> QED
    BY <1>a, <2>2, <2>3, <2>4, <2>5 DEF MigrateInv
<1>4. CASE LookupUpgrade
  <2>2. DiskOK'
    BY <1>4, <1>t, PureString
    DEF LookupUpgrade, Undisturbed, MigrateInv, DiskOK, UpgradeOK, DowngradeOK, InWindow
  <2>3. UpgradeOK'
    BY <1>4, <1>t, PureString
    DEF LookupUpgrade, MigrateInv, DiskOK, UpgradeOK, DowngradeOK, InWindow
  <2>4. DowngradeOK'
    BY <1>4, <1>t, PureString
    DEF LookupUpgrade, MigrateInv, DiskOK, UpgradeOK, DowngradeOK, InWindow
  <2>5. pc' = "up" => mem'.fmt = fw'.base /\ mem'.ver = fw'
    BY <1>4, <1>t DEF LookupUpgrade, MigrateInv, UpgradeOK, DowngradeOK
  <2> QED
    BY <1>a, <2>2, <2>3, <2>4, <2>5 DEF MigrateInv
<1>5. CASE LookupUnknown
  <2>2. DiskOK'
    BY <1>5, <1>t, PureString
    DEF LookupUnknown, Undisturbed, MigrateInv, DiskOK, UpgradeOK, DowngradeOK, InWindow
  <2>3. UpgradeOK'
    BY <1>5, <1>t, PureString
    DEF LookupUnknown, MigrateInv, DiskOK, UpgradeOK, DowngradeOK, InWindow
  <2>4. DowngradeOK'
    BY <1>5, <1>t, PureString
    DEF LookupUnknown, MigrateInv, DiskOK, UpgradeOK, DowngradeOK, InWindow
  <2>5. pc' = "up" => mem'.fmt = fw'.base /\ mem'.ver = fw'
    BY <1>5, <1>t DEF LookupUnknown, MigrateInv, UpgradeOK, DowngradeOK
  <2> QED
    BY <1>a, <2>2, <2>3, <2>4, <2>5 DEF MigrateInv
<1>6. CASE LookupDowngrade
  <2>2. DiskOK'
    BY <1>6, <1>t, PureString
    DEF LookupDowngrade, Downgrades, Undisturbed, MigrateInv, DiskOK, UpgradeOK, DowngradeOK, InWindow
  <2>3. UpgradeOK'
    BY <1>6, <1>t, PureString
    DEF LookupDowngrade, Downgrades, MigrateInv, DiskOK, UpgradeOK, DowngradeOK, InWindow
  <2>4. DowngradeOK'
    BY <1>6, <1>t, PureString
    DEF LookupDowngrade, Downgrades, MigrateInv, DiskOK, UpgradeOK, DowngradeOK, InWindow
  <2>5. pc' = "up" => mem'.fmt = fw'.base /\ mem'.ver = fw'
    BY <1>6, <1>t DEF LookupDowngrade, Downgrades, MigrateInv, UpgradeOK, DowngradeOK
  <2> QED
    BY <1>a, <2>2, <2>3, <2>4, <2>5 DEF MigrateInv
<1>7. CASE ConvertUp
  <2>2. DiskOK'
    BY <1>7, <1>t, PureString
    DEF ConvertUp, UpgradeFunc, FuncCommits, Undisturbed, MigrateInv, DiskOK, UpgradeOK, DowngradeOK, InWindow
  <2>3. UpgradeOK'
    BY <1>7, <1>t, PureString
    DEF ConvertUp, UpgradeFunc, FuncCommits, MigrateInv, DiskOK, UpgradeOK, DowngradeOK, InWindow
  <2>4. DowngradeOK'
    BY <1>7, <1>t, PureString
    DEF ConvertUp, UpgradeFunc, FuncCommits, MigrateInv, DiskOK, UpgradeOK, DowngradeOK, InWindow
  <2>5. pc' = "up" => mem'.fmt = fw'.base /\ mem'.ver = fw'
    BY <1>7, <1>t DEF ConvertUp, UpgradeFunc, FuncCommits, MigrateInv, UpgradeOK, DowngradeOK
  <2> QED
    BY <1>a, <2>2, <2>3, <2>4, <2>5 DEF MigrateInv
<1>8. CASE ConvertDown
  <2>2. DiskOK'
    <3>0. /\ pc = "convert" /\ job = "flash" /\ job' = job /\ src' = src /\ fw' = fw
          /\ i \in 1 .. fw.base /\ src = fw /\ i' = i - 1
          /\ pc' \in {"convert", "version"}
      BY <1>8, <1>t DEF ConvertDown, MigrateInv, DowngradeOK
    <3>1. CASE i \in DownCommits
      <4>1. i' < i /\ i <= src'.base
        BY <3>0, <1>t
      <4>2. \E n \in DownCommits : i' < n /\ n <= src'.base
        BY <3>1, <4>1
      <4> QED
        BY <3>0, <4>2 DEF DiskOK, InWindow
    <3>2. CASE i \notin DownCommits
      <4>1. disk' = disk
        BY <1>8, <3>2 DEF ConvertDown, FuncCommits
      <4>2. CASE InWindow
        <5>1. PICK n \in DownCommits : i < n /\ n <= src.base
          BY <3>0, <4>2 DEF InWindow
        <5>2. i' < n /\ n <= src'.base
          BY <3>0, <5>1, <1>t, CommitsAssumption
        <5> QED
          BY <3>0, <5>2 DEF DiskOK, InWindow
      <4>3. CASE ~InWindow
        BY <3>0, <4>1, <4>3 DEF MigrateInv, DiskOK
      <4> QED
        BY <4>2, <4>3
    <3> QED
      BY <3>1, <3>2
  <2>3. UpgradeOK'
    BY <1>8, <1>t, PureString
    DEF ConvertDown, DowngradeFunc, FuncCommits, MigrateInv, DiskOK, UpgradeOK, DowngradeOK, InWindow
  <2>4. DowngradeOK'
    BY <1>8, <1>t, PureString
    DEF ConvertDown, DowngradeFunc, FuncCommits, MigrateInv, DiskOK, UpgradeOK, DowngradeOK, InWindow
  <2>5. pc' = "up" => mem'.fmt = fw'.base /\ mem'.ver = fw'
    BY <1>8, <1>t DEF ConvertDown, DowngradeFunc, FuncCommits, MigrateInv, UpgradeOK, DowngradeOK
  <2> QED
    BY <1>a, <2>2, <2>3, <2>4, <2>5 DEF MigrateInv
<1>9. CASE ConvertWild
  <2>2. DiskOK'
    BY <1>9, <1>t, PureString
    DEF ConvertWild, UpgradeFunc, FuncCommits, Undisturbed, MigrateInv, DiskOK, UpgradeOK, DowngradeOK, InWindow
  <2>3. UpgradeOK'
    BY <1>9, <1>t, PureString
    DEF ConvertWild, UpgradeFunc, FuncCommits, MigrateInv, DiskOK, UpgradeOK, DowngradeOK, InWindow
  <2>4. DowngradeOK'
    BY <1>9, <1>t, PureString
    DEF ConvertWild, UpgradeFunc, FuncCommits, MigrateInv, DiskOK, UpgradeOK, DowngradeOK, InWindow
  <2>5. pc' = "up" => mem'.fmt = fw'.base /\ mem'.ver = fw'
    BY <1>9, <1>t DEF ConvertWild, UpgradeFunc, FuncCommits, MigrateInv, UpgradeOK, DowngradeOK
  <2> QED
    BY <1>a, <2>2, <2>3, <2>4, <2>5 DEF MigrateInv
<1>10. CASE Dead
  <2>2. DiskOK'
    BY <1>10, <1>t, PureString
    DEF Dead, Undisturbed, MigrateInv, DiskOK, UpgradeOK, DowngradeOK, InWindow
  <2>3. UpgradeOK'
    BY <1>10, <1>t, PureString
    DEF Dead, MigrateInv, DiskOK, UpgradeOK, DowngradeOK, InWindow
  <2>4. DowngradeOK'
    BY <1>10, <1>t, PureString
    DEF Dead, MigrateInv, DiskOK, UpgradeOK, DowngradeOK, InWindow
  <2>5. pc' = "up" => mem'.fmt = fw'.base /\ mem'.ver = fw'
    BY <1>10, <1>t DEF Dead, MigrateInv, UpgradeOK, DowngradeOK
  <2> QED
    BY <1>a, <2>2, <2>3, <2>4, <2>5 DEF MigrateInv
<1>11. CASE Finish
  <2>2. DiskOK'
    BY <1>11, <1>t, PureString
    DEF Finish, Undisturbed, MigrateInv, DiskOK, UpgradeOK, DowngradeOK, InWindow
  <2>3. UpgradeOK'
    BY <1>11, <1>t, PureString
    DEF Finish, MigrateInv, DiskOK, UpgradeOK, DowngradeOK, InWindow
  <2>4. DowngradeOK'
    BY <1>11, <1>t, PureString
    DEF Finish, MigrateInv, DiskOK, UpgradeOK, DowngradeOK, InWindow
  <2>5. pc' = "up" => mem'.fmt = fw'.base /\ mem'.ver = fw'
    BY <1>11, <1>t DEF Finish, MigrateInv, UpgradeOK, DowngradeOK
  <2> QED
    BY <1>a, <2>2, <2>3, <2>4, <2>5 DEF MigrateInv
<1>12. CASE WriteImage
  <2>2. DiskOK'
    BY <1>12, <1>t, PureString
    DEF WriteImage, Undisturbed, MigrateInv, DiskOK, UpgradeOK, DowngradeOK, InWindow
  <2>3. UpgradeOK'
    BY <1>12, <1>t, PureString
    DEF WriteImage, MigrateInv, DiskOK, UpgradeOK, DowngradeOK, InWindow
  <2>4. DowngradeOK'
    BY <1>12, <1>t, PureString
    DEF WriteImage, MigrateInv, DiskOK, UpgradeOK, DowngradeOK, InWindow
  <2>5. pc' = "up" => mem'.fmt = fw'.base /\ mem'.ver = fw'
    BY <1>12, <1>t DEF WriteImage, MigrateInv, UpgradeOK, DowngradeOK
  <2> QED
    BY <1>a, <2>2, <2>3, <2>4, <2>5 DEF MigrateInv
<1>13. ASSUME NEW image \in Strings, StartFlash(image) PROVE IInv'
  <2>2. DiskOK'
    BY <1>13, <1>t, PureString
    DEF StartFlash, Enter, Undisturbed, MigrateInv, DiskOK, UpgradeOK, DowngradeOK, InWindow
  <2>3. UpgradeOK'
    BY <1>13, <1>t, PureString
    DEF StartFlash, Enter, MigrateInv, DiskOK, UpgradeOK, DowngradeOK, InWindow
  <2>4. DowngradeOK'
    BY <1>13, <1>t, PureString
    DEF StartFlash, Enter, MigrateInv, DiskOK, UpgradeOK, DowngradeOK, InWindow
  <2>5. pc' = "up" => mem'.fmt = fw'.base /\ mem'.ver = fw'
    BY <1>13, <1>t DEF StartFlash, Enter, MigrateInv, UpgradeOK, DowngradeOK
  <2> QED
    BY <1>a, <2>2, <2>3, <2>4, <2>5 DEF MigrateInv
<1>14. ASSUME NEW image \in Strings, Recovery(image) PROVE IInv'
  <2>2. DiskOK'
    BY <1>14, <1>t, PureString
    DEF Recovery, Undisturbed, MigrateInv, DiskOK, UpgradeOK, DowngradeOK, InWindow
  <2>3. UpgradeOK'
    BY <1>14, <1>t, PureString
    DEF Recovery, MigrateInv, DiskOK, UpgradeOK, DowngradeOK, InWindow
  <2>4. DowngradeOK'
    BY <1>14, <1>t, PureString
    DEF Recovery, MigrateInv, DiskOK, UpgradeOK, DowngradeOK, InWindow
  <2>5. pc' = "up" => mem'.fmt = fw'.base /\ mem'.ver = fw'
    BY <1>14, <1>t DEF Recovery, MigrateInv, UpgradeOK, DowngradeOK
  <2> QED
    BY <1>a, <2>2, <2>3, <2>4, <2>5 DEF MigrateInv
<1>15. ASSUME NEW file \in Files, NEW ssh \in {Closed, {file}}, StartImport(file, ssh) PROVE IInv'
  <2>2. DiskOK'
    BY <1>15, <1>t, <1>f, PureString
    DEF StartImport, Enter, Undisturbed, MigrateInv, DiskOK, UpgradeOK, DowngradeOK, InWindow
  <2>3. UpgradeOK'
    BY <1>15, <1>t, <1>f, PureString
    DEF StartImport, Enter, MigrateInv, DiskOK, UpgradeOK, DowngradeOK, InWindow
  <2>4. DowngradeOK'
    BY <1>15, <1>t, <1>f, PureString
    DEF StartImport, Enter, MigrateInv, DiskOK, UpgradeOK, DowngradeOK, InWindow
  <2>5. pc' = "up" => mem'.fmt = fw'.base /\ mem'.ver = fw'
    BY <1>15, <1>t DEF StartImport, Enter, MigrateInv, UpgradeOK, DowngradeOK
  <2> QED
    BY <1>a, <2>2, <2>3, <2>4, <2>5 DEF MigrateInv
<1>16. CASE EnableSsh
  <2>2. DiskOK'
    BY <1>16, <1>t, PureString
    DEF EnableSsh, OthersRun, Undisturbed, MigrateInv, DiskOK, UpgradeOK, DowngradeOK, InWindow
  <2>3. UpgradeOK'
    BY <1>16, <1>t, PureString
    DEF EnableSsh, OthersRun, MigrateInv, DiskOK, UpgradeOK, DowngradeOK, InWindow
  <2>4. DowngradeOK'
    BY <1>16, <1>t, PureString
    DEF EnableSsh, OthersRun, MigrateInv, DiskOK, UpgradeOK, DowngradeOK, InWindow
  <2>5. pc' = "up" => mem'.fmt = fw'.base /\ mem'.ver = fw'
    BY <1>16, <1>t DEF EnableSsh, OthersRun, MigrateInv, UpgradeOK, DowngradeOK
  <2> QED
    BY <1>a, <2>2, <2>3, <2>4, <2>5 DEF MigrateInv
<1>17. CASE OtherCommit
  <2>2. DiskOK'
    <3>1. disk' = mem /\ fw' = fw /\ pc' = pc /\ job' = job
      BY <1>17 DEF OtherCommit
    <3>2. CASE pc = "up"
      BY <3>1, <3>2, <1>t DEF MigrateInv, DiskOK
    <3>3. CASE pc # "up"
      <4>1. job = "flash" /\ pc \notin {"off", "convert", "version"}
        BY <1>17, <1>t, <3>3 DEF OtherCommit, OthersRun, HalfConverted, Undisturbed
      <4>2. mem.fmt = mem.ver.base /\ mem.ver.base <= fw.base
        BY <4>1, <3>3, <1>t DEF TypeOK, MigrateInv, DowngradeOK
      <4> QED
        BY <3>1, <4>2 DEF DiskOK
    <3> QED
      BY <3>2, <3>3
  <2>3. UpgradeOK'
    BY <1>17, <1>t, PureString
    DEF OtherCommit, OthersRun, HalfConverted, MigrateInv, DiskOK, UpgradeOK, DowngradeOK, InWindow
  <2>4. DowngradeOK'
    BY <1>17, <1>t, PureString
    DEF OtherCommit, OthersRun, HalfConverted, MigrateInv, DiskOK, UpgradeOK, DowngradeOK, InWindow
  <2>5. pc' = "up" => mem'.fmt = fw'.base /\ mem'.ver = fw'
    BY <1>17, <1>t DEF OtherCommit, OthersRun, HalfConverted, MigrateInv, UpgradeOK, DowngradeOK
  <2> QED
    BY <1>a, <2>2, <2>3, <2>4, <2>5 DEF MigrateInv
<1>18. CASE PowerLoss
  <2>2. DiskOK'
    BY <1>18, <1>t, PureString
    DEF PowerLoss, Undisturbed, MigrateInv, DiskOK, UpgradeOK, DowngradeOK, InWindow
  <2>3. UpgradeOK'
    BY <1>18, <1>t, PureString
    DEF PowerLoss, MigrateInv, DiskOK, UpgradeOK, DowngradeOK, InWindow
  <2>4. DowngradeOK'
    BY <1>18, <1>t, PureString
    DEF PowerLoss, MigrateInv, DiskOK, UpgradeOK, DowngradeOK, InWindow
  <2>5. pc' = "up" => mem'.fmt = fw'.base /\ mem'.ver = fw'
    BY <1>18, <1>t DEF PowerLoss, MigrateInv, UpgradeOK, DowngradeOK
  <2> QED
    BY <1>a, <2>2, <2>3, <2>4, <2>5 DEF MigrateInv
<1>19. CASE UNCHANGED vars
  BY <1>a, <1>19 DEF vars, MigrateInv, DiskOK, UpgradeOK, DowngradeOK, InWindow, Listed
<1> QED
  BY <1>1, <1>2, <1>3, <1>4, <1>5, <1>6, <1>7, <1>8, <1>9, <1>10, <1>11, <1>12, <1>13, <1>14, <1>15, <1>16, <1>17, <1>18, <1>19 DEF Next

\* Once the call that runs at boot, after an import or before a new image has
\* ended, the settings in memory have the format of the running firmware, if
\* the power does not fail in InWindow, no other process commits
\* half-converted settings and no recovery puts in an older image
\* (nvram_upgrade, nvram_downgrade, nvram_import).
THEOREM SettingsFollowFirmware == ASSUME Undisturbed PROVE Spec => []FormatMatches
<1>1. IInv /\ [Next]_vars => IInv'
  BY MigrateStep
<1>2. IInv => FormatMatches
  BY DEF IInv, MigrateInv, FormatMatches
<1> QED
  BY MigrateInit, <1>1, <1>2, PTL DEF Spec

\* On the way, wherever the power may fail, what is committed is what the
\* firmware in flash can upgrade from: the invariant of all three calls.
THEOREM MigrateInvariant == ASSUME Undisturbed PROVE Spec => []MigrateInv
<1>1. IInv /\ [Next]_vars => IInv'
  BY MigrateStep
<1>2. IInv => MigrateInv
  BY DEF IInv
<1> QED
  BY MigrateInit, <1>1, <1>2, PTL DEF Spec

-----------------------------------------------------------------------------
\* What BackdoorStaysClosed needs.  Power may fail anywhere, any image may be
\* put in and others enable ssh whenever they run, but no other process
\* commits in the middle of an import or of a downgrade's conversions, and the
\* files that are imported come from releases, without a suffix.
Marked == ~CommitInWindow /\ \A file \in Files : file.suffix = NoSuffix

\* Nothing to close under version v.
SshFine(settings, v) == settings.ssh = Closed \/ v \in settings.ssh

\* Why it stays closed: the settings that a power loss can bring back are
\* marked with a firmware that ssh may be open under, and a call that gives
\* them another mark has closed it before.
BackdoorInv ==
    /\ SshFine(disk, disk.ver)
    /\ pc # "off" /\ ~ (job = "import" /\ pc = "special") => SshFine(mem, mem.ver)
    /\ pc = "version" => SshFine(mem, Destination)
    /\ job # "flash" /\ pc \notin {"off", "special", "version"} => mem.ver = fw
    /\ job = "import" /\ pc # "off" => mem.ver = fw
    /\ job = "flash" /\ pc # "off" =>
         /\ pc \notin {"wild", "dead", "up"}
         /\ mem.ver = fw \/ (PastClosing /\ mem.ver = Pure(target))
         /\ PastClosing /\ pc \in {"lookup", "convert"} => SshFine(mem, Pure(target))
         /\ pc \in {"convert", "version"} => Downgrades
    /\ pc = "write" => job = "flash"

\* Every step keeps it.
LEMMA BackdoorStep ==
    ASSUME Marked, TypeOK, BackdoorInv, [Next]_vars
    PROVE  BackdoorInv'
<1> USE DEF BackdoorInv, SshFine, Closed, Destination, PastClosing, Downgrades, Listed
<1>t. /\ fw \in Strings /\ disk \in Settings /\ src \in Strings /\ target \in Strings
      /\ job \in {"boot", "import", "flash"}
      /\ pc # "off" => mem \in Settings
  BY DEF TypeOK
<1> USE DEF Settings, Strings, Levels
<1>1. CASE PowerOn
  BY <1>t, <1>1 DEF PowerOn, Enter
<1>2. CASE SpecialProcessing
  BY <1>t, <1>2 DEF SpecialProcessing, Pure
<1>3. CASE FwVersionUpdate
  BY <1>t, <1>3 DEF FwVersionUpdate, Pure
<1>4. CASE LookupUpgrade
  BY <1>t, <1>4 DEF LookupUpgrade
<1>5. CASE LookupUnknown
  BY <1>t, <1>5 DEF LookupUnknown
<1>6. CASE LookupDowngrade
  BY <1>t, <1>6 DEF LookupDowngrade, Pure
<1>7. CASE ConvertUp
  BY <1>t, <1>7 DEF ConvertUp, FuncCommits
<1>8. CASE ConvertDown
  BY <1>t, <1>8 DEF ConvertDown, FuncCommits
<1>9. CASE ConvertWild
  BY <1>t, <1>9 DEF ConvertWild, FuncCommits
<1>10. CASE Dead
  BY <1>t, <1>10 DEF Dead
<1>11. CASE Finish
  BY <1>t, <1>11 DEF Finish
<1>12. CASE WriteImage
  BY <1>t, <1>12 DEF WriteImage
<1>13. CASE EnableSsh
  BY <1>t, <1>13 DEF EnableSsh, OthersRun
<1>14. CASE OtherCommit
  BY <1>t, <1>14 DEF OtherCommit, OthersRun, HalfConverted, Marked
<1>15. CASE PowerLoss
  BY <1>t, <1>15 DEF PowerLoss
<1>16. CASE UNCHANGED vars
  BY <1>t, <1>16 DEF vars
<1>17. ASSUME NEW image \in Strings, StartFlash(image) PROVE BackdoorInv'
  <2>1. /\ mem' = mem /\ disk' = disk /\ fw' = fw /\ job' = "flash" /\ target' = image
        /\ src' = mem.ver /\ pc' = IF mem.ver = Pure(image) THEN "lookup" ELSE "special"
    BY <1>17 DEF StartFlash, Enter
  <2>2. mem.ver = fw /\ SshFine(mem, mem.ver)
    BY <1>t, <1>17 DEF StartFlash
  <2>3. ~ PastClosing'
    BY <2>1, PureString
  <2> QED
    BY <2>1, <2>2, <2>3
<1>19. ASSUME NEW image \in Strings, Recovery(image) PROVE BackdoorInv'
  BY <1>t, <1>19 DEF Recovery
<1>18. ASSUME NEW file \in Files, NEW ssh \in {Closed, {file}}, StartImport(file, ssh)
       PROVE  BackdoorInv'
  <2>1. file \in Strings /\ Pure(file) = file
    BY FilesAssumption DEF Marked, Pure
  <2>2. mem' = [mem EXCEPT !.fmt = file.base, !.ssh = ssh] /\ mem'.ver = mem.ver /\ mem'.ssh = ssh
    BY <1>t, <1>18 DEF StartImport
  <2> QED
    BY <1>t, <1>18, <2>1, <2>2 DEF StartImport, Enter
<1> QED
  BY <1>1, <1>2, <1>3, <1>4, <1>5, <1>6, <1>7, <1>8, <1>9, <1>10, <1>11, <1>12, <1>13, <1>14, <1>15, <1>16, <1>17, <1>18, <1>19 DEF Next

\* The backdoor does not outlive the firmware it was opened under, with the one
\* exception BackdoorClosed states, for any versions and suffixes, wherever the
\* power fails, also inside an upgrade, whenever ssh is enabled and whatever
\* image a recovery puts in (special_processing commits before the new
\* fw_version does).
THEOREM BackdoorStaysClosed == ASSUME Marked PROVE Spec => []BackdoorClosed
<1>1. Init => BackdoorInv
  BY DEF Init, BackdoorInv, SshFine, Closed
<1>2. TypeOK /\ BackdoorInv /\ [Next]_vars => BackdoorInv'
  BY BackdoorStep
<1>3. BackdoorInv => BackdoorClosed
  BY DEF BackdoorInv, SshFine, Closed, BackdoorClosed
<1> QED
  BY TypeCorrect, <1>1, <1>2, <1>3, PTL DEF Spec

=============================================================================
