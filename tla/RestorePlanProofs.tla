------------------------- MODULE RestorePlanProofs -------------------------
(***************************************************************************)
(* Proofs about RestorePlan, for every machine, every image and every      *)
(* number of restores: the flags that survive a restore do not force the   *)
(* next one; the two copies of the table of a new disk agree; an unforced  *)
(* restore keeps the tables; WinRE's data goes to its entry of the table;  *)
(* and a restore to another disk leaves the image alone.                   *)
(***************************************************************************)
EXTENDS RestorePlan, RankTheorems, TLAPS

-----------------------------------------------------------------------------
(***************************************************************************)
(* Back to the menu.                                                       *)
(***************************************************************************)

\* What Return leaves.
LEMMA ReturnStep ==
  ASSUME NEW data, DataShape(data), Return(data), machine' = machine, DiskShape',
         data.force => wanted' # "no"
  PROVE  IInv'
<1>1. /\ g_data' = [data EXCEPT !.bFactoryRestore = FALSE] /\ local' = Idle
      /\ pc' = "reboot" \/ pc' = "menu"
  BY DEF Return
<1>2. /\ DataShape(g_data') /\ g_data'.bFactoryRestore = FALSE /\ g_data'.force = data.force
  BY <1>1 DEF DataShape, DataFields
<1>3. /\ LocalFields \subseteq DOMAIN local' /\ local'.linux = FALSE
  BY <1>1 DEF Idle, LocalFields
<1>4. Shape'
  BY <1>2, <1>3 DEF Shape, DataShape
<1>5. Way'
  BY <1>1, <1>3 DEF Way
<1>6. ForceInv'
  BY <1>2 DEF ForceInv, Forcing
<1>7. FaceInv'
  BY <1>1 DEF FaceInv, TablesAgree
<1> QED BY <1>4, <1>5, <1>6, <1>7 DEF IInv

\* What Done leaves: the flag only after Recover_Linux.
LEMMA DoneStep ==
  ASSUME IInv, NEW data, DataShape(data), Done(data), DiskShape'
  PROVE  IInv'
<1> DEFINE kept == [data EXCEPT !.force = data.force /\ local.linux]
<1>1. Return(kept) /\ machine' = machine
  BY DEF Done
<1>2. DataShape(kept) /\ kept.force = (data.force /\ local.linux)
  BY DEF DataShape, DataFields
<1>3. kept.force => wanted' # "no"
  <2>1. Forcing /\ local.linux => wanted # "no"
    BY DEF IInv, ForceInv
  <2>2. wanted' = IF ~local.linux THEN "no" ELSE IF data.force /\ ~Forcing THEN "left" ELSE wanted
    BY DEF Done
  <2> QED BY <1>2, <2>1, <2>2
<1> QED BY <1>1, <1>2, <1>3, ReturnStep

\* The disks keep their records when none is touched ...
LEMMA SameDisks ==
  ASSUME Shape, UNCHANGED <<machine, disk>>
  PROVE  DiskShape'
BY DEF Shape, DiskShape, Disks, NDisks

\* ... and when the one restored to is changed in its fields.
LEMMA TouchedDisk ==
  ASSUME Shape, machine' = machine, NEW r, DOMAIN r = DOMAIN disk[Target],
         disk' = [disk EXCEPT ![Target] = r]
  PROVE  DiskShape' /\ (Target \in Disks => disk'[Target] = r)
<1>1. Disks' = Disks
  BY DEF Disks, NDisks
<1>2. DOMAIN disk' = Disks /\ \A d \in Disks : disk'[d] = IF d = Target THEN r ELSE disk[d]
  BY DEF Shape, DiskShape
<1>3. \A d \in Disks : DOMAIN disk'[d] = DOMAIN disk[d]
  BY <1>2
<1>4. \A d \in Disks : DiskFields \subseteq DOMAIN disk'[d]
  BY <1>3 DEF Shape, DiskShape
<1> QED BY <1>1, <1>2, <1>4 DEF DiskShape

\* A refusal touches no disk.
LEMMA RefuseStep ==
  ASSUME IInv, NEW data, DataShape(data), Refuse(data)
  PROVE  IInv'
<1>1. Done(data) /\ UNCHANGED <<machine, disk>>
  BY DEF Refuse, Done
<1> QED BY <1>1, SameDisks, DoneStep DEF IInv

-----------------------------------------------------------------------------
(***************************************************************************)
(* The session and DetectNewHddFace.                                       *)
(***************************************************************************)

\* Ctrl-F is the user's.
LEMMA ToggleForceStep == IInv /\ ToggleForce => IInv'
<1> SUFFICES ASSUME IInv, ToggleForce PROVE IInv'
  OBVIOUS
<1>1. /\ pc = "menu" /\ g_data' = [g_data EXCEPT !.force = ~g_data.force]
      /\ wanted' = IF Forcing THEN "no" ELSE "user"
      /\ UNCHANGED <<machine, disk, g_disklist, local, pc, rounds, before>>
  BY DEF ToggleForce
<1>2. /\ DataShape(g_data') /\ g_data'.force = (~g_data.force)
      /\ g_data'.bFactoryRestore = g_data.bFactoryRestore
      /\ g_data'.comefromnewhddface = g_data.comefromnewhddface
  BY <1>1 DEF IInv, Shape, DataShape, DataFields
<1>3. Shape'
  BY <1>1, <1>2, SameDisks DEF IInv, Shape, DataShape
<1>4. Way'
  BY <1>1, <1>2 DEF IInv, Way, Face
<1>5. ForceInv'
  BY <1>1, <1>2 DEF IInv, ForceInv, Forcing
<1>6. FaceInv'
  BY <1>1 DEF FaceInv, TablesAgree
<1> QED BY <1>3, <1>4, <1>5, <1>6 DEF IInv

\* A restore begins with the flag as it is, and asked for if it is the factory's.
LEMMA BeginStep ==
  ASSUME IInv, pc = "menu", NEW i, NEW factory \in BOOLEAN, Begin(i, factory)
  PROVE  IInv'
<1> DEFINE im == machine.images[i]
           linux == im.used = 0 /\ ~bIsAutoFunc
<1>1. /\ g_data' = [g_data EXCEPT !.bFactoryRestore = factory, !.selecteddisk = 0,
                                  !.comefromnewhddface = FALSE, !.used = im.used]
      /\ local' = [Idle EXCEPT !.image = i, !.header = im.parts, !.asked = factory,
                               !.linux = linux]
      /\ pc' = "face" \/ pc' = "open"
      /\ im.used = 0 => pc' = "open"
      /\ UNCHANGED <<machine, disk, wanted>>
  BY DEF Begin
<1> HIDE DEF im
<1>2. /\ DataShape(g_data') /\ g_data'.force = g_data.force
      /\ g_data'.bFactoryRestore = factory /\ g_data'.comefromnewhddface = FALSE
  BY <1>1 DEF IInv, Shape, DataShape, DataFields
<1>3. LocalFields \subseteq DOMAIN local' /\ local'.linux = linux /\ local'.asked = factory
  BY <1>1 DEF Idle, LocalFields
<1>4. Shape'
  BY <1>1, <1>2, <1>3, SameDisks DEF IInv, Shape, DataShape
<1>5. Way'
  BY <1>1, <1>2, <1>3 DEF Way, Face
<1>6. ForceInv'
  BY <1>1, <1>2, <1>3 DEF IInv, ForceInv, Forcing
<1>7. FaceInv'
  BY <1>2 DEF FaceInv, Face
<1> QED BY <1>4, <1>5, <1>6, <1>7 DEF IInv

\* What the user, or the automatic mode, does at the menu.
LEMMA SessionStep == IInv /\ Session => IInv'
<1> SUFFICES ASSUME IInv, Session PROVE IInv'
  OBVIOUS
<1>1. CASE ToggleForce
  BY <1>1, ToggleForceStep
<1>2. CASE SelectImage
  BY <1>2, BeginStep DEF SelectImage
<1>3. CASE FactoryRestore
  BY <1>3, BeginStep DEF FactoryRestore
<1>4. CASE AutoRestore
  BY <1>4, BeginStep DEF AutoRestore
<1> QED BY <1>1, <1>2, <1>3, <1>4 DEF Session

\* DetectNewHddFace goes on to Recover, with a disk of the machine if it has chosen one.
LEMMA ToOpenStep ==
  ASSUME IInv, pc = "face", NEW data, DataShape(data), ToOpen(data),
         data.force = g_data.force, data.bFactoryRestore = g_data.bFactoryRestore,
         data.comefromnewhddface => data.selecteddisk \in Disks
  PROVE  IInv'
<1>1. /\ g_data' = data /\ pc' = "open"
      /\ UNCHANGED <<machine, disk, local, wanted>>
  BY DEF ToOpen
<1>2. ~local.linux
  BY DEF IInv, Way
<1>3. Shape'
  BY <1>1, SameDisks DEF IInv, Shape, DataShape
<1>4. Way'
  BY <1>1, <1>2 DEF Way
<1>5. ForceInv'
  BY <1>1, <1>2 DEF IInv, ForceInv, Forcing
<1>6. FaceInv'
  <2>1. Disks' = Disks
    BY <1>1 DEF Disks, NDisks
  <2> QED BY <1>1, <2>1 DEF FaceInv, Face, TablesAgree
<1> QED BY <1>3, <1>4, <1>5, <1>6 DEF IInv

\* The choice of a disk.
LEMMA DetectNewHddFaceStep == IInv /\ DetectNewHddFace => IInv'
<1> SUFFICES ASSUME IInv, DetectNewHddFace PROVE IInv'
  OBVIOUS
<1>1. CASE ChooseSysDisk
  <2>1. PICK d, c : ToOpen([g_data EXCEPT !.selecteddisk = d, !.PartC = c])
    BY <1>1 DEF ChooseSysDisk
  <2> DEFINE data == [g_data EXCEPT !.selecteddisk = d, !.PartC = c]
  <2>2. pc = "face" /\ ~Face
    BY <1>1 DEF ChooseSysDisk, IInv, Way
  <2>3. /\ DataShape(data) /\ data.force = g_data.force
        /\ data.bFactoryRestore = g_data.bFactoryRestore
        /\ data.comefromnewhddface = g_data.comefromnewhddface
    BY DEF IInv, Shape, DataShape, DataFields
  <2> HIDE DEF data
  <2> QED BY <2>1, <2>2, <2>3, ToOpenStep DEF Face, data
<1>2. CASE ChooseNewDisk
  <2>1. PICK d \in Disks : \E c : ToOpen([g_data EXCEPT !.selecteddisk = d,
                                            !.comefromnewhddface = TRUE, !.PartC = c])
    BY <1>2 DEF ChooseNewDisk
  <2>2. PICK c : ToOpen([g_data EXCEPT !.selecteddisk = d,
                                       !.comefromnewhddface = TRUE, !.PartC = c])
    BY <2>1
  <2> DEFINE data == [g_data EXCEPT !.selecteddisk = d, !.comefromnewhddface = TRUE, !.PartC = c]
  <2>3. pc = "face"
    BY <1>2 DEF ChooseNewDisk
  <2>4. /\ DataShape(data) /\ data.force = g_data.force
        /\ data.bFactoryRestore = g_data.bFactoryRestore /\ data.selecteddisk = d
    BY DEF IInv, Shape, DataShape, DataFields
  <2> HIDE DEF data
  <2> QED BY <2>2, <2>3, <2>4, ToOpenStep DEF data
<1>3. CASE CancelFace
  <2> DEFINE data == [g_data EXCEPT !.PartC = NoPart]
  <2>1. pc = "face" /\ Return(data) /\ UNCHANGED <<machine, disk, wanted>>
    BY <1>3 DEF CancelFace
  <2>2. DataShape(data) /\ data.force = g_data.force
    BY DEF IInv, Shape, DataShape, DataFields
  <2>3. Forcing => wanted' # "no"
    BY <2>1 DEF IInv, ForceInv
  <2> HIDE DEF data
  <2> QED BY <2>1, <2>2, <2>3, SameDisks, ReturnStep DEF Forcing, IInv
<1> QED BY <1>1, <1>2, <1>3 DEF DetectNewHddFace

-----------------------------------------------------------------------------
(***************************************************************************)
(* Recover up to the partition table.                                      *)
(***************************************************************************)

\* The media is gone: back with the flag as it was.
LEMMA MediaGoneStep == IInv /\ MediaGone => IInv'
<1> SUFFICES ASSUME IInv, MediaGone PROVE IInv'
  OBVIOUS
<1>1. pc = "open" /\ Return(g_data) /\ UNCHANGED <<machine, disk, wanted>>
  BY DEF MediaGone
<1>2. DataShape(g_data) /\ (g_data.force => wanted' # "no")
  BY <1>1 DEF IInv, Shape, ForceInv, Forcing
<1> QED BY <1>1, <1>2, SameDisks, ReturnStep DEF IInv

\* A step of Recover before the table that leaves the disks alone: what it does to
\* the flags and to the restore under way.
LEMMA RecoverStep ==
  ASSUME IInv, UNCHANGED <<machine, disk, wanted>>,
         DataShape(g_data'), LocalFields \subseteq DOMAIN local',
         g_data'.comefromnewhddface = g_data.comefromnewhddface,
         g_data'.bFactoryRestore = g_data.bFactoryRestore,
         local'.linux = local.linux, ~local.linux,
         local.asked => local'.asked,
         pc' = "ask" \/ pc' = "compare" \/ pc' = "confirm" \/ pc' = "write",
         g_data'.force => g_data.force \/ local'.asked,
         Face => g_data'.RecoverDiskNumber \in Disks,
         pc' = "write" /\ Face => local'.changed
  PROVE  IInv'
<1>1. Shape'
  BY SameDisks DEF IInv, Shape, DataShape
<1>2. Way'
  BY DEF Way
<1>3. ForceInv'
  BY DEF IInv, ForceInv, Forcing
<1>4. FaceInv'
  <2>1. Disks' = Disks
    BY DEF Disks, NDisks
  <2> QED BY <2>1 DEF FaceInv, Face, TablesAgree, Target
<1> QED BY <1>1, <1>2, <1>3, <1>4 DEF IInv

\* The image is open: on with the chosen disk, or to look for one.
LEMMA OpenImageStep == IInv /\ OpenImage => IInv'
<1> SUFFICES ASSUME IInv, OpenImage PROVE IInv'
  OBVIOUS
<1>1. /\ pc = "open" /\ pc' = IF Face THEN "chosen" ELSE "dest"
      /\ UNCHANGED <<machine, disk, g_data, local, wanted>>
  BY DEF OpenImage
<1>2. Shape'
  BY <1>1, SameDisks DEF IInv, Shape, DataShape
<1>3. Way'
  BY <1>1 DEF IInv, Way, Face
<1>4. ForceInv'
  BY <1>1 DEF IInv, ForceInv, Forcing
<1>5. FaceInv'
  BY <1>1 DEF IInv, FaceInv, Face, TablesAgree, Disks, NDisks
<1> QED BY <1>2, <1>3, <1>4, <1>5 DEF IInv

\* The chosen disk is the one to restore to.
LEMMA CheckDestinationDiskStep == IInv /\ CheckDestinationDisk => IInv'
<1> SUFFICES ASSUME IInv, CheckDestinationDisk PROVE IInv'
  OBVIOUS
<1>1. /\ pc = "chosen" /\ pc' = "ask"
      /\ g_data' = [g_data EXCEPT !.RecoverDiskNumber = g_data.selecteddisk]
      /\ UNCHANGED <<machine, disk, local, wanted>>
  BY DEF CheckDestinationDisk
<1>2. /\ DataShape(g_data') /\ g_data'.force = g_data.force
      /\ g_data'.comefromnewhddface = g_data.comefromnewhddface
      /\ g_data'.bFactoryRestore = g_data.bFactoryRestore
      /\ g_data'.RecoverDiskNumber = g_data.selecteddisk
  BY <1>1 DEF IInv, Shape, DataShape, DataFields
<1>3. ~local.linux /\ LocalFields \subseteq DOMAIN local'
  BY <1>1 DEF IInv, Way, Shape
<1>4. Face => g_data'.RecoverDiskNumber \in Disks
  BY <1>1, <1>2 DEF IInv, FaceInv
<1> QED BY <1>1, <1>2, <1>3, <1>4, RecoverStep

\* The dialogs about BitLocker ask before they force.
LEMMA GetDestinationDiskStep == IInv /\ GetDestinationDisk => IInv'
<1> SUFFICES ASSUME IInv, GetDestinationDisk PROVE IInv'
  OBVIOUS
<1> DEFINE force == Forcing \/ AsksToForce
<1>1. PICK d, c, o, s :
        /\ g_data' = [g_data EXCEPT !.PartC = c, !.force = force, !.RecoverDiskNumber = d]
        /\ local' = [local EXCEPT !.olddisk = o, !.c_small = s,
                                  !.asked = local.asked \/ AsksToForce]
  BY DEF GetDestinationDisk, Searched
<1>2. /\ pc = "dest" /\ pc' = "ask" /\ ~local.linux /\ UNCHANGED <<machine, disk, wanted>>
  BY DEF GetDestinationDisk
<1>3. /\ DataShape(g_data') /\ g_data'.force = force
      /\ g_data'.comefromnewhddface = g_data.comefromnewhddface
      /\ g_data'.bFactoryRestore = g_data.bFactoryRestore
  BY <1>1 DEF IInv, Shape, DataShape, DataFields
<1>4. /\ LocalFields \subseteq DOMAIN local' /\ local'.linux = local.linux
      /\ local'.asked = (local.asked \/ AsksToForce)
  BY <1>1 DEF IInv, Shape, LocalFields
<1>5. ~Face
  BY <1>2 DEF IInv, Way
<1> QED BY <1>2, <1>3, <1>4, <1>5, RecoverStep DEF Forcing

\* No disk: the flag is reset.
LEMMA NoDestinationStep == IInv /\ NoDestination => IInv'
<1> SUFFICES ASSUME IInv, NoDestination PROVE IInv'
  OBVIOUS
<1> DEFINE data == [Searched(Forcing) EXCEPT !.RecoverDiskNumber = 0]
<1>1. Refuse(data)
  BY DEF NoDestination
<1>2. DataShape(data)
  BY DEF IInv, Shape, DataShape, Searched
<1> HIDE DEF data
<1> QED BY <1>1, <1>2, RefuseStep

\* An automatic restore asks before it forces.
LEMMA AskAboutBitLockerStep == IInv /\ AskAboutBitLocker => IInv'
<1> SUFFICES ASSUME IInv, AskAboutBitLocker PROVE IInv'
  OBVIOUS
<1> DEFINE asked == ~Face /\ ~Forcing /\ bIsAutoFunc /\ IfDataParExistBitlocker
<1>1. /\ pc = "ask" /\ pc' = "compare" /\ UNCHANGED <<machine, disk, wanted>>
      /\ g_data' = [g_data EXCEPT !.force = g_data.force \/ asked]
      /\ local' = [local EXCEPT !.asked = local.asked \/ asked]
  BY DEF AskAboutBitLocker
<1> HIDE DEF asked
<1>2. /\ DataShape(g_data') /\ g_data'.force = (g_data.force \/ asked)
      /\ g_data'.comefromnewhddface = g_data.comefromnewhddface
      /\ g_data'.bFactoryRestore = g_data.bFactoryRestore
      /\ g_data'.RecoverDiskNumber = g_data.RecoverDiskNumber
  BY <1>1 DEF IInv, Shape, DataShape, DataFields
<1>3. /\ LocalFields \subseteq DOMAIN local' /\ local'.linux = local.linux
      /\ local'.asked = (local.asked \/ asked)
  BY <1>1 DEF IInv, Shape, LocalFields
<1>4. ~local.linux
  BY <1>1 DEF IInv, Way
<1>5. Face => g_data'.RecoverDiskNumber \in Disks
  BY <1>1, <1>2 DEF IInv, FaceInv, Target
<1> QED BY <1>1, <1>2, <1>3, <1>4, <1>5, RecoverStep

\* A factory restore was asked for.
LEMMA CompareStep == IInv /\ Compare => IInv'
<1> SUFFICES ASSUME IInv, Compare PROVE IInv'
  OBVIOUS
<1>1. /\ pc = "compare" /\ pc' = "confirm" /\ UNCHANGED <<machine, disk, wanted>>
      /\ g_data' = [g_data EXCEPT !.force = Forced]
  BY DEF Compare
<1>2. PICK c, f : local' = [local EXCEPT !.changed = c, !.fault = f]
  BY DEF Compare
<1>3. /\ DataShape(g_data') /\ g_data'.force = Forced
      /\ g_data'.comefromnewhddface = g_data.comefromnewhddface
      /\ g_data'.bFactoryRestore = g_data.bFactoryRestore
      /\ g_data'.RecoverDiskNumber = g_data.RecoverDiskNumber
  BY <1>1 DEF IInv, Shape, DataShape, DataFields
<1>4. /\ LocalFields \subseteq DOMAIN local' /\ local'.linux = local.linux
      /\ local'.asked = local.asked
  BY <1>2 DEF IInv, Shape, LocalFields
<1>5. ~local.linux
  BY <1>1 DEF IInv, Way
<1>6. Face => g_data'.RecoverDiskNumber \in Disks
  BY <1>1, <1>3 DEF IInv, FaceInv, Target
<1>7. g_data'.force => g_data.force \/ local'.asked
  BY <1>3, <1>4 DEF IInv, ForceInv, Forced, Forcing
<1> QED BY <1>1, <1>3, <1>4, <1>5, <1>6, <1>7, RecoverStep

\* A new disk is asked about.
LEMMA ConfirmStep == IInv /\ Confirm => IInv'
<1> SUFFICES ASSUME IInv, Confirm PROVE IInv'
  OBVIOUS
<1>1. /\ pc = "confirm" /\ pc' = "write" /\ UNCHANGED <<machine, disk, wanted>>
      /\ g_data' = [g_data EXCEPT !.force = g_data.force \/ Face]
      /\ local' = [local EXCEPT !.changed = local.changed \/ Face, !.asked = local.asked \/ Face]
  BY DEF Confirm, NewDisk
<1>2. /\ DataShape(g_data') /\ g_data'.force = (g_data.force \/ Face)
      /\ g_data'.comefromnewhddface = g_data.comefromnewhddface
      /\ g_data'.bFactoryRestore = g_data.bFactoryRestore
      /\ g_data'.RecoverDiskNumber = g_data.RecoverDiskNumber
  BY <1>1 DEF IInv, Shape, DataShape, DataFields
<1>3. /\ LocalFields \subseteq DOMAIN local' /\ local'.linux = local.linux
      /\ local'.asked = (local.asked \/ Face) /\ local'.changed = (local.changed \/ Face)
  BY <1>1 DEF IInv, Shape, LocalFields
<1>4. ~local.linux
  BY <1>1 DEF IInv, Way
<1>5. Face => g_data'.RecoverDiskNumber \in Disks
  BY <1>1, <1>2 DEF IInv, FaceInv, Target
<1> QED BY <1>1, <1>2, <1>3, <1>4, <1>5, RecoverStep

-----------------------------------------------------------------------------
(***************************************************************************)
(* Recover: the partition table, its repair, and the data.                 *)
(***************************************************************************)

\* A step from the table on: the flags stay, and so does the image.
LEMMA TableStep ==
  ASSUME IInv, UNCHANGED <<machine, wanted>>, DiskShape',
         DataShape(g_data'), g_data'.force = g_data.force,
         g_data'.comefromnewhddface = g_data.comefromnewhddface,
         g_data'.bFactoryRestore = g_data.bFactoryRestore,
         g_data'.RecoverDiskNumber = g_data.RecoverDiskNumber,
         LocalFields \subseteq DOMAIN local', local'.linux = local.linux,
         local'.asked = local.asked, local'.image = local.image,
         pc = "write" \/ pc = "fix" \/ pc = "fix2" \/ pc = "data",
         pc' = "fix" \/ pc' = "fix2" \/ pc' = "data" \/ pc' = "after",
         pc' = "fix2" => Face, pc # "data" => ~local.linux,
         pc = "data" => pc' = "after",
         Face /\ (pc' = "fix" \/ pc' = "fix2") => disk'[Target].gpt = Image.gpt,
         Face /\ (pc' = "data" \/ pc' = "after") /\ ~local'.fault /\ Image.gpt =>
           disk'[Target].table = disk'[Target].backup
  PROVE  IInv'
<1>1. Shape'
  BY DEF Shape, DataShape
<1>2. Way'
  BY DEF IInv, Way, Face
<1>3. ForceInv'
  BY DEF IInv, ForceInv, Forcing
<1>4. FaceInv'
  <2>1. Disks' = Disks /\ Target' = Target /\ Image' = Image /\ Face' = Face
    BY DEF Disks, NDisks, Target, Image, Face
  <2>2. Face => Target \in Disks
    BY DEF IInv, FaceInv
  <2>3. TablesAgree'
    BY <2>1 DEF TablesAgree
  <2> QED BY <2>1, <2>2, <2>3 DEF FaceInv
<1> QED BY <1>1, <1>2, <1>3, <1>4 DEF IInv

\* The whole table of the image brings its kind; a new disk always gets it.
LEMMA RestoreTableStep == IInv /\ RestoreTable => IInv'
<1> SUFFICES ASSUME IInv, RestoreTable PROVE IInv'
  OBVIOUS
<1> DEFINE changed == local.changed \/ RecheckPartitionTable \/ (Forcing /\ ~Face)
           whole == WholeTable(changed)
           r == TableOfImage(disk[Target])
<1>1. /\ pc = "write" /\ pc' = "fix" /\ UNCHANGED <<machine, g_data, wanted>>
      /\ disk' = IF whole THEN [disk EXCEPT ![Target] = r] ELSE disk
      /\ local' = [local EXCEPT !.changed = changed, !.written = whole]
  BY DEF RestoreTable
<1>2. Face => whole
  <2>1. Face => changed
    BY <1>1 DEF IInv, FaceInv
  <2> HIDE DEF changed
  <2> QED BY <2>1 DEF WholeTable
<1>3. Shape /\ ~local.linux /\ (Face => Target \in Disks)
  BY <1>1 DEF IInv, Way, FaceInv
<1>4. DOMAIN r = DOMAIN disk[Target]
  BY DEF TableOfImage
<1>5. Target \in Disks => r.gpt = Image.gpt
  BY <1>3 DEF TableOfImage, Shape, DiskShape, DiskFields
<1> HIDE DEF changed, whole, r
<1>6. LocalFields \subseteq DOMAIN local' /\ local'.linux = local.linux
      /\ local'.asked = local.asked /\ local'.image = local.image
  BY <1>1, <1>3 DEF Shape, LocalFields
<1>7. DiskShape' /\ (Face => disk'[Target].gpt = Image.gpt)
  <2>1. CASE whole
    BY <1>1, <1>3, <1>4, <1>5, <2>1, TouchedDisk
  <2>2. CASE ~whole
    BY <1>1, <1>2, <1>3, <2>2, SameDisks
  <2> QED BY <2>1, <2>2
<1>8. DataShape(g_data')
  BY <1>1, <1>3 DEF Shape
<1> QED BY <1>1, <1>3, <1>6, <1>7, <1>8, TableStep

\* A repair: nobody asks whether it went well, but when it did both tables are written
\* if both were to be.
LEMMA RepairEffect ==
  ASSUME Shape, NEW fix, NEW both, Repair(fix, both)
  PROVE  /\ DiskShape' /\ UNCHANGED <<machine, wanted>>
         /\ LocalFields \subseteq DOMAIN local' /\ local'.linux = local.linux
         /\ local'.asked = local.asked /\ local'.image = local.image
         /\ Target \in Disks => disk'[Target].gpt = disk[Target].gpt
         /\ Target \in Disks /\ both /\ ~local'.fault =>
              disk'[Target].table = disk'[Target].backup
<1>1. PICK w \in {"unread", "unwritten", "half", "done"} :
        /\ disk' = IF w \in {"half", "done"}
                     THEN [disk EXCEPT ![Target] = Retable(disk[Target], fix.table, both /\ w = "done")]
                     ELSE disk
        /\ local' = [local EXCEPT
                       !.header = IF w = "unread" THEN local.header ELSE fix.header,
                       !.fixSmallc = IF w = "unread" THEN local.fixSmallc ELSE fix.fixSmallc,
                       !.fault = local.fault \/ w # "done"]
        /\ UNCHANGED <<machine, wanted>>
  BY DEF Repair
<1>2. /\ LocalFields \subseteq DOMAIN local' /\ local'.linux = local.linux
      /\ local'.asked = local.asked /\ local'.image = local.image
      /\ local'.fault = (local.fault \/ w # "done")
  BY <1>1 DEF Shape, LocalFields
<1> DEFINE r == Retable(disk[Target], fix.table, both /\ w = "done")
<1>3. DOMAIN r = DOMAIN disk[Target]
  BY DEF Retable
<1>4. Target \in Disks => /\ r.gpt = disk[Target].gpt
                          /\ both /\ w = "done" => r.table = r.backup
  BY DEF Retable, Shape, DiskShape, DiskFields
<1> HIDE DEF r
<1>5. CASE w \in {"half", "done"}
  <2>1. disk' = [disk EXCEPT ![Target] = r]
    BY <1>1, <1>5 DEF r
  <2>2. DiskShape' /\ (Target \in Disks => disk'[Target] = r)
    BY <1>1, <1>3, <2>1, TouchedDisk
  <2> QED BY <1>1, <1>2, <1>4, <2>2
<1>6. CASE w \notin {"half", "done"}
  <2>1. disk' = disk
    BY <1>1, <1>6
  <2>2. DiskShape'
    BY <1>1, <2>1, SameDisks
  <2> QED BY <1>1, <1>2, <1>6, <2>1, <2>2
<1> QED BY <1>5, <1>6

\* What the repairs that note the place of WinRE do to the flags.
LEMMA NotedFields ==
  ASSUME Shape, NEW a, NEW b,
         g_data' = [g_data EXCEPT !.WinREState = a, !.wireTotalSectors = b]
  PROVE  /\ DataShape(g_data') /\ g_data'.force = g_data.force
         /\ g_data'.comefromnewhddface = g_data.comefromnewhddface
         /\ g_data'.bFactoryRestore = g_data.bFactoryRestore
         /\ g_data'.RecoverDiskNumber = g_data.RecoverDiskNumber
         /\ g_data'.PartC = g_data.PartC
BY DEF Shape, DataShape, DataFields

\* FixNoDataPartTable writes both tables of a GPT disk.
LEMMA FixNoDataStep == IInv /\ FixNoData => IInv'
<1> SUFFICES ASSUME IInv, FixNoData PROVE IInv'
  OBVIOUS
<1>1. /\ pc = "fix" /\ Face /\ pc' = "data"
      /\ \E a, b : g_data' = [g_data EXCEPT !.WinREState = a, !.wireTotalSectors = b]
  BY DEF FixNoData
<1>2. PICK both \in BOOLEAN : (disk[Target].gpt => both) /\ \E fix : Repair(fix, both)
  BY DEF FixNoData
<1>3. Shape /\ ~local.linux /\ Target \in Disks /\ disk[Target].gpt = Image.gpt
  BY <1>1 DEF IInv, Way, FaceInv
<1>4. /\ DataShape(g_data') /\ g_data'.force = g_data.force
      /\ g_data'.comefromnewhddface = g_data.comefromnewhddface
      /\ g_data'.bFactoryRestore = g_data.bFactoryRestore
      /\ g_data'.RecoverDiskNumber = g_data.RecoverDiskNumber
  BY <1>1, <1>3, NotedFields
<1>5. /\ DiskShape' /\ UNCHANGED <<machine, wanted>>
      /\ LocalFields \subseteq DOMAIN local' /\ local'.linux = local.linux
      /\ local'.asked = local.asked /\ local'.image = local.image
      /\ both /\ ~local'.fault => disk'[Target].table = disk'[Target].backup
  BY <1>2, <1>3, RepairEffect
<1> QED BY <1>1, <1>2, <1>3, <1>4, <1>5, TableStep

\* FixNewHDD keeps the kind of the table ...
LEMMA FixNewStep == IInv /\ FixNew => IInv'
<1> SUFFICES ASSUME IInv, FixNew PROVE IInv'
  OBVIOUS
<1>1. /\ pc = "fix" /\ Face /\ pc' = "fix2"
      /\ \E a, b : g_data' = [g_data EXCEPT !.WinREState = a, !.wireTotalSectors = b]
      /\ \E fix : Repair(fix, FALSE)
  BY DEF FixNew
<1>2. Shape /\ ~local.linux /\ Target \in Disks /\ disk[Target].gpt = Image.gpt
  BY <1>1 DEF IInv, Way, FaceInv
<1>3. /\ DataShape(g_data') /\ g_data'.force = g_data.force
      /\ g_data'.comefromnewhddface = g_data.comefromnewhddface
      /\ g_data'.bFactoryRestore = g_data.bFactoryRestore
      /\ g_data'.RecoverDiskNumber = g_data.RecoverDiskNumber
  BY <1>1, <1>2, NotedFields
<1>4. /\ DiskShape' /\ UNCHANGED <<machine, wanted>>
      /\ LocalFields \subseteq DOMAIN local' /\ local'.linux = local.linux
      /\ local'.asked = local.asked /\ local'.image = local.image
      /\ disk'[Target].gpt = disk[Target].gpt
  BY <1>1, <1>2, RepairEffect
<1> QED BY <1>1, <1>2, <1>3, <1>4, TableStep

\* ... and FixNewHDDPartitionTable writes both.
LEMMA FixTableStep == IInv /\ FixTable => IInv'
<1> SUFFICES ASSUME IInv, FixTable PROVE IInv'
  OBVIOUS
<1>1. pc = "fix2" /\ pc' = "data" /\ g_data' = g_data
  BY DEF FixTable
<1>2. Shape /\ ~local.linux /\ Face /\ Target \in Disks /\ disk[Target].gpt = Image.gpt
  BY <1>1 DEF IInv, Way, FaceInv
<1>3. DataShape(g_data')
  BY <1>1, <1>2 DEF Shape
<1>4. /\ DiskShape' /\ UNCHANGED <<machine, wanted>>
      /\ LocalFields \subseteq DOMAIN local' /\ local'.linux = local.linux
      /\ local'.asked = local.asked /\ local'.image = local.image
      /\ disk[Target].gpt /\ ~local'.fault => disk'[Target].table = disk'[Target].backup
  <2>1. CASE disk[Target].gpt
    <3>1. \E fix : Repair(fix, TRUE)
      BY <2>1 DEF FixTable
    <3> QED BY <1>2, <3>1, RepairEffect
  <2>2. CASE ~disk[Target].gpt
    <3>1. UNCHANGED <<machine, disk, local, wanted>>
      BY <2>2 DEF FixTable
    <3> QED BY <1>2, <2>2, <3>1, SameDisks DEF Shape
  <2> QED BY <2>1, <2>2
<1> QED BY <1>1, <1>2, <1>3, <1>4, TableStep

\* The repair for another disk, which DetectNewHddFace has not chosen.
LEMMA FixOtherStep == IInv /\ FixOther => IInv'
<1> SUFFICES ASSUME IInv, FixOther PROVE IInv'
  OBVIOUS
<1>1. /\ pc = "fix" /\ ~Face /\ pc' = "data" /\ g_data' = g_data
      /\ \E fix : Repair(fix, FALSE)
  BY DEF FixOther
<1>2. Shape /\ ~local.linux /\ DataShape(g_data')
  BY <1>1 DEF IInv, Way, Shape
<1>3. /\ DiskShape' /\ UNCHANGED <<machine, wanted>>
      /\ LocalFields \subseteq DOMAIN local' /\ local'.linux = local.linux
      /\ local'.asked = local.asked /\ local'.image = local.image
  BY <1>1, <1>2, RepairEffect
<1> QED BY <1>1, <1>2, <1>3, TableStep

\* The disk of the image needs no repair.
LEMMA NothingToFixStep == IInv /\ NothingToFix => IInv'
<1> SUFFICES ASSUME IInv, NothingToFix PROVE IInv'
  OBVIOUS
<1>1. /\ pc = "fix" /\ ~Face /\ pc' = "data" /\ UNCHANGED <<machine, disk, g_data, local, wanted>>
  BY DEF NothingToFix
<1>2. Shape /\ ~local.linux /\ DataShape(g_data') /\ LocalFields \subseteq DOMAIN local'
  BY <1>1 DEF IInv, Way, Shape
<1>3. DiskShape'
  BY <1>1, <1>2, SameDisks
<1> QED BY <1>1, <1>2, <1>3, TableStep

\* The data changes neither copy of the table.
LEMMA RestoreDataStep == IInv /\ RestoreData => IInv'
<1> SUFFICES ASSUME IInv, RestoreData PROVE IInv'
  OBVIOUS
<1> DEFINE r == Filled(disk[Target])
<1>1. /\ pc = "data" /\ pc' = "after" /\ disk' = [disk EXCEPT ![Target] = r]
      /\ UNCHANGED <<machine, g_data, local, wanted>>
  BY DEF RestoreData
<1>2. Shape /\ DataShape(g_data') /\ LocalFields \subseteq DOMAIN local'
  BY <1>1 DEF IInv, Shape
<1>3. DOMAIN r = DOMAIN disk[Target]
  BY DEF Filled, Emptied
<1>4. Target \in Disks => r.table = disk[Target].table /\ r.backup = disk[Target].backup
  BY <1>2 DEF Filled, Emptied, Shape, DiskShape, DiskFields
<1> HIDE DEF r
<1>5. DiskShape' /\ (Target \in Disks => disk'[Target] = r)
  BY <1>1, <1>2, <1>3, TouchedDisk
<1>6. Face /\ ~local'.fault /\ Image.gpt => disk'[Target].table = disk'[Target].backup
  <2>1. Face => Target \in Disks /\ TablesAgree
    BY <1>1 DEF IInv, FaceInv
  <2> QED BY <1>1, <1>4, <1>5, <2>1 DEF TablesAgree
<1> QED BY <1>1, <1>2, <1>5, <1>6, TableStep

\* Broken off, or done: the disk restored to keeps its record.
LEMMA LeaveStep ==
  ASSUME IInv, Done(g_data), disk' = disk \/ \E r : /\ DOMAIN r = DOMAIN disk[Target]
                                                     /\ disk' = [disk EXCEPT ![Target] = r]
  PROVE  IInv'
<1>1. machine' = machine /\ Shape /\ DataShape(g_data)
  BY DEF Done, IInv, Shape
<1>2. DiskShape'
  <2>1. CASE disk' = disk
    BY <1>1, <2>1, SameDisks
  <2>2. CASE \E r : DOMAIN r = DOMAIN disk[Target] /\ disk' = [disk EXCEPT ![Target] = r]
    BY <1>1, <2>2, TouchedDisk
  <2> QED BY <2>1, <2>2
<1> QED BY <1>1, <1>2, DoneStep

\* The restore breaks off.
LEMMA BreakOffStep == IInv /\ BreakOff => IInv'
<1> SUFFICES ASSUME IInv, BreakOff PROVE IInv'
  OBVIOUS
<1>1. DOMAIN Emptied(disk[Target]) = DOMAIN disk[Target]
  BY DEF Emptied
<1>2. disk' = [disk EXCEPT ![Target] = Emptied(disk[Target])] /\ Done(g_data)
  BY DEF BreakOff
<1> QED BY <1>1, <1>2, LeaveStep

\* The restore is done, with the size of C patched or not.
LEMMA FinishStep == IInv /\ Finish => IInv'
<1> SUFFICES ASSUME IInv, Finish PROVE IInv'
  OBVIOUS
<1>1. \A size : DOMAIN Patched(disk[Target], size) = DOMAIN disk[Target]
  BY DEF Patched
<1>2. /\ Done(g_data)
      /\ disk' = disk \/ \E size : disk' = [disk EXCEPT ![Target] = Patched(disk[Target], size)]
  BY DEF Finish
<1> QED BY <1>1, <1>2, LeaveStep

\* Every step of Recover.
LEMMA RecoverIInv == IInv /\ Recover => IInv'
<1> SUFFICES ASSUME IInv, Recover PROVE IInv'
  OBVIOUS
<1>1. DataShape(g_data)
  BY DEF IInv, Shape
<1>2. CASE GiveUp \/ RefuseUnmatched
  BY <1>1, <1>2, RefuseStep DEF GiveUp, RefuseUnmatched
<1>3. CASE MediaGone \/ OpenImage \/ CheckDestinationDisk \/ GetDestinationDisk \/ NoDestination
  BY <1>3, MediaGoneStep, OpenImageStep, CheckDestinationDiskStep, GetDestinationDiskStep,
     NoDestinationStep
<1>4. CASE AskAboutBitLocker \/ Compare \/ Confirm
  BY <1>4, AskAboutBitLockerStep, CompareStep, ConfirmStep
<1>5. CASE RestoreTable \/ FixNoData \/ FixNew \/ FixTable \/ FixOther \/ NothingToFix
  BY <1>5, RestoreTableStep, FixNoDataStep, FixNewStep, FixTableStep, FixOtherStep,
     NothingToFixStep
<1>6. CASE RestoreData \/ BreakOff \/ Finish
  BY <1>6, RestoreDataStep, BreakOffStep, FinishStep
<1> QED BY <1>2, <1>3, <1>4, <1>5, <1>6 DEF Recover

-----------------------------------------------------------------------------
(***************************************************************************)
(* Recover_Linux.                                                          *)
(***************************************************************************)

\* Recover_Linux looks for a disk of its own.
LEMMA GetDestinationDiskLinuxStep == IInv /\ GetDestinationDisk_Linux => IInv'
<1> SUFFICES ASSUME IInv, GetDestinationDisk_Linux PROVE IInv'
  OBVIOUS
<1>1. /\ pc = "dest" /\ local.linux /\ pc' = "linux"
      /\ g_data' = [g_data EXCEPT !.RecoverDiskNumber = DestinationLinux]
      /\ UNCHANGED <<machine, disk, local, wanted>>
  BY DEF GetDestinationDisk_Linux
<1>2. /\ DataShape(g_data') /\ g_data'.force = g_data.force
      /\ g_data'.comefromnewhddface = g_data.comefromnewhddface
      /\ g_data'.bFactoryRestore = g_data.bFactoryRestore
  BY <1>1 DEF IInv, Shape, DataShape, DataFields
<1>3. ~Face
  BY <1>1 DEF IInv, Way
<1>4. Shape'
  BY <1>1, <1>2, SameDisks DEF IInv, Shape, DataShape
<1>5. Way'
  BY <1>1, <1>2, <1>3 DEF Way, Face
<1>6. ForceInv'
  BY <1>1, <1>2 DEF IInv, ForceInv, Forcing
<1>7. FaceInv'
  BY <1>2, <1>3 DEF FaceInv, Face
<1> QED BY <1>4, <1>5, <1>6, <1>7 DEF IInv

\* The flag of a factory restore becomes the one that forces, and is left behind.
LEMMA RestoreTableLinuxStep == IInv /\ RestoreTable_Linux => IInv'
<1> SUFFICES ASSUME IInv, RestoreTable_Linux PROVE IInv'
  OBVIOUS
<1> DEFINE r == TableOfImage(disk[Target])
<1>1. /\ pc = "linux" /\ pc' = "data" /\ machine' = machine
      /\ g_data' = [g_data EXCEPT !.force = Forced]
      /\ disk' = disk \/ disk' = [disk EXCEPT ![Target] = r]
      /\ local' = [local EXCEPT !.changed = ChangedLinux, !.written = ChangedLinux,
                                !.asked = local.asked \/ ChangedLinux]
      /\ wanted' = IF Forced /\ ~Forcing THEN "left" ELSE wanted
  BY DEF RestoreTable_Linux, LeftByLinux
<1>2. Shape /\ local.linux /\ ~Face
  BY <1>1 DEF IInv, Way
<1>3. /\ DataShape(g_data') /\ g_data'.force = Forced
      /\ g_data'.comefromnewhddface = g_data.comefromnewhddface
      /\ g_data'.bFactoryRestore = g_data.bFactoryRestore
  BY <1>1, <1>2 DEF Shape, DataShape, DataFields
<1>4. /\ LocalFields \subseteq DOMAIN local' /\ local'.linux = local.linux
      /\ local'.asked = (local.asked \/ ChangedLinux)
  BY <1>1, <1>2 DEF Shape, LocalFields
<1>5. DiskShape'
  <2>1. DOMAIN r = DOMAIN disk[Target]
    BY DEF TableOfImage
  <2> HIDE DEF r
  <2>2. CASE disk' = disk
    BY <1>1, <1>2, <2>2, SameDisks
  <2>3. CASE disk' = [disk EXCEPT ![Target] = r]
    BY <1>1, <1>2, <2>1, <2>3, TouchedDisk
  <2> QED BY <1>1, <2>2, <2>3
<1>6. Shape'
  BY <1>3, <1>4, <1>5 DEF Shape, DataShape
<1>7. Way'
  BY <1>1, <1>2, <1>3, <1>4 DEF Way, Face
<1>8. ForceInv'
  <2>1. Forced => wanted' # "no"
    BY <1>1, <1>2 DEF IInv, ForceInv
  <2>2. g_data.bFactoryRestore => local.asked
    BY DEF IInv, ForceInv
  <2> QED BY <1>3, <1>4, <2>1, <2>2 DEF ForceInv, Forcing
<1>9. FaceInv'
  BY <1>2, <1>3 DEF FaceInv, Face
<1> QED BY <1>6, <1>7, <1>8, <1>9 DEF IInv

\* Every step of Recover_Linux.
LEMMA RecoverLinuxIInv == IInv /\ Recover_Linux => IInv'
<1> SUFFICES ASSUME IInv, Recover_Linux PROVE IInv'
  OBVIOUS
<1>1. CASE GetDestinationDisk_Linux
  BY <1>1, GetDestinationDiskLinuxStep
<1>2. CASE NoDestination_Linux
  <2> DEFINE data == [g_data EXCEPT !.RecoverDiskNumber = 0]
  <2>1. DataShape(data)
    BY DEF IInv, Shape, DataShape
  <2>2. Refuse(data)
    BY <1>2 DEF NoDestination_Linux
  <2> HIDE DEF data
  <2> QED BY <2>1, <2>2, RefuseStep
<1>3. CASE RestoreTable_Linux
  BY <1>3, RestoreTableLinuxStep
<1>4. CASE Refuse_Linux
  <2> DEFINE data == [g_data EXCEPT !.force = Forced]
  <2>1. DataShape(data)
    BY DEF IInv, Shape, DataShape
  <2>2. Refuse(data)
    BY <1>4 DEF Refuse_Linux
  <2> HIDE DEF data
  <2> QED BY <2>1, <2>2, RefuseStep
<1> QED BY <1>1, <1>2, <1>3, <1>4 DEF Recover_Linux

-----------------------------------------------------------------------------
(***************************************************************************)
(* The theorems.                                                           *)
(***************************************************************************)

\* The invariant holds when the program starts: only the command line has forced anything.
LEMMA InitIInv == Init => IInv
<1> SUFFICES ASSUME Init PROVE IInv
  OBVIOUS
<1>1. /\ machine \in Machines /\ disk = machine.disk /\ local = Idle /\ pc = "menu"
      /\ wanted = IF machine.start = "force" THEN "user" ELSE "no"
  BY DEF Init
<1>2. /\ DataShape(g_data) /\ g_data.force = (machine.start = "force")
      /\ g_data.bFactoryRestore = FALSE
  BY DEF Init, DataShape, DataFields
<1>3. LocalFields \subseteq DOMAIN local /\ local.linux = FALSE
  BY <1>1 DEF Idle, LocalFields
<1>4. DiskShape
  BY <1>1, MachinesAssumption DEF DiskShape, Disks, NDisks
<1>5. Shape
  BY <1>2, <1>3, <1>4 DEF Shape
<1>6. Way
  BY <1>1, <1>3 DEF Way
<1>7. ForceInv
  BY <1>1, <1>2 DEF ForceInv, Forcing
<1>8. FaceInv
  BY <1>1 DEF FaceInv, TablesAgree
<1> QED BY <1>5, <1>6, <1>7, <1>8 DEF IInv

\* A step that changes nothing.
LEMMA StutterIInv == IInv /\ UNCHANGED vars => IInv'
BY DEF vars, IInv, Shape, DiskShape, DataShape, Disks, NDisks, Way, ForceInv, FaceInv,
       TablesAgree, Image, Forcing, Face, Target

\* Every step keeps the invariant.
LEMMA NextIInv == IInv /\ [Next]_vars => IInv'
BY SessionStep, DetectNewHddFaceStep, RecoverIInv, RecoverLinuxIInv, StutterIInv DEF Next, Reboot

\* What a session keeps from restore to restore: a flag that forces was set by the
\* user or by a question of the restore under way, and a disk chosen in
\* DetectNewHddFace is a disk of the machine that gets the kind of table the image has.
THEOREM RestorePlanInductive == Spec => []IInv
BY InitIInv, NextIInv, PTL DEF Spec

\* Recover replaces the table of a disk by force only when that was asked for, however
\* many restores, refused, broken off or done, came before it.
THEOREM ForceIsAskedFor == Spec => []ForcedMeansAsked
<1>1. IInv => ForcedMeansAsked
  BY DEF IInv, ForceInv, ForcedMeansAsked
<1> QED BY <1>1, RestorePlanInductive, PTL

\* The GPT of a new disk and its backup agree when the data is written, unless one of
\* the writes that nobody looks at has failed.
THEOREM NewDiskTablesAgree == Spec => []TablesAgree
<1>1. IInv => TablesAgree
  BY DEF IInv, FaceInv, TablesAgree
<1> QED BY <1>1, RestorePlanInductive, PTL

-----------------------------------------------------------------------------
(***************************************************************************)
(* Tables: the first entry of a kind, and sequences of entries.            *)
(***************************************************************************)

\* Least finds the least of the indices of a sequence, and 0 if there is none.
LEMMA LeastIndex ==
  ASSUME NEW n \in Nat, NEW S \in SUBSET (1..n)
  PROVE  /\ S = {} <=> Least(S) = 0
         /\ S # {} => Least(S) \in S /\ \A j \in S : Least(S) <= j
<1>1. CASE S = {}
  BY <1>1 DEF Least
<1>2. CASE S # {}
  <2>1. IsFiniteSet(1..n)
    <3>1. 1 \in Int /\ n \in Int
      OBVIOUS
    <3> QED BY <3>1, FS_Interval
  <2>2. S \in SUBSET Nat /\ IsFiniteSet(S)
    <3>1. S \in SUBSET Nat
      OBVIOUS
    <3>2. IsFiniteSet(S)
      BY <2>1, FS_Subset
    <3> QED BY <3>1, <3>2
  <2>3. Least(S) = CHOOSE i \in S : \A j \in S : i <= j
    BY <1>2 DEF Least
  <2>4. Least(S) \in S /\ \A j \in S : Least(S) <= j
    BY <1>2, <2>2, <2>3, LeastNumber
  <2>5. Least(S) # 0
    BY <2>4
  <2> QED BY <1>2, <2>4, <2>5
<1> QED BY <1>1, <1>2

\* The entry that begins somewhere.
LEMMA EntryIsThere ==
  ASSUME NEW tab, NEW S, tab \in Seq(S), NEW b
  PROVE  /\ EntryAt(tab, b) # 0 => /\ EntryAt(tab, b) \in DOMAIN tab
                                   /\ tab[EntryAt(tab, b)].begin = b
         /\ \A k \in DOMAIN tab : tab[k].begin = b =>
              EntryAt(tab, b) # 0 /\ EntryAt(tab, b) <= k
<1> DEFINE I == {i \in DOMAIN tab : tab[i].begin = b}
<1>1. EntryAt(tab, b) = Least(I)
  BY DEF EntryAt, First
<1>2. Len(tab) \in Nat /\ I \in SUBSET (1..Len(tab)) /\ DOMAIN tab = 1..Len(tab)
  OBVIOUS
<1> HIDE DEF I
<1>3. /\ I = {} <=> Least(I) = 0
      /\ I # {} => Least(I) \in I /\ \A j \in I : Least(I) <= j
  BY <1>2, LeastIndex
<1> QED BY <1>1, <1>3 DEF I

\* What a repair may do to a table: its entries are those there were, or random ones ...
Kept(t, old) == TableShape(t) /\ Keys(t) \subseteq Keys(old) \cup {NewKey}

\* ... and on a GPT disk also what lies behind the buffer.
BeyondKeys == {e.key : e \in Beyond}
KeptOn(x, t) ==
  /\ TableShape(t)
  /\ Keys(t) \subseteq Keys(x.table) \cup {NewKey} \cup IF x.gpt THEN BeyondKeys ELSE {}

LEMMA KeptIsKeptOn ==
  ASSUME NEW x, NEW t, Kept(t, x.table)
  PROVE  KeptOn(x, t)
BY DEF Kept, KeptOn

\* The front of a table is one.
LEMMA FrontShape ==
  ASSUME NEW t, TableShape(t), NEW i \in 0..Len(t)
  PROVE  /\ TableShape(SubSeq(t, 1, i)) /\ Len(SubSeq(t, 1, i)) = i
         /\ \A k \in 1..i : SubSeq(t, 1, i)[k] = t[k]
         /\ Keys(SubSeq(t, 1, i)) \subseteq Keys(t)
<1> DEFINE s == SubSeq(t, 1, i)
<1>1. t \in Seq(Range(t)) /\ Len(t) \in Nat /\ DOMAIN t = 1..Len(t)
  BY DEF TableShape
<1>2. s = [k \in 1..i |-> t[k]]
  BY <1>1
<1>3. s \in Seq(Range(t)) /\ Len(s) = i /\ DOMAIN s = 1..i /\ \A k \in 1..i : s[k] = t[k] /\ k \in DOMAIN t
  BY <1>1, <1>2 DEF Range
<1> HIDE DEF s
<1>4. s \in Seq(Range(s))
  BY <1>3 DEF Range
<1>5. TableShape(s) /\ Keys(s) \subseteq Keys(t)
  BY <1>3, <1>4 DEF TableShape, Keys
<1> QED BY <1>3, <1>5 DEF s

\* One entry is a table.
LEMMA OneShape ==
  ASSUME NEW e, DOMAIN e = {"type", "key", "begin", "end"}
  PROVE  TableShape(<<e>>) /\ Keys(<<e>>) = {e.key} /\ Len(<<e>>) = 1 /\ <<e>>[1] = e
BY DEF TableShape, Keys, Range

\* Two tables one after the other are one.
LEMMA JoinedShape ==
  ASSUME NEW s, NEW t, TableShape(s), TableShape(t)
  PROVE  /\ TableShape(s \o t) /\ Keys(s \o t) = Keys(s) \cup Keys(t)
         /\ Len(s \o t) = Len(s) + Len(t)
         /\ \A k \in 1..Len(s) : (s \o t)[k] = s[k]
         /\ \A k \in 1..Len(t) : (s \o t)[Len(s) + k] = t[k]
<1> DEFINE R == Range(s) \cup Range(t)
           u == s \o t
<1>1. s \in Seq(R) /\ t \in Seq(R)
  BY DEF TableShape, Range
<1> HIDE DEF R
<1>2. /\ Len(s) \in Nat /\ Len(t) \in Nat /\ DOMAIN s = 1..Len(s) /\ DOMAIN t = 1..Len(t)
      /\ u \in Seq(R) /\ Len(u) = Len(s) + Len(t) /\ DOMAIN u = 1..(Len(s) + Len(t))
      /\ \A k \in 1..Len(s) : u[k] = s[k]
      /\ \A k \in 1..Len(t) : u[Len(s) + k] = t[k]
  BY <1>1
<1> HIDE DEF u
<1>3. \A k \in DOMAIN u : \/ k \in DOMAIN s /\ u[k] = s[k]
                          \/ k - Len(s) \in DOMAIN t /\ u[k] = t[k - Len(s)]
  <2> SUFFICES ASSUME NEW k \in DOMAIN u, k \notin DOMAIN s
               PROVE  k - Len(s) \in DOMAIN t /\ u[k] = t[k - Len(s)]
    BY <1>2
  <2>1. k - Len(s) \in 1..Len(t) /\ k = Len(s) + (k - Len(s))
    BY <1>2
  <2> QED BY <1>2, <2>1
<1>4. u \in Seq(Range(u))
  BY <1>2 DEF Range
<1>5. TableShape(u)
  BY <1>3, <1>4 DEF TableShape
<1>6. \A k \in DOMAIN t : Len(s) + k \in DOMAIN u
  BY <1>2
<1>7. DOMAIN s \subseteq DOMAIN u
  BY <1>2
<1>8. \A k \in DOMAIN s : k \in DOMAIN u /\ u[k] = s[k]
  BY <1>2, <1>7
<1>9. \A k \in DOMAIN t : Len(s) + k \in DOMAIN u /\ u[Len(s) + k] = t[k]
  BY <1>2, <1>6
<1>10. Keys(u) = Keys(s) \cup Keys(t)
  <2>1. \A x \in Keys(u) : x \in Keys(s) \/ x \in Keys(t)
    BY <1>3 DEF Keys
  <2>2. \A x \in Keys(s) : x \in Keys(u)
    BY <1>8 DEF Keys
  <2>3. \A x \in Keys(t) : x \in Keys(u)
    BY <1>9 DEF Keys
  <2> QED BY <2>1, <2>2, <2>3
<1> QED BY <1>2, <1>5, <1>10 DEF u

\* A new end for one entry ...
WithEnd(t, i, x) == [t EXCEPT ![i].end = x]

\* ... leaves the rest.
LEMMA EndShape ==
  ASSUME NEW t, TableShape(t), NEW i, NEW x, NEW u, u = WithEnd(t, i, x)
  PROVE  /\ TableShape(u) /\ Keys(u) = Keys(t) /\ Len(u) = Len(t)
         /\ \A k \in DOMAIN t : k # i => u[k] = t[k]
<1>1. t \in Seq(Range(t)) /\ Len(t) \in Nat /\ DOMAIN t = 1..Len(t)
  BY DEF TableShape
<1>2. /\ DOMAIN u = DOMAIN t /\ \A k \in DOMAIN t : k # i => u[k] = t[k]
      /\ i \in DOMAIN t => u[i] = [t[i] EXCEPT !.end = x]
      /\ u = [k \in DOMAIN u |-> u[k]]
  BY DEF WithEnd
<1>3. \A k \in DOMAIN t : DOMAIN u[k] = DOMAIN t[k]
  BY <1>2
<1>4. \A k \in DOMAIN t : DOMAIN t[k] = {"type", "key", "begin", "end"}
  BY DEF TableShape
<1>5. \A k \in DOMAIN t : u[k].key = t[k].key
  BY <1>2, <1>4
<1>6. u = [k \in 1..Len(t) |-> u[k]]
  BY <1>1, <1>2
<1>7. u \in Seq(Range(u)) /\ Len(u) = Len(t)
  <2> DEFINE R == Range(u)
  <2>1. \A k \in 1..Len(t) : u[k] \in R
    BY <1>1, <1>2 DEF Range
  <2> HIDE DEF R
  <2>2. [k \in 1..Len(t) |-> u[k]] \in Seq(R) /\ Len([k \in 1..Len(t) |-> u[k]]) = Len(t)
    BY <1>1, <2>1
  <2> QED BY <1>6, <2>2 DEF R
<1>8. TableShape(u) /\ Keys(u) = Keys(t)
  BY <1>2, <1>3, <1>4, <1>5, <1>7 DEF TableShape, Keys
<1> QED BY <1>2, <1>7, <1>8

-----------------------------------------------------------------------------
(***************************************************************************)
(* The repairs keep the shape of a table and bring no key but the random   *)
(* one.                                                                    *)
(***************************************************************************)

\* A front and one entry more.
LEMMA FrontAndOne ==
  ASSUME NEW t, TableShape(t), NEW i \in 0..Len(t), NEW e,
         DOMAIN e = {"type", "key", "begin", "end"}
  PROVE  LET u == SubSeq(t, 1, i) \o <<e>>
         IN /\ TableShape(u) /\ Keys(u) \subseteq Keys(t) \cup {e.key} /\ Len(u) = i + 1
            /\ \A k \in 1..i : u[k] = t[k]
<1> DEFINE s == SubSeq(t, 1, i)
           o == <<e>>
           u == s \o o
<1>1. /\ TableShape(s) /\ Len(s) = i /\ Keys(s) \subseteq Keys(t)
      /\ \A k \in 1..i : s[k] = t[k]
  BY FrontShape
<1>2. TableShape(o) /\ Keys(o) = {e.key} /\ Len(o) = 1 /\ o[1] = e
  BY OneShape
<1>3. TableShape(s) /\ TableShape(o)
  BY <1>1, <1>2
<1> HIDE DEF s, o
<1>4. /\ TableShape(s \o o) /\ Keys(s \o o) = Keys(s) \cup Keys(o)
      /\ Len(s \o o) = Len(s) + Len(o)
      /\ \A k \in 1..Len(s) : (s \o o)[k] = s[k]
  BY <1>3, JoinedShape
<1> HIDE DEF u
<1>5. /\ TableShape(u) /\ Keys(u) \subseteq Keys(t) \cup {e.key} /\ Len(u) = i + 1
      /\ \A k \in 1..i : u[k] = t[k]
  BY <1>1, <1>2, <1>4 DEF u
<1> QED BY <1>5 DEF u, s, o

\* The entry behind a front is the last one.
LEMMA LastOne ==
  ASSUME NEW t, TableShape(t), NEW i \in 0..Len(t), NEW e,
         DOMAIN e = {"type", "key", "begin", "end"}
  PROVE  LET u == SubSeq(t, 1, i) \o <<e>> IN i + 1 \in DOMAIN u /\ u[i + 1] = e
<1> DEFINE s == SubSeq(t, 1, i)
           R == Range(s) \cup {e}
<1>1. TableShape(s) /\ Len(s) = i
  BY FrontShape
<1> HIDE DEF s
<1>2. s \in Seq(R) /\ e \in R
  BY <1>1 DEF TableShape
<1> HIDE DEF R
<1>3. i + 1 \in DOMAIN (s \o <<e>>) /\ (s \o <<e>>)[i + 1] = e
  BY <1>1, <1>2
<1> QED BY <1>3 DEF s

\* The key of an entry is one of the table.
LEMMA KeyOfEntry ==
  ASSUME NEW t, NEW k \in DOMAIN t PROVE t[k].key \in Keys(t)
BY DEF Keys

\* An index that First has found in a table.
LEMMA EntryInTable ==
  ASSUME NEW t, TableShape(t), NEW b, EntryAt(t, b) # 0
  PROVE  EntryAt(t, b) \in 1..Len(t) /\ DOMAIN t = 1..Len(t) /\ Len(t) \in Nat
<1>1. t \in Seq(Range(t))
  BY DEF TableShape
<1>2. DOMAIN t = 1..Len(t) /\ Len(t) \in Nat
  BY <1>1
<1> QED BY <1>1, <1>2, EntryIsThere

\* FixNoDataPartTable.
LEMMA NoDataKeeps ==
  ASSUME NEW tab, TableShape(tab), NEW h, NEW b, NEW n, NEW w, NEW total
  PROVE  LET fix == FixNoDataPartTable(tab, h, b, n, w, total)
         IN /\ Kept(fix.table, tab)
            /\ EntryAt(tab, b) # 0 => \E begin :
                 /\ fix.header = UpdateOKRHeaderInfo(h, begin)
                 /\ \E k \in DOMAIN fix.table : /\ fix.table[k].type = "recovery"
                                                /\ fix.table[k].begin = begin
<1> DEFINE i == EntryAt(tab, b)
           enough == total > b + n + w
           cut == (total - (b + w) - Rear) % Wrap
           begin == IF enough THEN Up(b + n, Fine) ELSE Down(b + cut, Fine)
           kept == IF enough THEN tab ELSE [tab EXCEPT ![i].end = Down(b + cut, Coarse)]
           key == IF i < Len(tab) THEN tab[i + 1].key ELSE NewKey
           e == [type |-> "recovery", key |-> key, begin |-> begin, end |-> Down(begin + w, Coarse)]
           fix == FixNoDataPartTable(tab, h, b, n, w, total)
<1>1. CASE i = 0
  <2>1. fix.table = tab
    BY <1>1 DEF FixNoDataPartTable, Unrepaired
  <2> QED BY <1>1, <2>1 DEF Kept
<1>2. CASE i # 0
  <2>1. fix.table = SubSeq(kept, 1, i) \o <<e>> /\ fix.header = UpdateOKRHeaderInfo(h, begin)
    BY <1>2 DEF FixNoDataPartTable
  <2>2. i \in 1..Len(tab) /\ DOMAIN tab = 1..Len(tab) /\ Len(tab) \in Nat
    BY <1>2, EntryInTable
  <2>3. TableShape(kept) /\ Keys(kept) = Keys(tab) /\ Len(kept) = Len(tab)
    <3> DEFINE x == Down(b + cut, Coarse)
    <3>1. kept = tab \/ kept = WithEnd(tab, i, x)
      BY DEF WithEnd
    <3> HIDE DEF x, i, kept
    <3> QED BY <3>1, EndShape
  <2>4. key \in Keys(tab) \cup {NewKey}
    <3>1. CASE i < Len(tab)
      <4>1. i + 1 \in DOMAIN tab
        BY <2>2, <3>1
      <4> QED BY <3>1, <4>1, KeyOfEntry
    <3> QED BY <3>1
  <2>5. /\ DOMAIN e = {"type", "key", "begin", "end"} /\ e.key = key
        /\ e.type = "recovery" /\ e.begin = begin
    OBVIOUS
  <2> HIDE DEF i, kept, key, e, begin, fix
  <2>6. i \in 0..Len(kept)
    BY <2>2, <2>3
  <2>7. TableShape(fix.table) /\ Keys(fix.table) \subseteq Keys(kept) \cup {key}
    BY <2>1, <2>3, <2>5, <2>6, FrontAndOne
  <2>8. i + 1 \in DOMAIN fix.table /\ fix.table[i + 1] = e
    BY <2>1, <2>3, <2>5, <2>6, LastOne
  <2>9. Kept(fix.table, tab)
    BY <2>3, <2>4, <2>7 DEF Kept
  <2> QED BY <2>1, <2>5, <2>8, <2>9 DEF fix
<1> QED BY <1>1, <1>2

\* FixMbr.
LEMMA MbrKeeps ==
  ASSUME NEW tab, TableShape(tab), NEW h, NEW b, NEW n, NEW total
  PROVE  Kept(FixMbr(tab, h, b, n, total).table, tab)
<1> DEFINE i == EntryAt(tab, b)
           enough == total > b + n + Spare /\ i < 4
           begin == Up(b + n, Coarse)
           size == Down(total - b - n - (Coarse - 1), Fine)
           e == [type |-> "basic", key |-> NewKey, begin |-> begin, end |-> begin + size - 1]
           x == b + Down(total - b, Fine) - 1
           fix == FixMbr(tab, h, b, n, total)
<1>1. CASE i = 0
  <2>1. fix.table = tab
    BY <1>1 DEF FixMbr, Unrepaired
  <2> QED BY <2>1 DEF Kept
<1>2. CASE i # 0
  <2>1. fix.table = IF enough THEN SubSeq(tab, 1, i) \o <<e>>
                    ELSE [SubSeq(tab, 1, i) EXCEPT ![i].end = x]
    BY <1>2 DEF FixMbr
  <2>2. i \in 0..Len(tab)
    BY <1>2, EntryInTable
  <2>3. DOMAIN e = {"type", "key", "begin", "end"} /\ e.key = NewKey
    OBVIOUS
  <2> HIDE DEF i, e, x, enough, fix
  <2>4. CASE enough
    <3>1. /\ TableShape(SubSeq(tab, 1, i) \o <<e>>)
          /\ Keys(SubSeq(tab, 1, i) \o <<e>>) \subseteq Keys(tab) \cup {NewKey}
      BY <2>2, <2>3, FrontAndOne
    <3> QED BY <2>1, <2>4, <3>1 DEF Kept, fix
  <2>5. CASE ~enough
    <3>1. TableShape(SubSeq(tab, 1, i)) /\ Keys(SubSeq(tab, 1, i)) \subseteq Keys(tab)
      BY <2>2, FrontShape
    <3> DEFINE s == SubSeq(tab, 1, i)
               u == fix.table
    <3>2. u = WithEnd(s, i, x)
      BY <2>1, <2>5 DEF WithEnd
    <3> HIDE DEF s, u
    <3>3. TableShape(s)
      BY <3>1 DEF s
    <3>4. TableShape(u) /\ Keys(u) = Keys(s)
      BY <3>2, <3>3, EndShape
    <3> QED BY <3>1, <3>4 DEF Kept, fix, s, u
  <2> QED BY <2>4, <2>5
<1> QED BY <1>1, <1>2

\* FixNewHDD, which leaves what is in front of C alone.
LEMMA HddKeeps ==
  ASSUME NEW tab, TableShape(tab), NEW h, NEW b, NEW n, NEW state, NEW w, NEW total,
         NEW junk \in Junk
  PROVE  LET new == FixNewHDD(tab, h, b, n, state, w, total, junk).table
         IN /\ TableShape(new) /\ Keys(new) \subseteq Keys(tab) \cup {NewKey} \cup BeyondKeys
            /\ \A k \in 1..(EntryAt(tab, b) - 1) : k \in DOMAIN new /\ new[k] = tab[k]
<1> DEFINE i == EntryAt(tab, b)
           m == First(tab, LAMBDA e : e.type = "recovery")
           enough == total > b + n + w + Spare
           end == IF state # 0 THEN Down(total - w - Rear - 1, Coarse)
                  ELSE Down(total - Rear, IF enough THEN Fine ELSE Coarse)
           e == [tab[i] EXCEPT !.key = NewKey, !.end = end, !.begin = Up(b + n, Fine)]
           head == IF enough THEN SubSeq(tab, 1, i) \o <<e>>
                   ELSE [SubSeq(tab, 1, i) EXCEPT ![i].end = end]
           last == IF m = 0 THEN junk ELSE IF m > Len(head) THEN <<tab[m]>> ELSE <<>>
           tail == IF state # 0 THEN last ELSE <<>>
           fix == FixNewHDD(tab, h, b, n, state, w, total, junk)
<1>1. CASE i = 0
  <2>1. fix.table = tab
    BY <1>1 DEF FixNewHDD, Unrepaired
  <2>2. 1..(i - 1) = {}
    BY <1>1
  <2> HIDE DEF i, fix
  <2> QED BY <2>1, <2>2 DEF i, fix
<1>2. CASE i # 0
  <2>1. fix.table = head \o tail
    BY <1>2 DEF FixNewHDD
  <2>2. i \in 1..Len(tab) /\ DOMAIN tab = 1..Len(tab) /\ Len(tab) \in Nat
    BY <1>2, EntryInTable
  <2>3. DOMAIN e = {"type", "key", "begin", "end"} /\ e.key = NewKey
    <3>1. DOMAIN tab[i] = {"type", "key", "begin", "end"}
      BY <2>2 DEF TableShape
    <3> HIDE DEF i, end
    <3> QED BY <3>1
  <2>4. m \in 0..Len(tab)
    <3> DEFINE I == {k \in DOMAIN tab : tab[k].type = "recovery"}
    <3>1. I \in SUBSET (1..Len(tab)) /\ m = Least(I)
      BY <2>2 DEF First
    <3> HIDE DEF I, m, i
    <3>2. I # {} => m \in 1..Len(tab)
      BY <2>2, <3>1, LeastIndex
    <3>3. I = {} => m = 0
      BY <3>1 DEF Least
    <3> QED BY <2>2, <3>2, <3>3
  <2> HIDE DEF i, m, e, end, enough, fix
  <2>5. /\ TableShape(head) /\ Keys(head) \subseteq Keys(tab) \cup {NewKey}
        /\ Len(head) \in Nat /\ Len(head) >= i /\ \A k \in 1..(i - 1) : head[k] = tab[k]
    <3>1. i \in 0..Len(tab)
      BY <2>2
    <3>2. CASE enough
      <4>1. /\ TableShape(SubSeq(tab, 1, i) \o <<e>>)
            /\ Keys(SubSeq(tab, 1, i) \o <<e>>) \subseteq Keys(tab) \cup {NewKey}
            /\ Len(SubSeq(tab, 1, i) \o <<e>>) = i + 1
            /\ \A k \in 1..i : (SubSeq(tab, 1, i) \o <<e>>)[k] = tab[k]
        BY <2>3, <3>1, FrontAndOne
      <4>2. head = SubSeq(tab, 1, i) \o <<e>>
        BY <3>2
      <4> HIDE DEF head
      <4> QED BY <2>2, <4>1, <4>2
    <3>3. CASE ~enough
      <4> DEFINE s == SubSeq(tab, 1, i)
                 u == [s EXCEPT ![i].end = end]
      <4>1. /\ TableShape(s) /\ Len(s) = i /\ Keys(s) \subseteq Keys(tab)
            /\ \A k \in 1..i : s[k] = tab[k]
        BY <3>1, FrontShape
      <4>2. head = u
        BY <3>3
      <4> HIDE DEF s, head, u
      <4>5. u = WithEnd(s, i, end)
        BY DEF u, WithEnd
      <4>3. /\ TableShape(u) /\ Keys(u) = Keys(s) /\ Len(u) = Len(s)
            /\ \A k \in DOMAIN s : k # i => u[k] = s[k]
        BY <4>1, <4>5, EndShape
      <4>4. DOMAIN s = 1..i
        BY <2>2, <4>1 DEF TableShape
      <4> QED BY <2>2, <4>1, <4>2, <4>3, <4>4
    <3> QED BY <3>2, <3>3
  <2> HIDE DEF head
  <2>6. /\ TableShape(tail) /\ Len(tail) \in Nat
        /\ Keys(tail) \subseteq Keys(tab) \cup BeyondKeys
    <3>1. CASE state # 0 /\ m # 0 /\ m > Len(head)
      <4>1. m \in DOMAIN tab
        BY <2>2, <2>4, <2>5, <3>1
      <4>2. DOMAIN tab[m] = {"type", "key", "begin", "end"} /\ tab[m].key \in Keys(tab)
        BY <4>1, KeyOfEntry DEF TableShape
      <4>3. tail = <<tab[m]>>
        BY <3>1
      <4> QED BY <4>2, <4>3, OneShape
    <3>2. CASE state # 0 /\ m = 0 /\ junk # <<>>
      <4>1. PICK x \in Beyond : junk = <<x>>
        BY <3>2 DEF Junk
      <4>2. DOMAIN x = {"type", "key", "begin", "end"} /\ x.key \in BeyondKeys
        BY FixAssumption DEF Entry, BeyondKeys
      <4>3. tail = <<x>>
        BY <3>2, <4>1
      <4> QED BY <4>2, <4>3, OneShape
    <3>3. CASE tail = <<>>
      <4>1. TableShape(<<>>) /\ Keys(<<>>) = {} /\ Len(<<>>) = 0
        BY DEF TableShape, Keys, Range
      <4> QED BY <3>3, <4>1
    <3>4. \/ state # 0 /\ m # 0 /\ m > Len(head)
          \/ state # 0 /\ m = 0 /\ junk # <<>>
          \/ tail = <<>>
      OBVIOUS
    <3> QED BY <3>1, <3>2, <3>3, <3>4
  <2> HIDE DEF tail
  <2>7. /\ TableShape(head \o tail) /\ Keys(head \o tail) = Keys(head) \cup Keys(tail)
        /\ Len(head \o tail) = Len(head) + Len(tail)
        /\ \A k \in 1..Len(head) : (head \o tail)[k] = head[k]
    BY <2>5, <2>6, JoinedShape
  <2>8. DOMAIN (head \o tail) = 1..(Len(head) + Len(tail))
    BY <2>5, <2>6, <2>7 DEF TableShape
  <2>9. /\ TableShape(fix.table)
        /\ Keys(fix.table) \subseteq Keys(tab) \cup {NewKey} \cup BeyondKeys
    BY <2>1, <2>5, <2>6, <2>7
  <2>10. ASSUME NEW k \in 1..(i - 1)
         PROVE  k \in DOMAIN fix.table /\ fix.table[k] = tab[k]
    <3>1. k \in 1..Len(head) /\ k \in 1..(Len(head) + Len(tail))
      BY <2>2, <2>5, <2>6
    <3> QED BY <2>1, <2>5, <2>7, <2>8, <3>1
  <2> QED BY <2>9, <2>10 DEF fix, i
<1> QED BY <1>1, <1>2

\* The partition FixNewHDDPartitionTable moves, and the entry it takes for it.
Moved(h) ==
  LET c == First(h, LAMBDA q : q.type = "basic" /\ q.win)
  IN Least({k \in DOMAIN h : /\ h[k].saved /\ h[k].type = "recovery"
                             /\ k > IF c = 0 THEN 1 ELSE c})
Found(tab, h) ==
  First(tab, LAMBDA e : e.begin \in {h[Moved(h)].begin, h[Moved(h)].begin + Shift})

\* A header in which a partition has another begin.
WithBegin(h, i, b) == [h EXCEPT ![i].begin = b]

\* One entry more at the end.
LEMMA AppendShape ==
  ASSUME NEW t, TableShape(t), NEW e, DOMAIN e = {"type", "key", "begin", "end"}
  PROVE  /\ TableShape(Append(t, e)) /\ Keys(Append(t, e)) \subseteq Keys(t) \cup {e.key}
         /\ Len(Append(t, e)) = Len(t) + 1 /\ Append(t, e)[Len(t) + 1] = e
         /\ \A k \in 1..Len(t) : Append(t, e)[k] = t[k]
<1> DEFINE n == Len(t)
           u == SubSeq(t, 1, n) \o <<e>>
<1>1. t \in Seq(Range(t)) /\ n = Len(t) /\ n \in 0..Len(t)
  <2>1. t \in Seq(Range(t))
    BY DEF TableShape
  <2> QED BY <2>1
<1>2. u = Append(t, e) /\ Append(t, e)[Len(t) + 1] = e
  <2> DEFINE R == Range(t) \cup {e}
  <2>1. t \in Seq(R) /\ e \in R
    BY <1>1
  <2> HIDE DEF R
  <2>2. SubSeq(t, 1, Len(t)) = t
    BY <2>1
  <2>3. Append(t, e) = t \o <<e>> /\ Append(t, e)[Len(t) + 1] = e
    BY <2>1
  <2> QED BY <2>2, <2>3
<1> HIDE DEF n
<1>3. /\ TableShape(u) /\ Keys(u) \subseteq Keys(t) \cup {e.key} /\ Len(u) = n + 1
      /\ \A k \in 1..n : u[k] = t[k]
  BY <1>1, FrontAndOne
<1> HIDE DEF u
<1> QED BY <1>1, <1>2, <1>3

\* FixNewHDDPartitionTable: the entry found, or a new one, becomes the last one and goes
\* where the header says; what is in front of it stays.
LEMMA TableKeeps ==
  ASSUME NEW tab, TableShape(tab), NEW h, NEW w, NEW total,
         NEW i, i = Moved(h), NEW found, found = Found(tab, h),
         NEW fix, fix = FixNewHDDPartitionTable(tab, h, w, total)
  PROVE  /\ Kept(fix.table, tab)
         /\ found \in 0..Len(tab)
         /\ found # 0 => tab[found].begin \in {h[i].begin, h[i].begin + Shift}
         /\ i = 0 => fix.table = tab /\ fix.header = h
         /\ i # 0 => \E begin :
              /\ fix.header = WithBegin(h, i, begin)
              /\ \E k \in DOMAIN fix.table : /\ fix.table[k].type = "recovery"
                                             /\ fix.table[k].begin = begin
         /\ \A k \in 1..Len(tab) : found = 0 \/ k < found =>
              k \in DOMAIN fix.table /\ fix.table[k] = tab[k]
<1> DEFINE begin == Down(total - w - Rear, Fine)
           old == IF found = 0 THEN tab ELSE SubSeq(tab, 1, found - 1)
           key == IF found = 0 THEN NewKey ELSE tab[found].key
           e == [type |-> "recovery", key |-> key, begin |-> begin, end |-> Down(total - Rear, Coarse)]
<1>1. DOMAIN tab = 1..Len(tab) /\ Len(tab) \in Nat
  <2>1. tab \in Seq(Range(tab))
    BY DEF TableShape
  <2> QED BY <2>1
<1>2. /\ found \in 0..Len(tab)
      /\ found # 0 => tab[found].begin \in {h[i].begin, h[i].begin + Shift}
  <2> DEFINE I == {k \in DOMAIN tab : tab[k].begin \in {h[i].begin, h[i].begin + Shift}}
  <2>1. I \in SUBSET (1..Len(tab)) /\ found = Least(I)
    BY <1>1 DEF First, Found
  <2>2. \A k \in I : k \in 1..Len(tab) /\ tab[k].begin \in {h[i].begin, h[i].begin + Shift}
    BY <1>1
  <2> HIDE DEF I
  <2>3. I # {} => found \in I
    BY <1>1, <2>1, LeastIndex
  <2>4. I = {} => found = 0
    BY <2>1 DEF Least
  <2>5. found = 0 \/ found \in 1..Len(tab)
    BY <2>2, <2>3, <2>4
  <2>6. found # 0 => tab[found].begin \in {h[i].begin, h[i].begin + Shift}
    BY <2>2, <2>3, <2>4
  <2> QED BY <1>1, <2>5, <2>6
<1>3. /\ fix.table = IF i = 0 THEN tab ELSE Append(old, e)
      /\ fix.header = IF i = 0 THEN h ELSE WithBegin(h, i, begin)
  BY DEF FixNewHDDPartitionTable, Moved, Found, WithBegin
<1>4. DOMAIN e = {"type", "key", "begin", "end"} /\ e.key = key /\ e.type = "recovery" /\ e.begin = begin
  OBVIOUS
<1> HIDE DEF begin, e
<1>5. /\ TableShape(old) /\ Keys(old) \subseteq Keys(tab) /\ Len(old) \in Nat
      /\ \A k \in 1..Len(tab) : found = 0 \/ k < found => k \in 1..Len(old) /\ old[k] = tab[k]
  <2>1. CASE found = 0
    BY <1>1, <2>1
  <2>2. CASE found # 0
    <3>1. found - 1 \in 0..Len(tab)
      BY <1>1, <1>2, <2>2
    <3>2. /\ TableShape(SubSeq(tab, 1, found - 1)) /\ Len(SubSeq(tab, 1, found - 1)) = found - 1
          /\ \A k \in 1..(found - 1) : SubSeq(tab, 1, found - 1)[k] = tab[k]
          /\ Keys(SubSeq(tab, 1, found - 1)) \subseteq Keys(tab)
      BY <3>1, FrontShape
    <3>3. old = SubSeq(tab, 1, found - 1)
      BY <2>2
    <3> HIDE DEF old
    <3>4. \A k \in 1..Len(tab) : k < found => k \in 1..(found - 1)
      BY <1>1, <1>2
    <3> QED BY <1>1, <1>2, <2>2, <3>1, <3>2, <3>3, <3>4
  <2> QED BY <2>1, <2>2
<1>6. key \in Keys(tab) \cup {NewKey}
  <2>1. CASE found # 0
    <3>1. found \in DOMAIN tab
      BY <1>1, <1>2, <2>1
    <3> QED BY <2>1, <3>1, KeyOfEntry
  <2> QED BY <2>1
<1> HIDE DEF old, key
<1>7. /\ TableShape(Append(old, e)) /\ Keys(Append(old, e)) \subseteq Keys(old) \cup {key}
      /\ Len(Append(old, e)) = Len(old) + 1 /\ Append(old, e)[Len(old) + 1] = e
      /\ \A k \in 1..Len(old) : Append(old, e)[k] = old[k]
  BY <1>4, <1>5, AppendShape
<1>8. DOMAIN Append(old, e) = 1..(Len(old) + 1)
  BY <1>5, <1>7 DEF TableShape
<1>9. Kept(fix.table, tab)
  BY <1>3, <1>5, <1>6, <1>7 DEF Kept
<1>10. CASE i = 0
  <2>1. fix.table = tab /\ fix.header = h
    BY <1>3, <1>10
  <2> QED BY <1>1, <1>2, <1>9, <1>10, <2>1
<1>11. CASE i # 0
  <2>1. fix.table = Append(old, e) /\ fix.header = WithBegin(h, i, begin)
    BY <1>3, <1>11
  <2>2. Len(old) + 1 \in DOMAIN fix.table /\ fix.table[Len(old) + 1] = e
    BY <1>5, <1>7, <1>8, <2>1
  <2>3. \E b : /\ fix.header = WithBegin(h, i, b)
               /\ \E k \in DOMAIN fix.table : /\ fix.table[k].type = "recovery"
                                              /\ fix.table[k].begin = b
    BY <1>4, <2>1, <2>2
  <2>4. ASSUME NEW k \in 1..Len(tab), found = 0 \/ k < found
        PROVE  k \in DOMAIN fix.table /\ fix.table[k] = tab[k]
    <3>1. k \in 1..Len(old) /\ old[k] = tab[k]
      BY <1>5, <2>4
    <3>2. k \in 1..(Len(old) + 1)
      BY <1>5, <3>1
    <3> QED BY <1>7, <1>8, <2>1, <3>1, <3>2
  <2> QED BY <1>2, <1>9, <1>11, <2>3, <2>4
<1> QED BY <1>10, <1>11

-----------------------------------------------------------------------------
(***************************************************************************)
(* The header and the table of an image.                                   *)
(***************************************************************************)

\* The partitions of the disk the image is of.
LEMMA OwnParts ==
  ASSUME NEW h \in Seq(Part)
  PROVE  /\ DOMAIN h = 1..Len(h) /\ Len(h) \in Nat
         /\ Own(h) \in SUBSET Nat /\ Own(h) \subseteq DOMAIN h /\ IsFiniteSet(Own(h))
<1>1. DOMAIN h = 1..Len(h) /\ Len(h) \in Nat
  OBVIOUS
<1>2. Own(h) \in SUBSET (1..Len(h)) /\ Own(h) \in SUBSET Nat
  BY <1>1 DEF Own
<1>3. IsFiniteSet(1..Len(h))
  <2>1. 1 \in Int /\ Len(h) \in Int
    BY <1>1
  <2> QED BY <2>1, FS_Interval
<1>4. IsFiniteSet(Own(h))
  BY <1>2, <1>3, FS_Subset
<1> QED BY <1>1, <1>2, <1>4

\* The table of an image has their entries, each where its rank is.
LEMMA ImageTableShape ==
  ASSUME NEW h \in Seq(Part)
  PROVE  /\ TableShape(ImageTable(h)) /\ DOMAIN ImageTable(h) = 1..Cardinality(Own(h))
         /\ Keys(ImageTable(h)) \subseteq Keys(h)
         /\ \A i \in Own(h) : /\ Rank(Own(h), i) \in DOMAIN ImageTable(h)
                              /\ ImageTable(h)[Rank(Own(h), i)].begin = h[i].begin
                              /\ ImageTable(h)[Rank(Own(h), i)].type = h[i].type
         /\ \A k \in DOMAIN ImageTable(h) :
              \E i \in Own(h) : Rank(Own(h), i) = k /\ ImageTable(h)[k].begin = h[i].begin
<1> DEFINE S == Own(h)
           t == ImageTable(h)
           n == Cardinality(S)
<1>1. S \in SUBSET Nat /\ IsFiniteSet(S) /\ S \subseteq DOMAIN h
  BY OwnParts
<1>2. DOMAIN t = 1..n /\ t = [k \in 1..n |-> t[k]] /\ \A k \in 1..n : t[k] = EntryOf(h[Nth(S, k)])
  BY DEF ImageTable
<1> HIDE DEF S, t
<1>3. n \in Nat
  BY <1>1, FS_CardinalityType
<1>4. \A k \in 1..n : Nth(S, k) \in S /\ Rank(S, Nth(S, k)) = k
  BY <1>1, NthHasRank
<1>5. \A i \in S : Rank(S, i) \in 1..n /\ Nth(S, Rank(S, i)) = i
  BY <1>1, RankOfElement, NthOfRank
<1>6. \A k \in 1..n : /\ DOMAIN t[k] = {"type", "key", "begin", "end"}
                      /\ t[k].key = h[Nth(S, k)].key /\ t[k].begin = h[Nth(S, k)].begin
                      /\ t[k].type = h[Nth(S, k)].type
  BY <1>2 DEF EntryOf
<1> HIDE DEF n
<1>7. TableShape(t)
  <2> DEFINE R == Range(t)
  <2>1. \A k \in 1..n : t[k] \in R
    BY <1>2 DEF Range
  <2> HIDE DEF R
  <2>2. [k \in 1..n |-> t[k]] \in Seq(R)
    BY <1>3, <2>1
  <2>3. t \in Seq(R)
    BY <1>2, <2>2
  <2> QED BY <1>2, <1>6, <2>3 DEF TableShape, R
<1>8. Keys(t) \subseteq Keys(h)
  <2>1. \A k \in 1..n : t[k].key \in Keys(h)
    BY <1>1, <1>4, <1>6, KeyOfEntry
  <2> QED BY <1>2, <2>1 DEF Keys
<1>9. \A i \in S : /\ Rank(S, i) \in DOMAIN t /\ t[Rank(S, i)].begin = h[i].begin
                   /\ t[Rank(S, i)].type = h[i].type
  BY <1>2, <1>5, <1>6
<1>10. \A k \in DOMAIN t : \E i \in S : Rank(S, i) = k /\ t[k].begin = h[i].begin
  BY <1>2, <1>4, <1>6
<1> QED BY <1>2, <1>7, <1>8, <1>9, <1>10 DEF S, t, n

\* The partitions the header is searched for.
LEMMA HeaderParts ==
  ASSUME NEW h \in Seq(Part)
  PROVE  /\ WinRE(h) # 0 => WinRE(h) \in DOMAIN h /\ h[WinRE(h)].type = "recovery"
         /\ OS(h) # 0 => OS(h) \in DOMAIN h /\ h[OS(h)].win /\ h[OS(h)].saved
<1> DEFINE W == {i \in DOMAIN h : IsWinRE(h[i])}
           O == {i \in DOMAIN h : IsOS(h[i])}
<1>1. Len(h) \in Nat /\ W \in SUBSET (1..Len(h)) /\ O \in SUBSET (1..Len(h))
  BY OwnParts
<1>2. WinRE(h) = Least(W) /\ OS(h) = Least(O)
  BY DEF WinRE, OS, First
<1>3. \A i \in W : i \in DOMAIN h /\ h[i].type = "recovery"
  BY DEF IsWinRE
<1>4. \A i \in O : i \in DOMAIN h /\ h[i].win /\ h[i].saved
  BY DEF IsOS
<1> HIDE DEF W, O
<1>5. W = {} \/ Least(W) \in W
  BY <1>1, LeastIndex
<1>6. O = {} \/ Least(O) \in O
  BY <1>1, LeastIndex
<1>7. Least({}) = 0
  BY DEF Least
<1> QED BY <1>2, <1>3, <1>4, <1>5, <1>6, <1>7

\* C is in the table of the image where its rank is: the partitions ascend.
LEMMA PlaceOfC ==
  ASSUME NEW h \in Seq(Part), WindowsImage(h)
  PROVE  /\ OS(h) \in Own(h)
         /\ EntryAt(ImageTable(h), OSPart(h).begin) = Rank(Own(h), OS(h))
<1> DEFINE t == ImageTable(h)
           o == OS(h)
           b == h[o].begin
           c == EntryAt(t, b)
<1>1. o \in Own(h)
  BY HeaderParts DEF WindowsImage
<1>2. Rank(Own(h), o) \in DOMAIN t /\ t[Rank(Own(h), o)].begin = b
  BY <1>1, ImageTableShape
<1>3. t \in Seq(Range(t))
  BY ImageTableShape DEF TableShape
<1> HIDE DEF t, b
<1>4. c \in DOMAIN t /\ t[c].begin = b
  BY <1>2, <1>3, EntryIsThere
<1>5. PICK i \in Own(h) : Rank(Own(h), i) = c /\ t[c].begin = h[i].begin
  BY <1>4, ImageTableShape DEF t
<1>6. i = o
  <2>1. i \in Nat /\ o \in Nat /\ h[i].begin \in Nat /\ h[o].begin \in Nat
    <3>1. \A k \in DOMAIN h : h[k] \in Part
      OBVIOUS
    <3>2. \A q \in Part : q.begin \in Nat
      BY DEF Part
    <3> QED BY <1>1, <3>1, <3>2, OwnParts
  <2>2. h[i].begin = h[o].begin
    BY <1>4, <1>5 DEF b
  <2>3. ~(i < o) /\ ~(o < i)
    BY <1>1, <2>1, <2>2 DEF WindowsImage
  <2> QED BY <2>1, <2>3
<1> QED BY <1>1, <1>5, <1>6 DEF t, b, OSPart

\* The begin of one partition is moved: the rest of the header stays.
LEMMA MovedHeader ==
  ASSUME NEW h \in Seq(Part), NEW i, NEW b, NEW new, new = WithBegin(h, i, b)
  PROVE  /\ WinRE(new) = WinRE(h) /\ DOMAIN new = DOMAIN h
         /\ \A k \in DOMAIN h : /\ new[k].type = h[k].type /\ new[k].saved = h[k].saved
                                /\ new[k].begin = IF k = i THEN b ELSE h[k].begin
<1>1. \A k \in DOMAIN h : h[k] \in Part
  OBVIOUS
<1>2. \A q \in Part : {"type", "lenovo", "saved", "begin"} \subseteq DOMAIN q
  BY DEF Part
<1>3. /\ DOMAIN new = DOMAIN h
      /\ \A k \in DOMAIN h : new[k] = IF k = i THEN [h[k] EXCEPT !.begin = b] ELSE h[k]
  BY DEF WithBegin
<1>4. \A k \in DOMAIN h :
        /\ new[k].type = h[k].type /\ new[k].saved = h[k].saved /\ new[k].lenovo = h[k].lenovo
        /\ new[k].begin = IF k = i THEN b ELSE h[k].begin
  BY <1>1, <1>2, <1>3
<1>5. {k \in DOMAIN new : IsWinRE(new[k])} = {k \in DOMAIN h : IsWinRE(h[k])}
  BY <1>3, <1>4 DEF IsWinRE
<1>6. WinRE(new) = WinRE(h)
  BY <1>5 DEF WinRE, First
<1> QED BY <1>3, <1>4, <1>6

\* The saved WinRE partition that no recovery partition precedes is the one that
\* FixNewHDDPartitionTable moves, or it is in front of C and of the one that is moved.
LEMMA WhichIsMoved ==
  ASSUME NEW h \in Seq(Part), WindowsImage(h), WinRE(h) # 0, h[WinRE(h)].saved,
         \A k \in 1..(WinRE(h) - 1) : h[k].type # "recovery"
  PROVE  \/ Moved(h) = WinRE(h)
         \/ /\ WinRE(h) < OS(h)
            /\ Moved(h) # 0 => Moved(h) \in Own(h) /\ WinRE(h) < Moved(h)
<1> DEFINE r == WinRE(h)
           o == OS(h)
           B == {k \in DOMAIN h : h[k].type = "basic" /\ h[k].win}
           c == First(h, LAMBDA q : q.type = "basic" /\ q.win)
           I == {k \in DOMAIN h : /\ h[k].saved /\ h[k].type = "recovery"
                                  /\ k > IF c = 0 THEN 1 ELSE c}
           i == Moved(h)
<1>1. /\ DOMAIN h = 1..Len(h) /\ Len(h) \in Nat /\ r \in DOMAIN h /\ h[r].type = "recovery"
      /\ o \in DOMAIN h /\ h[o].win /\ h[o].type = "basic"
  BY OwnParts, HeaderParts DEF WindowsImage
<1>2. c = Least(B) /\ o \in B /\ B \in SUBSET (1..Len(h)) /\ \A k \in B : h[k].type = "basic"
  BY <1>1 DEF First
<1>3. i = Least(I) /\ I \in SUBSET (1..Len(h))
  BY <1>1 DEF Moved
<1>4. h[r].saved /\ \A k \in 1..(r - 1) : h[k].type # "recovery"
  OBVIOUS
<1> HIDE DEF r, o, B
<1>5. c \in B /\ c <= o
  <2> HIDE DEF c
  <2> QED BY <1>1, <1>2, LeastIndex
<1>6. c \in 1..Len(h) /\ c # r
  BY <1>1, <1>2, <1>5
<1>7. \A k : k \in I <=> k \in DOMAIN h /\ h[k].saved /\ h[k].type = "recovery" /\ k > c
  BY <1>6
<1> HIDE DEF c, I, i
<1>8. CASE r > c
  <2>1. r \in I
    BY <1>1, <1>4, <1>7, <1>8
  <2>2. i \in I /\ i <= r
    BY <1>1, <1>3, <2>1, LeastIndex
  <2>3. i \in 1..Len(h) /\ h[i].type = "recovery" /\ r \in 1..Len(h)
    BY <1>1, <1>7, <2>2
  <2>4. i = r
    BY <1>4, <2>2, <2>3
  <2> QED BY <2>4 DEF i, r
<1>9. CASE ~(r > c)
  <2>1. r < o /\ r < c
    BY <1>1, <1>5, <1>6, <1>9
  <2>2. ASSUME i # 0 PROVE i \in Own(h) /\ r < i
    <3>1. i \in I
      <4>1. I # {} => Least(I) \in I
        BY <1>1, <1>3, LeastIndex
      <4>2. I = {} => Least(I) = 0
        BY DEF Least
      <4> QED BY <1>3, <2>2, <4>1, <4>2
    <3>2. i \in DOMAIN h /\ h[i].saved /\ i > c
      BY <1>7, <3>1
    <3>3. i \in Own(h)
      BY <3>2 DEF WindowsImage
    <3> QED BY <1>1, <1>6, <2>1, <3>2, <3>3
  <2> QED BY <2>1, <2>2 DEF i, r, o
<1> QED BY <1>8, <1>9

\* What WinREOnEntry asks of a table and a header.
WinREThere(t, h) ==
  LET i == WinRE(h)
  IN i # 0 /\ h[i].saved /\ (\A k \in 1..(i - 1) : h[k].type # "recovery") =>
       \E k \in DOMAIN t : t[k].type = "recovery" /\ t[k].begin = h[i].begin

\* It is enough to look at the header as it was before a partition was moved.
LEMMA ThereAfterMove ==
  ASSUME NEW h \in Seq(Part), NEW j, NEW b, NEW new, new = WithBegin(h, j, b), NEW t,
         WinRE(h) # 0 /\ h[WinRE(h)].saved
           /\ (\A k \in 1..(WinRE(h) - 1) : h[k].type # "recovery") =>
           \E k \in DOMAIN t : /\ t[k].type = "recovery"
                               /\ t[k].begin = IF j = WinRE(h) THEN b ELSE h[WinRE(h)].begin
  PROVE  WinREThere(t, new)
<1> DEFINE r == WinRE(h)
<1>1. /\ WinRE(new) = r /\ DOMAIN new = DOMAIN h
      /\ \A k \in DOMAIN h : /\ new[k].type = h[k].type /\ new[k].saved = h[k].saved
                             /\ new[k].begin = IF k = j THEN b ELSE h[k].begin
  BY MovedHeader
<1>2. DOMAIN h = 1..Len(h) /\ Len(h) \in Nat /\ (r # 0 => r \in DOMAIN h)
  BY OwnParts, HeaderParts
<1> SUFFICES ASSUME r # 0, new[r].saved, \A k \in 1..(r - 1) : new[k].type # "recovery"
             PROVE  \E k \in DOMAIN t : t[k].type = "recovery" /\ t[k].begin = new[r].begin
  BY <1>1 DEF WinREThere
<1> HIDE DEF r
<1>3. h[r].saved /\ \A k \in 1..(r - 1) : h[k].type # "recovery"
  <2>1. \A k \in 1..(r - 1) : k \in DOMAIN h
    BY <1>2
  <2> QED BY <1>1, <1>2, <2>1
<1>4. \E k \in DOMAIN t : /\ t[k].type = "recovery"
                          /\ t[k].begin = IF j = r THEN b ELSE h[r].begin
  BY <1>3 DEF r
<1>5. new[r].begin = IF j = r THEN b ELSE h[r].begin
  BY <1>1, <1>2
<1> QED BY <1>4, <1>5

\* FixNoDataPartTable: UpdateOKRHeaderInfo notes where the entry has gone.
LEMMA NoDataWinRE ==
  ASSUME NEW h \in Seq(Part), WindowsImage(h), NEW n, NEW w, NEW total
  PROVE  LET fix == FixNoDataPartTable(ImageTable(h), h, OSPart(h).begin, n, w, total)
         IN WinREThere(fix.table, fix.header)
<1> DEFINE fix == FixNoDataPartTable(ImageTable(h), h, OSPart(h).begin, n, w, total)
           r == WinRE(h)
           I == {k \in DOMAIN h : h[k].type = "recovery"}
           j == First(h, LAMBDA q : q.type = "recovery")
<1>1. TableShape(ImageTable(h)) /\ EntryAt(ImageTable(h), OSPart(h).begin) # 0
  <2>1. OS(h) \in Own(h) /\ Own(h) \in SUBSET Nat /\ IsFiniteSet(Own(h))
    BY OwnParts, PlaceOfC
  <2>2. Rank(Own(h), OS(h)) \in 1..Cardinality(Own(h))
    BY <2>1, RankOfElement
  <2>3. Rank(Own(h), OS(h)) # 0
    BY <2>2
  <2> QED BY <2>3, PlaceOfC, ImageTableShape
<1>2. PICK begin : /\ fix.header = UpdateOKRHeaderInfo(h, begin)
                   /\ \E k \in DOMAIN fix.table : /\ fix.table[k].type = "recovery"
                                                  /\ fix.table[k].begin = begin
  BY <1>1, NoDataKeeps
<1> HIDE DEF fix
<1>3. fix.header = IF j = 0 THEN h ELSE [h EXCEPT ![j].begin = begin]
  BY <1>2 DEF UpdateOKRHeaderInfo
<1>4. /\ DOMAIN h = 1..Len(h) /\ Len(h) \in Nat
      /\ r # 0 => r \in DOMAIN h /\ h[r].type = "recovery"
  BY OwnParts, HeaderParts
<1>5. j = Least(I) /\ I \in SUBSET (1..Len(h)) /\ \A k : k \in I <=> k \in DOMAIN h /\ h[k].type = "recovery"
  BY <1>4 DEF First
<1> HIDE DEF r, j, I
<1>6. ASSUME r # 0, \A k \in 1..(r - 1) : h[k].type # "recovery" PROVE j = r
  <2>1. r \in I
    BY <1>4, <1>5, <1>6
  <2>2. j \in I /\ j <= r
    BY <1>4, <1>5, <2>1, LeastIndex
  <2>3. j \in 1..Len(h) /\ h[j].type = "recovery" /\ r \in 1..Len(h)
    BY <1>4, <1>5, <1>6, <2>2
  <2> QED BY <1>6, <2>2, <2>3
<1>7. CASE j = 0
  <2>1. fix.header = h
    BY <1>3, <1>7
  <2>2. ~(r # 0 /\ (\A k \in 1..(r - 1) : h[k].type # "recovery"))
    BY <1>6, <1>7
  <2> QED BY <2>1, <2>2 DEF WinREThere, r, fix
<1>8. CASE j # 0
  <2> DEFINE new == fix.header
             t == fix.table
  <2>1. new = WithBegin(h, j, begin)
    BY <1>3, <1>8 DEF WithBegin
  <2>2. \E k \in DOMAIN t : t[k].type = "recovery" /\ t[k].begin = begin
    BY <1>2
  <2> HIDE DEF new, t
  <2>3. r # 0 /\ h[r].saved /\ (\A k \in 1..(r - 1) : h[k].type # "recovery") =>
          \E k \in DOMAIN t : /\ t[k].type = "recovery"
                              /\ t[k].begin = IF j = r THEN begin ELSE h[r].begin
    BY <1>6, <2>2
  <2>4. WinREThere(t, new)
    BY <2>1, <2>3, ThereAfterMove DEF r
  <2> QED BY <2>4 DEF new, t, fix
<1> QED BY <1>7, <1>8

\* FixNewHDDPartitionTable: WinRE has the entry that was moved, or it is in front of C and
\* its entry has stayed through both repairs.
LEMMA MovedWinRE ==
  ASSUME NEW h \in Seq(Part), WindowsImage(h), NEW tab, TableShape(tab), NEW w, NEW total,
         \A k \in 1..(EntryAt(ImageTable(h), OSPart(h).begin) - 1) :
           k \in DOMAIN tab /\ tab[k] = ImageTable(h)[k]
  PROVE  LET fix == FixNewHDDPartitionTable(tab, h, w, total)
         IN WinREThere(fix.table, fix.header)
<1> DEFINE fix == FixNewHDDPartitionTable(tab, h, w, total)
           t == fix.table
           new == fix.header
           S == Own(h)
           r == WinRE(h)
           o == OS(h)
           i == Moved(h)
           found == Found(tab, h)
<1>1. /\ found \in 0..Len(tab)
      /\ found # 0 => tab[found].begin \in {h[i].begin, h[i].begin + Shift}
      /\ i = 0 => t = tab /\ new = h
      /\ i # 0 => \E begin :
           /\ new = WithBegin(h, i, begin)
           /\ \E k \in DOMAIN t : t[k].type = "recovery" /\ t[k].begin = begin
      /\ \A k \in 1..Len(tab) : found = 0 \/ k < found => k \in DOMAIN t /\ t[k] = tab[k]
  <2>1. found = Found(tab, h) /\ i = Moved(h) /\ fix = FixNewHDDPartitionTable(tab, h, w, total)
    OBVIOUS
  <2> HIDE DEF found, i, fix
  <2> QED BY <2>1, TableKeeps
<1> HIDE DEF t, new, found, i
<1>2. ASSUME r # 0, h[r].saved, \A k \in 1..(r - 1) : h[k].type # "recovery", i # r
      PROVE  \E k \in DOMAIN t : t[k].type = "recovery" /\ t[k].begin = h[r].begin
  <2>1. r < o /\ (i # 0 => i \in S /\ r < i)
    BY <1>2, WhichIsMoved DEF i
  <2>2. /\ S \in SUBSET Nat /\ IsFiniteSet(S) /\ o \in S /\ DOMAIN h = 1..Len(h) /\ S \subseteq DOMAIN h
        /\ r \in DOMAIN h /\ h[r].type = "recovery"
    BY <1>2, OwnParts, HeaderParts, PlaceOfC
  <2>3. r \in S /\ r \in Nat /\ o \in Nat
    <3>1. r \in S
      BY <1>2, <2>2 DEF WindowsImage
    <3> QED BY <2>2, <3>1
  <2> DEFINE m == Rank(S, r)
             c == Rank(S, o)
             T == ImageTable(h)
  <2>4. m \in Nat /\ c \in Nat /\ m < c /\ m # 0
    <3>1. m \in 1..Cardinality(S) /\ c \in 1..Cardinality(S)
      BY <2>2, <2>3, RankOfElement
    <3>2. Rank(S, o) <= Rank(S, r) <=> o <= r
      BY <2>2, <2>3, RankOrder
    <3> HIDE DEF S
    <3>3. ~(o <= r)
      BY <2>1, <2>2, <2>3
    <3> QED BY <3>1, <3>2, <3>3
  <2>5. EntryAt(T, OSPart(h).begin) = c
    BY PlaceOfC
  <2>6. /\ m \in DOMAIN T /\ T[m].begin = h[r].begin /\ T[m].type = h[r].type
        /\ \A k \in DOMAIN T : \E q \in S : Rank(S, q) = k /\ T[k].begin = h[q].begin
        /\ DOMAIN T = 1..Cardinality(S) /\ Cardinality(S) \in Nat
    BY <2>2, <2>3, ImageTableShape, FS_CardinalityType
  <2>7. DOMAIN tab = 1..Len(tab) /\ Len(tab) \in Nat
    <3>1. tab \in Seq(Range(tab))
      BY DEF TableShape
    <3> QED BY <3>1
  <2> HIDE DEF m, c, T, S, r, o
  <2>8. \A k \in 1..m : k \in DOMAIN tab /\ tab[k] = T[k]
    <3>1. \A k \in 1..m : k \in 1..(c - 1)
      BY <2>4
    <3> QED BY <2>5, <3>1 DEF T
  <2>9. CASE i = 0
    <3>1. t = tab
      BY <1>1, <2>9
    <3>2. m \in 1..m
      BY <2>4
    <3>3. m \in DOMAIN t /\ t[m] = T[m]
      BY <2>8, <3>1, <3>2
    <3> QED BY <2>2, <2>6, <3>3
  <2>10. CASE i # 0
    <3>1. i \in S /\ r < i
      BY <2>1, <2>10
    <3>2. ASSUME found # 0, ~(m < found) PROVE FALSE
      <4>1. found \in 1..m
        BY <1>1, <2>4, <2>7, <3>2
      <4>2. tab[found] = T[found] /\ found \in DOMAIN T
        BY <2>4, <2>6, <2>8, <4>1
      <4>3. PICK q \in S : Rank(S, q) = found /\ T[found].begin = h[q].begin
        BY <2>6, <4>2
      <4>4. q <= r
        <5>1. Rank(S, q) <= Rank(S, r) <=> q <= r
          BY <2>2, <2>3, RankOrder
        <5>2. Rank(S, r) = m
          BY DEF m
        <5> QED BY <2>4, <4>1, <4>3, <5>1, <5>2
      <4>5. q < i /\ q \in Nat /\ i \in Nat
        BY <2>2, <2>3, <3>1, <4>4
      <4>6. h[q].begin < h[i].begin /\ h[q].begin \in Nat /\ h[i].begin \in Nat
        <5>1. \A k \in DOMAIN h : h[k] \in Part
          OBVIOUS
        <5>2. \A p \in Part : p.begin \in Nat
          BY DEF Part
        <5>3. h[q].begin < h[i].begin
          BY <3>1, <4>5 DEF WindowsImage, S
        <5> QED BY <2>2, <3>1, <5>1, <5>2, <5>3
      <4>7. Shift \in Nat
        BY FixAssumption
      <4>8. h[q].begin = h[i].begin \/ h[q].begin = h[i].begin + Shift
        BY <1>1, <3>2, <4>2, <4>3
      <4> QED BY <4>6, <4>7, <4>8
    <3>3. m \in 1..Len(tab) /\ tab[m] = T[m]
      <4>1. m \in 1..m
        BY <2>4
      <4> QED BY <2>7, <2>8, <4>1
    <3>4. m \in DOMAIN t /\ t[m] = T[m]
      BY <1>1, <3>2, <3>3
    <3> QED BY <2>2, <2>6, <3>4
  <2> QED BY <2>9, <2>10
<1>3. CASE i = 0
  <2>1. new = h
    BY <1>1, <1>3
  <2>2. r # 0 => i # r
    BY <1>3
  <2> QED BY <1>2, <2>1, <2>2 DEF WinREThere, new, t
<1>4. CASE i # 0
  <2>1. PICK begin : /\ new = WithBegin(h, i, begin)
                     /\ \E k \in DOMAIN t : t[k].type = "recovery" /\ t[k].begin = begin
    BY <1>1, <1>4
  <2> HIDE DEF r
  <2>2. r # 0 /\ h[r].saved /\ (\A k \in 1..(r - 1) : h[k].type # "recovery") =>
          \E k \in DOMAIN t : /\ t[k].type = "recovery"
                              /\ t[k].begin = IF i = r THEN begin ELSE h[r].begin
    BY <1>2, <2>1
  <2>3. WinREThere(t, new)
    BY <2>1, <2>2, ThereAfterMove DEF r
  <2> QED BY <2>3 DEF new, t
<1> QED BY <1>3, <1>4

-----------------------------------------------------------------------------
(***************************************************************************)
(* What is on the disks.                                                   *)
(***************************************************************************)

\* What DisksInv asks of a disk.
Sound(x) ==
  /\ TableShape(x.table)
  /\ \A i \in DOMAIN machine.images : Told(x, Keys(x.table), machine.images[i])

\* Table, kind and GUID are all it looks at.
LEMMA SoundSame ==
  ASSUME NEW x, Sound(x), NEW y, y.table = x.table, y.gpt = x.gpt, y.guid = x.guid
  PROVE  Sound(y)
BY DEF Sound, Told

\* A disk is touched.
LEMMA SoundTouch ==
  ASSUME Shape, DisksInv, machine' = machine, NEW r, Target \in Disks => Sound(r),
         disk' = [disk EXCEPT ![Target] = r]
  PROVE  /\ DisksInv' /\ (Target \in Disks => disk'[Target] = r)
         /\ \A d \in Disks : d # Target => disk'[d] = disk[d]
<1>1. Disks' = Disks
  BY DEF Disks, NDisks
<1>2. \A d \in Disks : disk'[d] = IF d = Target THEN r ELSE disk[d]
  BY DEF Shape, DiskShape
<1>3. \A d \in Disks : Sound(disk'[d])
  BY <1>2 DEF DisksInv, Sound
<1>4. DisksInv'
  BY <1>1, <1>3 DEF DisksInv, Sound
<1> QED BY <1>2, <1>4

\* No disk is touched.
LEMMA SoundDisks == DisksInv /\ UNCHANGED <<machine, disk>> => DisksInv'
BY DEF DisksInv, Disks, NDisks

\* A repair brings random keys, which no image has, and on a GPT disk what lies behind
\* the buffer, which no image of an MBR disk has.
LEMMA SoundRetable ==
  ASSUME machine \in Machines, NEW x, DiskFields \subseteq DOMAIN x, Sound(x),
         NEW tab, KeptOn(x, tab), NEW both
  PROVE  Sound(Retable(x, tab, both)) /\ Retable(x, tab, both).table = tab
<1> DEFINE y == Retable(x, tab, both)
<1>1. y.table = tab /\ y.gpt = x.gpt /\ y.guid = x.guid
  BY DEF Retable, DiskFields
<1> HIDE DEF y
<1>2. ASSUME NEW i \in DOMAIN machine.images, y.gpt # machine.images[i].gpt
      PROVE  /\ y.guid # machine.images[i].guid
             /\ Keys(y.table) \cap Keys(machine.images[i].parts) = {}
  <2>1. /\ x.guid # machine.images[i].guid
        /\ Keys(x.table) \cap Keys(machine.images[i].parts) = {}
    BY <1>1, <1>2 DEF Sound, Told
  <2>2. NewKey \notin Keys(machine.images[i].parts)
    BY MachinesAssumption
  <2>3. x.gpt => BeyondKeys \cap Keys(machine.images[i].parts) = {}
    <3>1. x.gpt => ~machine.images[i].gpt
      BY <1>1, <1>2, MachinesAssumption
    <3> QED BY <3>1, MachinesAssumption DEF BeyondKeys
  <2>4. Keys(y.table) \subseteq Keys(x.table) \cup {NewKey} \cup IF x.gpt THEN BeyondKeys ELSE {}
    BY <1>1 DEF KeptOn
  <2> QED BY <1>1, <2>1, <2>2, <2>3, <2>4
<1>3. Sound(y)
  BY <1>1, <1>2 DEF Sound, Told, KeptOn
<1> QED BY <1>1, <1>3 DEF y

\* The table of an image brings its kind and its GUIDs.
LEMMA SoundImage ==
  ASSUME machine \in Machines, local.image \in DOMAIN machine.images, Header = Image.parts,
         NEW x, DiskFields \subseteq DOMAIN x
  PROVE  Sound(TableOfImage(x)) /\ TableOfImage(x).table = ImageTable(Image.parts)
<1> DEFINE y == TableOfImage(x)
           t == ImageTable(Image.parts)
<1>1. y.table = t /\ y.gpt = Image.gpt /\ y.guid = Image.guid
  BY DEF TableOfImage, DiskFields
<1>2. Image.parts \in Seq(Part)
  BY MachinesAssumption DEF Image
<1>3. TableShape(t) /\ Keys(t) \subseteq Keys(Image.parts)
  BY <1>2, ImageTableShape
<1> HIDE DEF y, t
<1>4. ASSUME NEW i \in DOMAIN machine.images, y.gpt # machine.images[i].gpt
      PROVE  /\ y.guid # machine.images[i].guid
             /\ Keys(y.table) \cap Keys(machine.images[i].parts) = {}
  <2>1. Told(Image, Keys(Image.parts), machine.images[i])
    BY MachinesAssumption DEF Image
  <2> QED BY <1>1, <1>3, <1>4, <2>1 DEF Told
<1>5. Sound(y)
  BY <1>1, <1>3, <1>4 DEF Sound, Told
<1> QED BY <1>1, <1>5 DEF y, t

\* A repair writes the table it has computed, or none.
LEMMA SoundRepair ==
  ASSUME Shape, DisksInv, machine \in Machines, NEW fix, NEW both, Repair(fix, both),
         Target \in Disks => KeptOn(disk[Target], fix.table)
  PROVE  /\ DisksInv' /\ \A d \in Disks : d # Target => disk'[d] = disk[d]
         /\ ~local'.fault => ~local.fault /\ local'.header = fix.header
         /\ ~local'.fault /\ Target \in Disks => disk'[Target].table = fix.table
         /\ UNCHANGED before /\ local'.olddisk = local.olddisk
<1>1. PICK w \in {"unread", "unwritten", "half", "done"} :
        /\ disk' = IF w \in {"half", "done"}
                     THEN [disk EXCEPT ![Target] = Retable(disk[Target], fix.table, both /\ w = "done")]
                     ELSE disk
        /\ local' = [local EXCEPT
                       !.header = IF w = "unread" THEN local.header ELSE fix.header,
                       !.fixSmallc = IF w = "unread" THEN local.fixSmallc ELSE fix.fixSmallc,
                       !.fault = local.fault \/ w # "done"]
        /\ UNCHANGED <<machine, before>>
  BY DEF Repair
<1>2. /\ local'.header = (IF w = "unread" THEN local.header ELSE fix.header)
      /\ local'.fault = (local.fault \/ w # "done") /\ local'.olddisk = local.olddisk
  BY <1>1 DEF Shape, LocalFields
<1> DEFINE r == Retable(disk[Target], fix.table, both /\ w = "done")
<1>3. Target \in Disks => Sound(r) /\ r.table = fix.table
  <2>1. ASSUME Target \in Disks PROVE DiskFields \subseteq DOMAIN disk[Target] /\ Sound(disk[Target])
    BY <2>1 DEF Shape, DiskShape, DisksInv, Sound
  <2> QED BY <2>1, SoundRetable
<1> HIDE DEF r
<1>4. CASE w \in {"half", "done"}
  <2>1. disk' = [disk EXCEPT ![Target] = r]
    BY <1>1, <1>4 DEF r
  <2>2. /\ DisksInv' /\ (Target \in Disks => disk'[Target] = r)
        /\ \A d \in Disks : d # Target => disk'[d] = disk[d]
    BY <1>1, <1>3, <2>1, SoundTouch
  <2> QED BY <1>1, <1>2, <1>3, <1>4, <2>2
<1>5. CASE w \notin {"half", "done"}
  <2>1. UNCHANGED <<machine, disk>>
    BY <1>1, <1>5
  <2>2. DisksInv'
    BY <2>1, SoundDisks
  <2> QED BY <1>1, <1>2, <1>5, <2>1, <2>2
<1> QED BY <1>4, <1>5

-----------------------------------------------------------------------------
(***************************************************************************)
(* The steps of a session.                                                 *)
(***************************************************************************)

\* A copy stays one as long as the image is the same.
LEMMA SameCopy ==
  ASSUME Image' = Image, before' = before
  PROVE  /\ Copy(before[Target])' <=> Copy(before[Target'])
         /\ \A d : Copy(before[d])' <=> Copy(before[d])
BY DEF Copy, SavedParts, Size

\* Nothing is said of the menu, but of the disks.
LEMMA MenuPInv ==
  ASSUME pc' = "menu" \/ pc' = "reboot", machine' \in Machines, DisksInv'
  PROVE  PInv'
<1>1. StartInv'
  BY DEF StartInv, Unwritten
<1>2. CopyInv'
  BY DEF CopyInv, Compared, UnforcedKeepsTable, Restoring
<1>3. WinREInv' /\ HomeInv'
  BY DEF WinREInv, HomeInv, Compared, Restoring
<1> QED BY <1>1, <1>2, <1>3 DEF PInv

\* The way back.
LEMMA ReturnPInv ==
  ASSUME PInv, machine' = machine, DisksInv', NEW data, Return(data)
  PROVE  PInv'
<1>1. pc' = "menu" \/ pc' = "reboot"
  BY DEF Return
<1>2. machine' \in Machines
  BY DEF PInv, StartInv
<1> QED BY <1>1, <1>2, MenuPInv

\* A refusal touches no disk.
LEMMA RefusePInv == ASSUME PInv, NEW data, Refuse(data) PROVE PInv'
<1>1. UNCHANGED <<machine, disk>> /\ \E kept : Return(kept)
  BY DEF Refuse, Done
<1> QED BY <1>1, SoundDisks, ReturnPInv DEF PInv

\* A step before the table is written.
LEMMA EarlyStep ==
  ASSUME PInv, UNCHANGED <<machine, disk, before>>,
         local'.image = local.image, local'.header = local.header,
         pc \in Unwritten, pc' \in Unwritten \ {"face"},
         g_data'.comefromnewhddface =>
           Image.used # 0 /\ g_data'.PartC.begin = OSPart(Image.parts).begin,
         g_data'.comefromnewhddface /\ pc' \in {"open", "chosen"} =>
           g_data'.selecteddisk # Image.home,
         g_data'.comefromnewhddface /\ pc' \in {"ask", "compare", "confirm", "write"} =>
           g_data'.RecoverDiskNumber # Image.home,
         g_data'.comefromnewhddface /\ pc' = "write" => g_data'.force,
         ~g_data'.comefromnewhddface /\ ~local'.linux /\ pc' \in {"ask", "compare", "confirm", "write"} =>
           local'.olddisk \in {1, 2},
         pc' \in {"confirm", "write"} /\ ~g_data'.force /\ ~local'.linux /\ ~g_data'.comefromnewhddface =>
           /\ ~g_data'.bFactoryRestore
           /\ ~Image.old /\ g_data'.RecoverDiskNumber \in Disks =>
                Copy(before[g_data'.RecoverDiskNumber])
  PROVE  PInv'
<1>1. Image' = Image /\ Header' = Header /\ Disks' = Disks /\ before' = before
  BY DEF Image, Header, Disks, NDisks
<1>2. DisksInv'
  BY SoundDisks DEF PInv
<1>3. StartInv'
  BY <1>1 DEF PInv, StartInv, Unwritten
<1>4. ~Restoring'
  BY DEF Restoring, Unwritten
<1>5. CopyInv'
  <2>1. Face' /\ pc' \in (Compared \ {"confirm"}) => Forcing'
    BY <1>4 DEF Compared, Restoring, Forcing, Face
  <2>2. ~Face' /\ ~local'.linux /\ pc' \in (Compared \cup {"ask", "compare"}) => local'.olddisk \in {1, 2}
    BY <1>4 DEF Compared, Restoring, Face
  <2>3. ASSUME ~Forcing', ~local'.linux, ~Face', pc' \in Compared
        PROVE  /\ ~g_data'.bFactoryRestore
               /\ ~Image'.old /\ Target' \in Disks' => Copy(before[Target])'
    <3>1. pc' \in {"confirm", "write"}
      BY <1>4, <2>3 DEF Compared, Restoring
    <3>2. /\ ~g_data'.bFactoryRestore
          /\ ~Image.old /\ Target' \in Disks => Copy(before[Target'])
      BY <2>3, <3>1 DEF Forcing, Face, Target
    <3>3. Copy(before[Target])' <=> Copy(before[Target'])
      BY <1>1, SameCopy
    <3> QED BY <1>1, <3>2, <3>3
  <2>4. UnforcedKeepsTable'
    BY <1>4 DEF UnforcedKeepsTable
  <2> QED BY <2>1, <2>2, <2>3, <2>4 DEF CopyInv, Compared
<1>6. WinREInv'
  BY <1>1 DEF WinREInv, WinREOnEntry, Face, PartC, Unwritten
<1>7. HomeInv'
  <2>1. \E k \in DOMAIN before[Image.home].table : before[Image.home].table[k].key = Image.place
    BY DEF PInv, HomeInv, Unwritten
  <2> QED BY <1>1, <1>4, <2>1 DEF HomeInv, Face, Target, Compared, Restoring
<1> QED BY <1>2, <1>3, <1>5, <1>6, <1>7 DEF PInv

\* The program starts at the menu, with the disks as they are.
LEMMA InitPInv == Init => PInv
<1> SUFFICES ASSUME Init PROVE PInv
  OBVIOUS
<1>1. machine \in Machines /\ disk = machine.disk /\ pc = "menu"
  BY DEF Init
<1>2. ASSUME NEW d \in Disks
      PROVE  /\ TableShape(disk[d].table)
             /\ \A i \in DOMAIN machine.images : Told(disk[d], Keys(disk[d].table), machine.images[i])
  <2>1. /\ d \in DOMAIN machine.disk /\ machine.disk[d].table \in Seq(Entry)
        /\ \A i \in DOMAIN machine.images :
             Told(machine.disk[d], Keys(machine.disk[d].table), machine.images[i])
    BY <1>1, MachinesAssumption DEF Disks, NDisks
  <2> DEFINE t == machine.disk[d].table
  <2>2. t \in Seq(Entry)
    BY <2>1
  <2> HIDE DEF t
  <2>3. t \in Seq(Range(t)) /\ \A k \in DOMAIN t : t[k] \in Entry
    BY <2>2 DEF Range
  <2>4. \A e \in Entry : DOMAIN e = {"type", "key", "begin", "end"}
    BY DEF Entry
  <2>5. TableShape(t)
    BY <2>3, <2>4 DEF TableShape
  <2> QED BY <1>1, <2>1, <2>5 DEF t
<1>3. DisksInv
  BY <1>2 DEF DisksInv
<1>4. StartInv
  BY <1>1 DEF StartInv, Unwritten
<1>5. CopyInv
  BY <1>1 DEF CopyInv, Compared, UnforcedKeepsTable, Restoring
<1>6. WinREInv /\ HomeInv
  BY <1>1 DEF WinREInv, HomeInv, Restoring, Compared
<1> QED BY <1>3, <1>4, <1>5, <1>6 DEF PInv

\* A restore begins: the image is one of the machine, and DetectNewHddFace is for images
\* of Windows.
LEMMA BeginPInv ==
  ASSUME IInv, PInv, NEW i \in DOMAIN machine.images, Listed(i), NEW factory,
         Begin(i, factory)
  PROVE  PInv'
<1> DEFINE im == machine.images[i]
<1>1. /\ g_data' = [g_data EXCEPT !.bFactoryRestore = factory, !.selecteddisk = 0,
                                  !.comefromnewhddface = FALSE, !.used = im.used]
      /\ \E asked, linux : local' = [Idle EXCEPT !.image = i, !.header = im.parts,
                                                 !.asked = asked, !.linux = linux]
      /\ pc' = "face" \/ pc' = "open"
      /\ pc' = "face" => im.used # 0
      /\ UNCHANGED <<machine, disk>> /\ before' = disk
  BY DEF Begin
<1>2. local'.image = i /\ local'.header = im.parts
  BY <1>1 DEF Idle
<1>3. ~Face'
  BY <1>1 DEF IInv, Shape, DataShape, DataFields, Face
<1>4. Image' = im /\ Header' = im.parts
  BY <1>1, <1>2 DEF Image, Header
<1> HIDE DEF im
<1>5. DisksInv'
  BY <1>1, SoundDisks DEF PInv
<1>6. StartInv'
  BY <1>1, <1>2, <1>4 DEF PInv, StartInv
<1>7. CopyInv'
  BY <1>1, <1>3 DEF CopyInv, Compared, UnforcedKeepsTable, Restoring
<1>8. WinREInv'
  BY <1>1, <1>3, <1>4 DEF WinREInv
<1>9. HomeInv'
  <2>1. \E k \in DOMAIN disk[im.home].table : disk[im.home].table[k].key = im.place
    BY DEF Listed, im
  <2> QED BY <1>1, <1>3, <1>4, <2>1 DEF HomeInv, Restoring, Compared
<1> QED BY <1>5, <1>6, <1>7, <1>8, <1>9 DEF PInv

\* What happens at the menu.
LEMMA SessionPInv == IInv /\ PInv /\ Session => PInv'
<1> SUFFICES ASSUME IInv, PInv, Session PROVE PInv'
  OBVIOUS
<1>1. CASE ToggleForce
  <2>1. pc' = "menu" /\ UNCHANGED <<machine, disk>>
    BY <1>1 DEF ToggleForce
  <2> QED BY <2>1, SoundDisks, MenuPInv DEF PInv, StartInv
<1>2. CASE SelectImage
  BY <1>2, BeginPInv DEF SelectImage
<1>3. CASE FactoryRestore
  <2> DEFINE S == {k \in DOMAIN machine.images : machine.images[k].factory /\ Listed(k)}
             i == Least(S)
  <2>1. i # 0 /\ Begin(i, TRUE)
    BY <1>3 DEF FactoryRestore
  <2>2. i \in DOMAIN machine.images /\ Listed(i)
    <3>1. Len(machine.images) \in Nat /\ DOMAIN machine.images = 1..Len(machine.images)
      BY MachinesAssumption DEF PInv, StartInv
    <3>2. S \in SUBSET (1..Len(machine.images))
      BY <3>1
    <3>3. \A k \in S : k \in DOMAIN machine.images /\ Listed(k)
      OBVIOUS
    <3> HIDE DEF S
    <3> QED BY <2>1, <3>1, <3>2, <3>3, LeastIndex
  <2> HIDE DEF i
  <2> QED BY <2>1, <2>2, BeginPInv
<1>4. CASE AutoRestore
  BY <1>4, BeginPInv DEF AutoRestore
<1> QED BY <1>1, <1>2, <1>3, <1>4 DEF Session

\* DetectNewHddFace: the system disk leaves the choice to Recover, a new one has C where
\* the image has it.
LEMMA DetectNewHddFacePInv == IInv /\ PInv /\ DetectNewHddFace => PInv'
<1> SUFFICES ASSUME IInv, PInv, DetectNewHddFace PROVE PInv'
  OBVIOUS
<1>1. pc = "face" /\ ~Face /\ Image.used # 0 /\ Header = Image.parts
  BY DEF DetectNewHddFace, ChooseSysDisk, ChooseNewDisk, CancelFace, IInv, Way, PInv, StartInv,
         WinREInv, Unwritten
<1>2. DataFields \subseteq DOMAIN g_data
  BY DEF IInv, Shape, DataShape
<1>3. ASSUME NEW data, ToOpen(data),
             data.comefromnewhddface =>
               data.PartC.begin = OSPart(Header).begin /\ data.selecteddisk # Image.home
      PROVE  PInv'
  <2>1. /\ g_data' = data /\ pc' = "open" /\ UNCHANGED <<machine, disk, local, before>>
    BY <1>3 DEF ToOpen
  <2> QED BY <1>1, <1>3, <2>1, EarlyStep DEF Unwritten
<1>4. CASE ChooseSysDisk
  <2>1. PICK d, c : ToOpen([g_data EXCEPT !.selecteddisk = d, !.PartC = c])
    BY <1>4 DEF ChooseSysDisk
  <2> DEFINE data == [g_data EXCEPT !.selecteddisk = d, !.PartC = c]
  <2>2. ~data.comefromnewhddface
    BY <1>1, <1>2 DEF DataFields, Face
  <2> HIDE DEF data
  <2> QED BY <1>3, <2>1, <2>2 DEF data
<1>5. CASE ChooseNewDisk
  <2>1. PICK d, n : d # Image.home /\ ToOpen([g_data EXCEPT !.selecteddisk = d, !.comefromnewhddface = TRUE,
                                          !.PartC = [begin |-> OSPart(Header).begin, total |-> n]])
    BY <1>5 DEF ChooseNewDisk
  <2> DEFINE data == [g_data EXCEPT !.selecteddisk = d, !.comefromnewhddface = TRUE,
                                    !.PartC = [begin |-> OSPart(Header).begin, total |-> n]]
  <2>2. data.PartC.begin = OSPart(Header).begin /\ data.selecteddisk = d
    BY <1>2 DEF DataFields
  <2> HIDE DEF data
  <2> QED BY <1>3, <2>1, <2>2 DEF data
<1>6. CASE CancelFace
  <2>1. \E data : Return(data)
    BY <1>6 DEF CancelFace
  <2>2. UNCHANGED <<machine, disk>>
    BY <1>6 DEF CancelFace
  <2> QED BY <2>1, <2>2, SoundDisks, ReturnPInv DEF PInv
<1> QED BY <1>4, <1>5, <1>6 DEF DetectNewHddFace

\* The media are gone before the restore has begun.
LEMMA MediaGonePInv == IInv /\ PInv /\ MediaGone => PInv'
<1> SUFFICES ASSUME IInv, PInv, MediaGone PROVE PInv'
  OBVIOUS
<1>1. UNCHANGED <<machine, disk>> /\ Return(g_data)
  BY DEF MediaGone
<1> QED BY <1>1, SoundDisks, ReturnPInv DEF PInv

\* What EarlyStep asks of a step that leaves the choice of the disk alone.
LEMMA UncomparedStep ==
  ASSUME IInv, PInv, UNCHANGED <<machine, disk, before>>,
         local'.image = local.image, local'.header = local.header, local'.linux = local.linux,
         pc \in {"open", "chosen", "dest", "ask"}, pc' \in {"dest", "chosen", "ask", "compare", "linux"},
         g_data'.comefromnewhddface = g_data.comefromnewhddface,
         Face => /\ g_data'.PartC = g_data.PartC
                 /\ g_data'.selecteddisk = g_data.selecteddisk,
         Face /\ pc' \in {"ask", "compare"} => g_data'.RecoverDiskNumber # Image.home,
         Face /\ pc' = "chosen" => pc = "open",
         ~Face /\ ~local.linux /\ pc' \in {"ask", "compare"} => local'.olddisk \in {1, 2}
  PROVE  PInv'
<1>1. pc \in Unwritten /\ pc' \in Unwritten \ {"face"}
  BY DEF Unwritten
<1>2. pc \notin {"menu", "reboot"}
  OBVIOUS
<1>3. Face => Image.used # 0 /\ PartC.begin = OSPart(Image.parts).begin
  BY <1>2 DEF PInv, WinREInv
<1>4. Face /\ pc' = "chosen" => g_data.selecteddisk # Image.home
  BY DEF PInv, HomeInv
<1> QED BY <1>1, <1>3, <1>4, EarlyStep DEF Face, PartC

\* The image is read.
LEMMA OpenImagePInv == IInv /\ PInv /\ OpenImage => PInv'
<1> SUFFICES ASSUME IInv, PInv, OpenImage PROVE PInv'
  OBVIOUS
<1>1. /\ pc = "open" /\ pc' \in {"dest", "chosen"}
      /\ UNCHANGED <<machine, disk, before, local, g_data>>
  BY DEF OpenImage
<1> QED BY <1>1, UncomparedStep

\* Only DetectNewHddFace has chosen a disk before.
LEMMA CheckDestinationDiskPInv == IInv /\ PInv /\ CheckDestinationDisk => PInv'
<1> SUFFICES ASSUME IInv, PInv, CheckDestinationDisk PROVE PInv'
  OBVIOUS
<1>1. /\ pc = "chosen" /\ pc' = "ask" /\ UNCHANGED <<machine, disk, before, local>>
      /\ g_data' = [g_data EXCEPT !.RecoverDiskNumber = g_data.selecteddisk]
  BY DEF CheckDestinationDisk
<1>2. /\ g_data'.comefromnewhddface = g_data.comefromnewhddface
      /\ g_data'.PartC = g_data.PartC /\ g_data'.selecteddisk = g_data.selecteddisk
      /\ g_data'.RecoverDiskNumber = g_data.selecteddisk
  BY <1>1 DEF IInv, Shape, DataShape, DataFields
<1>3. Face /\ g_data.selecteddisk # Image.home
  BY <1>1 DEF IInv, Way, PInv, HomeInv
<1> QED BY <1>1, <1>2, <1>3, UncomparedStep

\* GetDestinationDisk finds the disk of the image, or another one.
LEMMA GetDestinationDiskPInv == IInv /\ PInv /\ GetDestinationDisk => PInv'
<1> SUFFICES ASSUME IInv, PInv, GetDestinationDisk PROVE PInv'
  OBVIOUS
<1> DEFINE o == IF Search.old THEN 1 ELSE 2
<1>1. PICK d, c, f, s, a :
        /\ g_data' = [g_data EXCEPT !.PartC = c, !.force = f, !.RecoverDiskNumber = d]
        /\ local' = [local EXCEPT !.olddisk = o, !.c_small = s, !.asked = a]
  BY DEF GetDestinationDisk, Searched
<1>2. /\ pc = "dest" /\ pc' = "ask" /\ UNCHANGED <<machine, disk, before>>
  BY DEF GetDestinationDisk
<1>3. g_data'.comefromnewhddface = g_data.comefromnewhddface
  BY <1>1 DEF IInv, Shape, DataShape, DataFields
<1>4. /\ local'.image = local.image /\ local'.header = local.header
      /\ local'.linux = local.linux /\ local'.olddisk \in {1, 2}
  BY <1>1 DEF IInv, Shape, LocalFields
<1>5. ~Face
  BY <1>2 DEF IInv, Way
<1> QED BY <1>2, <1>3, <1>4, <1>5, UncomparedStep

\* BitLocker is asked about.
LEMMA AskAboutBitLockerPInv == IInv /\ PInv /\ AskAboutBitLocker => PInv'
<1> SUFFICES ASSUME IInv, PInv, AskAboutBitLocker PROVE PInv'
  OBVIOUS
<1>1. PICK f, a : /\ g_data' = [g_data EXCEPT !.force = f]
                  /\ local' = [local EXCEPT !.asked = a]
  BY DEF AskAboutBitLocker
<1>2. /\ pc = "ask" /\ pc' = "compare" /\ UNCHANGED <<machine, disk, before>>
  BY DEF AskAboutBitLocker
<1>3. /\ g_data'.comefromnewhddface = g_data.comefromnewhddface
      /\ g_data'.PartC = g_data.PartC /\ g_data'.selecteddisk = g_data.selecteddisk
      /\ g_data'.RecoverDiskNumber = g_data.RecoverDiskNumber
  BY <1>1 DEF IInv, Shape, DataShape, DataFields
<1>4. /\ local'.image = local.image /\ local'.header = local.header
      /\ local'.linux = local.linux /\ local'.olddisk = local.olddisk
  BY <1>1 DEF IInv, Shape, LocalFields
<1>5. /\ ~Face /\ ~local.linux => local.olddisk \in {1, 2}
      /\ Face => g_data.RecoverDiskNumber # Image.home
  BY <1>2 DEF PInv, CopyInv, HomeInv, Compared, Target
<1> QED BY <1>2, <1>3, <1>4, <1>5, UncomparedStep

\* A disk that nothing is found wrong with is a copy.
LEMMA MatchedIsCopy ==
  ASSUME IInv, PInv, pc = "compare", ~Face, ~Forced, NEW unread, ~Unmatched(unread),
         ~Image.old, Target \in Disks
  PROVE  Copy(before[Target])
<1>1. ~Missing /\ ~AnotherDisk
  BY DEF Unmatched
<1>2. ~Differs \/ disk[Target].guid = Image.guid
  BY <1>1 DEF AnotherDisk, IfNeedRecoverPartTable
<1>3. Header = Image.parts /\ before = disk /\ TableShape(disk[Target].table)
  BY DEF PInv, StartInv, Unwritten, DisksInv
<1> DEFINE t == disk[Target].table
<1>4. t \in Seq(Range(t))
  BY <1>3 DEF TableShape
<1> SUFFICES ASSUME NEW i \in SavedParts(Image.parts)
             PROVE  LET q == Image.parts[i]  now == {e \in Range(t) : e.begin = q.begin}
                    IN /\ now # {}
                       /\ \/ disk[Target].guid = Image.guid
                          \/ \E e \in now : e.key = q.key /\ Size(e) = q.total
  BY <1>3 DEF Copy
<1> DEFINE q == Image.parts[i]
           j == EntryAt(t, q.begin)
<1>5. j # 0
  BY <1>1, <1>3 DEF Missing, PartAt
<1>6. j \in DOMAIN t /\ t[j].begin = q.begin
  BY <1>4, <1>5, EntryIsThere
<1>7. ~Differs => t[j].key = q.key /\ Size(t[j]) = q.total
  BY <1>3 DEF Differs, PartAt
<1>8. t[j] \in Range(t)
  BY <1>6 DEF Range
<1> HIDE DEF j
<1> QED BY <1>2, <1>6, <1>7, <1>8

\* A restore that goes on unforced has found a copy.
LEMMA ComparePInv == IInv /\ PInv /\ Compare => PInv'
<1> SUFFICES ASSUME IInv, PInv, Compare PROVE PInv'
  OBVIOUS
<1>1. /\ pc = "compare" /\ pc' = "confirm" /\ UNCHANGED <<machine, disk, before>>
      /\ g_data' = [g_data EXCEPT !.force = Forced]
  BY DEF Compare
<1>2. PICK u, c, f : /\ ~Unmatched(u)
                     /\ local' = [local EXCEPT !.changed = c, !.fault = f]
  BY DEF Compare
<1>3. /\ g_data'.force = Forced /\ g_data'.comefromnewhddface = g_data.comefromnewhddface
      /\ g_data'.bFactoryRestore = g_data.bFactoryRestore /\ g_data'.PartC = g_data.PartC
      /\ g_data'.RecoverDiskNumber = g_data.RecoverDiskNumber
  BY <1>1 DEF IInv, Shape, DataShape, DataFields
<1>4. /\ local'.image = local.image /\ local'.header = local.header
      /\ local'.linux = local.linux /\ local'.olddisk = local.olddisk
  BY <1>2 DEF IInv, Shape, LocalFields
<1>5. pc \in Unwritten /\ pc' \in Unwritten \ {"face"}
  BY <1>1 DEF Unwritten
<1>6. Face => Image.used # 0 /\ PartC.begin = OSPart(Image.parts).begin
  BY <1>1 DEF PInv, WinREInv
<1>7. /\ ~Face /\ ~local.linux => local.olddisk \in {1, 2}
      /\ Face => Target # Image.home
  BY <1>1 DEF PInv, CopyInv, HomeInv, Compared
<1>8. ~Forced /\ ~Face =>
        ~g_data.bFactoryRestore /\ (~Image.old /\ Target \in Disks => Copy(before[Target]))
  BY <1>1, <1>2, MatchedIsCopy DEF Forced
<1> QED BY <1>1, <1>3, <1>4, <1>5, <1>6, <1>7, <1>8, EarlyStep DEF Face, PartC, Target

\* The user agrees.
LEMMA ConfirmPInv == IInv /\ PInv /\ Confirm => PInv'
<1> SUFFICES ASSUME IInv, PInv, Confirm PROVE PInv'
  OBVIOUS
<1>1. /\ pc = "confirm" /\ pc' = "write" /\ UNCHANGED <<machine, disk, before>>
      /\ g_data' = [g_data EXCEPT !.force = g_data.force \/ Face]
  BY DEF Confirm, NewDisk
<1>2. PICK c, a : local' = [local EXCEPT !.changed = c, !.asked = a]
  BY DEF Confirm
<1>3. /\ g_data'.force = (g_data.force \/ Face)
      /\ g_data'.comefromnewhddface = g_data.comefromnewhddface
      /\ g_data'.bFactoryRestore = g_data.bFactoryRestore /\ g_data'.PartC = g_data.PartC
      /\ g_data'.RecoverDiskNumber = g_data.RecoverDiskNumber
  BY <1>1 DEF IInv, Shape, DataShape, DataFields
<1>4. /\ local'.image = local.image /\ local'.header = local.header
      /\ local'.linux = local.linux /\ local'.olddisk = local.olddisk
  BY <1>2 DEF IInv, Shape, LocalFields
<1>5. pc \in Unwritten /\ pc' \in Unwritten \ {"face"}
  BY <1>1 DEF Unwritten
<1>6. Face => Image.used # 0 /\ PartC.begin = OSPart(Image.parts).begin
  BY <1>1 DEF PInv, WinREInv
<1>7. /\ ~Face /\ ~local.linux => local.olddisk \in {1, 2}
      /\ ~Forcing /\ ~local.linux /\ ~Face =>
           ~g_data.bFactoryRestore /\ (~Image.old /\ Target \in Disks => Copy(before[Target]))
      /\ Face => Target # Image.home
  BY <1>1 DEF PInv, CopyInv, HomeInv, Compared
<1>8. g_data'.comefromnewhddface => g_data'.force
  BY <1>3 DEF Face
<1> QED BY <1>1, <1>3, <1>4, <1>5, <1>6, <1>7, <1>8, EarlyStep DEF Face, PartC, Target, Forcing

\* Recover_Linux looks for its disk.
LEMMA GetDestinationDiskLinuxPInv == IInv /\ PInv /\ GetDestinationDisk_Linux => PInv'
<1> SUFFICES ASSUME IInv, PInv, GetDestinationDisk_Linux PROVE PInv'
  OBVIOUS
<1>1. /\ pc = "dest" /\ pc' = "linux" /\ UNCHANGED <<machine, disk, before, local>>
      /\ g_data' = [g_data EXCEPT !.RecoverDiskNumber = DestinationLinux]
  BY DEF GetDestinationDisk_Linux
<1>2. g_data'.comefromnewhddface = g_data.comefromnewhddface
  BY <1>1 DEF IInv, Shape, DataShape, DataFields
<1>3. ~Face
  BY <1>1 DEF IInv, Way
<1> QED BY <1>1, <1>2, <1>3, UncomparedStep

\* A step from the table on.
LEMMA LateStep ==
  ASSUME IInv, PInv, DisksInv', UNCHANGED <<machine, before>>,
         g_data'.force = g_data.force, g_data'.PartC = g_data.PartC,
         g_data'.comefromnewhddface = g_data.comefromnewhddface,
         g_data'.bFactoryRestore = g_data.bFactoryRestore,
         g_data'.RecoverDiskNumber = g_data.RecoverDiskNumber,
         local'.image = local.image, local'.linux = local.linux, local'.olddisk = local.olddisk,
         pc \in {"write", "fix", "fix2", "data"}, pc' \in {"fix", "fix2", "data", "after"},
         pc' = "fix" => local'.header = Image.parts,
         \A d \in Disks : d # Target => disk'[d].table = disk[d].table,
         ~Forcing /\ ~Face /\ ~Image.old /\ Target \in Disks
           /\ disk'[Target].table # disk[Target].table => ~local.linux /\ local.olddisk = 2,
         Face /\ pc' = "fix" => disk'[Target].table = ImageTable(Image.parts),
         Face /\ pc' = "fix2" /\ Image.gpt /\ ~local'.fault => FrontInv',
         Face /\ pc' \in {"data", "after"} /\ Image.gpt /\ ~local'.fault =>
           WinREThere(disk'[Target].table, local'.header)
  PROVE  PInv'
<1>1. /\ Image' = Image /\ Disks' = Disks /\ Target' = Target /\ Face' = Face
      /\ Forcing' = Forcing /\ PartC' = PartC /\ Header' = local'.header
  BY DEF Image, Disks, NDisks, Target, Face, Forcing, PartC, Header
<1>2. StartInv'
  BY <1>1 DEF PInv, StartInv, Unwritten
<1>3. CopyInv'
  <2>1. Face => Forcing
    BY DEF PInv, CopyInv, Compared
  <2>2. ~Face /\ ~local.linux => local.olddisk \in {1, 2}
    BY DEF PInv, CopyInv, Compared
  <2>3. ~Forcing /\ ~local.linux /\ ~Face =>
          /\ ~g_data.bFactoryRestore
          /\ ~Image.old /\ Target \in Disks => Copy(before[Target])
    BY DEF PInv, CopyInv, Compared
  <2>4. /\ Copy(before[Target])' <=> Copy(before[Target])
        /\ \A d : Copy(before[d])' <=> Copy(before[d])
    BY <1>1, SameCopy
  <2>5. UnforcedKeepsTable'
    <3> SUFFICES ASSUME ~Forcing, ~Image.old, NEW d \in Disks, disk'[d].table # before[d].table
                 PROVE  d = Target /\ local.olddisk = 2 /\ Copy(before[d])
      BY <1>1, <2>4 DEF UnforcedKeepsTable
    <3>1. CASE disk[d].table = before[d].table
      <4>1. d = Target
        BY <3>1
      <4> QED BY <2>1, <2>3, <3>1, <4>1
    <3>2. CASE disk[d].table # before[d].table
      <4>1. pc # "write"
        BY <3>2 DEF PInv, StartInv, Unwritten
      <4> QED BY <3>2, <4>1 DEF PInv, CopyInv, UnforcedKeepsTable, Restoring
    <3> QED BY <3>1, <3>2
  <2> QED BY <1>1, <2>1, <2>2, <2>3, <2>4, <2>5 DEF CopyInv
<1>4. WinREInv'
  <2>1. Face => Image.used # 0 /\ PartC.begin = OSPart(Image.parts).begin
    BY DEF PInv, WinREInv
  <2>2. Face => WinREOnEntry'
    BY <1>1 DEF WinREOnEntry, WinREThere
  <2> QED BY <1>1, <2>1, <2>2 DEF WinREInv
<1>5. HomeInv'
  <2>1. /\ \E k \in DOMAIN before[Image.home].table : before[Image.home].table[k].key = Image.place
        /\ Face => Target # Image.home
    BY DEF PInv, HomeInv, Compared
  <2>2. \A d \in Disks : d # Target => disk[d].table = before[d].table
    BY DEF PInv, HomeInv, StartInv, Restoring, Unwritten
  <2> QED BY <1>1, <2>1, <2>2 DEF HomeInv
<1> QED BY <1>2, <1>3, <1>4, <1>5 DEF PInv

\* A copy of the disk of the image has a table of its kind: the GUIDs tell.
LEMMA CopyKind ==
  ASSUME machine \in Machines, local.image \in DOMAIN machine.images, NEW d, Sound(disk[d]),
         Copy(disk[d])
  PROVE  IsGptSystem(d) = Image.gpt
<1> DEFINE x == disk[d]
           t == x.table
<1>1. /\ Image.gpt \in BOOLEAN /\ Told(x, Keys(t), Image)
      /\ \E k \in DOMAIN Image.parts : Image.parts[k].saved
  BY MachinesAssumption DEF Image, Sound
<1>2. PICK i \in DOMAIN Image.parts : Image.parts[i].saved
  BY <1>1
<1> DEFINE q == Image.parts[i]
<1>3. /\ \E e \in Range(t) : e.begin = q.begin
      /\ \/ x.guid = Image.guid
         \/ \E e \in Range(t) : e.key = q.key
  BY <1>2 DEF Copy, SavedParts
<1>4. q.key \in Keys(Image.parts)
  BY <1>2 DEF Keys
<1>5. \A e \in Range(t) : e.key \in Keys(t)
  BY DEF Range, Keys
<1> HIDE DEF q
<1>6. x.gpt = Image.gpt
  BY <1>1, <1>3, <1>4, <1>5 DEF Told
<1>7. t # <<>>
  <2>1. Range(<<>>) = {}
    BY DEF Range
  <2> QED BY <1>3, <2>1
<1> QED BY <1>1, <1>6, <1>7 DEF IsGptSystem

\* RestoreTable: when nobody forces it, the table of the image goes to another disk than
\* the one it was made of.
LEMMA RestoreTablePInv == IInv /\ PInv /\ RestoreTable => PInv'
<1> SUFFICES ASSUME IInv, PInv, RestoreTable PROVE PInv'
  OBVIOUS
<1> DEFINE changed == local.changed \/ RecheckPartitionTable \/ (Forcing /\ ~Face)
           whole == WholeTable(changed)
           r == TableOfImage(disk[Target])
<1>1. /\ pc = "write" /\ pc' = "fix" /\ UNCHANGED <<machine, g_data, before>>
      /\ disk' = IF whole THEN [disk EXCEPT ![Target] = r] ELSE disk
      /\ local' = [local EXCEPT !.changed = changed, !.written = whole]
  BY DEF RestoreTable
<1>2. Face => whole
  <2>1. Face => changed
    BY <1>1 DEF IInv, FaceInv
  <2> HIDE DEF changed
  <2> QED BY <2>1 DEF WholeTable
<1>3. /\ Shape /\ ~local.linux /\ (Face => Target \in Disks) /\ machine \in Machines
      /\ local.image \in DOMAIN machine.images /\ Header = Image.parts /\ disk = before
      /\ DisksInv
  BY <1>1 DEF IInv, Way, FaceInv, PInv, StartInv, Unwritten
<1>4. ASSUME whole, ~Forcing, ~Face, ~Image.old, Target \in Disks
      PROVE  local.olddisk = 2
  <2>1. ~g_data.bFactoryRestore /\ Copy(disk[Target]) /\ local.olddisk \in {1, 2}
    BY <1>1, <1>3, <1>4 DEF PInv, CopyInv, Compared
  <2>2. IsGptSystem(Target) = Image.gpt
    <3>1. Sound(disk[Target])
      BY <1>3, <1>4 DEF DisksInv, Sound
    <3> QED BY <1>3, <2>1, <3>1, CopyKind
  <2> HIDE DEF changed
  <2> QED BY <1>4, <2>1, <2>2 DEF WholeTable
<1>5. Target \in Disks => Sound(r) /\ r.table = ImageTable(Image.parts)
  <2>1. Target \in Disks => DiskFields \subseteq DOMAIN disk[Target]
    BY <1>3 DEF Shape, DiskShape
  <2> QED BY <1>3, <2>1, SoundImage
<1> HIDE DEF changed, whole, r
<1>6. /\ local'.image = local.image /\ local'.linux = local.linux
      /\ local'.olddisk = local.olddisk /\ local'.header = Image.parts
  BY <1>1, <1>3 DEF Shape, LocalFields, Header
<1>7. /\ DisksInv' /\ \A d \in Disks : d # Target => disk'[d].table = disk[d].table
      /\ whole /\ Target \in Disks => disk'[Target].table = ImageTable(Image.parts)
      /\ ~whole => disk' = disk
  <2>1. CASE whole
    <3>1. disk' = [disk EXCEPT ![Target] = r]
      BY <1>1, <2>1
    <3>2. /\ DisksInv' /\ (Target \in Disks => disk'[Target] = r)
          /\ \A d \in Disks : d # Target => disk'[d] = disk[d]
      BY <1>1, <1>3, <1>5, <3>1, SoundTouch
    <3> QED BY <1>5, <2>1, <3>2
  <2>2. CASE ~whole
    BY <1>1, <1>3, <2>2, SoundDisks
  <2> QED BY <2>1, <2>2
<1> QED BY <1>1, <1>2, <1>3, <1>4, <1>6, <1>7, LateStep

\* FixNewHDD or FixMbr, as the disk is.
LEMMA FixHddKeeps ==
  ASSUME TableShape(disk[Target].table), NEW state, NEW w, NEW junk \in Junk
  PROVE  /\ KeptOn(disk[Target], FixHdd(state, w, junk).table)
         /\ disk[Target].gpt =>
              /\ FixHdd(state, w, junk).header = Header
              /\ \A k \in 1..(EntryAt(disk[Target].table, PartC.begin) - 1) :
                   /\ k \in DOMAIN FixHdd(state, w, junk).table
                   /\ FixHdd(state, w, junk).table[k] = disk[Target].table[k]
<1> DEFINE t == disk[Target].table
           hdd == FixNewHDD(t, Header, PartC.begin, PartC.total, state, w, Total, junk)
           mbr == FixMbr(t, Header, PartC.begin, PartC.total, Total)
<1>1. /\ TableShape(hdd.table)
      /\ Keys(hdd.table) \subseteq Keys(t) \cup {NewKey} \cup BeyondKeys
      /\ \A k \in 1..(EntryAt(t, PartC.begin) - 1) : k \in DOMAIN hdd.table /\ hdd.table[k] = t[k]
  BY HddKeeps
<1>2. Kept(mbr.table, t)
  BY MbrKeeps
<1>3. hdd.header = Header
  BY DEF FixNewHDD, Unrepaired
<1>4. FixHdd(state, w, junk) = IF disk[Target].gpt THEN hdd ELSE mbr
  BY DEF FixHdd
<1> HIDE DEF hdd, mbr
<1> QED BY <1>1, <1>2, <1>3, <1>4 DEF Kept, KeptOn

\* What holds when the table is repaired, and what a repair keeps of it.
LEMMA RepairPInv ==
  ASSUME IInv, PInv, NEW fix, NEW both, Repair(fix, both), pc \in {"fix", "fix2"},
         Target \in Disks => KeptOn(disk[Target], fix.table)
  PROVE  /\ DisksInv' /\ UNCHANGED <<machine, before>>
         /\ local'.image = local.image /\ local'.linux = local.linux
         /\ local'.olddisk = local.olddisk
         /\ \A d \in Disks : d # Target => disk'[d].table = disk[d].table
         /\ ~local'.fault => ~local.fault /\ local'.header = fix.header
         /\ ~local'.fault /\ Target \in Disks => disk'[Target].table = fix.table
<1>1. Shape /\ DisksInv /\ machine \in Machines
  BY DEF IInv, PInv, StartInv
<1>2. /\ UNCHANGED <<machine, wanted>>
      /\ local'.image = local.image /\ local'.linux = local.linux
  BY <1>1, RepairEffect
<1>3. /\ DisksInv' /\ \A d \in Disks : d # Target => disk'[d] = disk[d]
      /\ ~local'.fault => ~local.fault /\ local'.header = fix.header
      /\ ~local'.fault /\ Target \in Disks => disk'[Target].table = fix.table
      /\ UNCHANGED before /\ local'.olddisk = local.olddisk
  BY <1>1, SoundRepair
<1> QED BY <1>2, <1>3

\* The new disk while its table is repaired.
LEMMA NewDiskPInv ==
  ASSUME IInv, PInv, Face, pc \in {"fix", "fix2"}
  PROVE  /\ Forcing /\ Target \in Disks /\ disk[Target].gpt = Image.gpt /\ Shape
         /\ TableShape(disk[Target].table) /\ ~local.linux
         /\ Image.parts \in Seq(Part) /\ WindowsImage(Image.parts)
         /\ PartC.begin = OSPart(Image.parts).begin
<1>1. /\ Forcing /\ Target \in Disks /\ disk[Target].gpt = Image.gpt /\ Shape /\ ~local.linux
  BY DEF IInv, Way, FaceInv, PInv, CopyInv, Compared
<1>2. TableShape(disk[Target].table)
  BY <1>1 DEF PInv, DisksInv
<1>3. /\ machine \in Machines /\ local.image \in DOMAIN machine.images
      /\ Image.used # 0 /\ PartC.begin = OSPart(Image.parts).begin
  BY DEF PInv, StartInv, WinREInv
<1>4. Image.parts \in Seq(Part) /\ WindowsImage(Image.parts)
  BY <1>3, MachinesAssumption DEF Image
<1> QED BY <1>1, <1>2, <1>3, <1>4

\* FixNoDataPartTable puts WinRE where the header says.
LEMMA FixNoDataPInv == IInv /\ PInv /\ FixNoData => PInv'
<1> SUFFICES ASSUME IInv, PInv, FixNoData PROVE PInv'
  OBVIOUS
<1>1. /\ pc = "fix" /\ Face /\ pc' = "data"
      /\ \E a, b : g_data' = [g_data EXCEPT !.WinREState = a, !.wireTotalSectors = b]
  BY DEF FixNoData
<1>2. /\ Forcing /\ Target \in Disks /\ disk[Target].gpt = Image.gpt /\ Shape
      /\ TableShape(disk[Target].table) /\ ~local.linux
      /\ Image.parts \in Seq(Part) /\ WindowsImage(Image.parts)
      /\ PartC.begin = OSPart(Image.parts).begin
  BY <1>1, NewDiskPInv
<1>3. Header = Image.parts /\ disk[Target].table = ImageTable(Image.parts)
  BY <1>1 DEF PInv, StartInv, WinREInv
<1>4. PICK fix, both : /\ Repair(fix, both) /\ KeptOn(disk[Target], fix.table)
                       /\ disk[Target].gpt => WinREThere(fix.table, fix.header)
  <2> DEFINE w == GetWirePartSector(Header)
             noData == FixNoDataPartTable(disk[Target].table, Header, PartC.begin, PartC.total, w, Total)
             hdd == FixHdd(NewWinREState, 0, <<>>)
  <2>1. IF disk[Target].gpt THEN Repair(noData, TRUE) ELSE Repair(hdd, FALSE)
    BY DEF FixNoData
  <2>2. KeptOn(disk[Target], noData.table)
    BY <1>2, NoDataKeeps, KeptIsKeptOn
  <2>3. WinREThere(noData.table, noData.header)
    BY <1>2, <1>3, NoDataWinRE
  <2>4. KeptOn(disk[Target], hdd.table)
    <3>1. <<>> \in Junk
      BY DEF Junk
    <3> QED BY <1>2, <3>1, FixHddKeeps
  <2> HIDE DEF noData, hdd
  <2> QED BY <2>1, <2>2, <2>3, <2>4
<1>5. /\ g_data'.force = g_data.force /\ g_data'.PartC = g_data.PartC
      /\ g_data'.comefromnewhddface = g_data.comefromnewhddface
      /\ g_data'.bFactoryRestore = g_data.bFactoryRestore
      /\ g_data'.RecoverDiskNumber = g_data.RecoverDiskNumber
  BY <1>1, <1>2, NotedFields
<1>6. /\ DisksInv' /\ UNCHANGED <<machine, before>>
      /\ local'.image = local.image /\ local'.linux = local.linux
      /\ local'.olddisk = local.olddisk
      /\ \A d \in Disks : d # Target => disk'[d].table = disk[d].table
      /\ ~local'.fault => disk'[Target].table = fix.table /\ local'.header = fix.header
  BY <1>1, <1>2, <1>4, RepairPInv
<1> QED BY <1>1, <1>2, <1>4, <1>5, <1>6, LateStep

\* FixNewHDD leaves what is in front of C alone.
LEMMA FixNewPInv == IInv /\ PInv /\ FixNew => PInv'
<1> SUFFICES ASSUME IInv, PInv, FixNew PROVE PInv'
  OBVIOUS
<1> PICK junk \in Junk : Repair(FixHdd(NewWinREState, GetWirePartSector(Header), junk), FALSE)
  BY DEF FixNew
<1> DEFINE fix == FixHdd(NewWinREState, GetWirePartSector(Header), junk)
<1>1. /\ pc = "fix" /\ Face /\ pc' = "fix2" /\ Repair(fix, FALSE)
      /\ \E a, b : g_data' = [g_data EXCEPT !.WinREState = a, !.wireTotalSectors = b]
  BY DEF FixNew
<1>2. /\ Forcing /\ Target \in Disks /\ disk[Target].gpt = Image.gpt /\ Shape
      /\ TableShape(disk[Target].table) /\ ~local.linux
  BY <1>1, NewDiskPInv
<1>3. Header = Image.parts /\ disk[Target].table = ImageTable(Image.parts)
  BY <1>1 DEF PInv, StartInv, WinREInv
<1>4. /\ KeptOn(disk[Target], fix.table)
      /\ disk[Target].gpt =>
           /\ fix.header = Header
           /\ \A k \in 1..(EntryAt(disk[Target].table, PartC.begin) - 1) :
                k \in DOMAIN fix.table /\ fix.table[k] = disk[Target].table[k]
  BY <1>2, FixHddKeeps
<1> HIDE DEF fix
<1>5. /\ g_data'.force = g_data.force /\ g_data'.PartC = g_data.PartC
      /\ g_data'.comefromnewhddface = g_data.comefromnewhddface
      /\ g_data'.bFactoryRestore = g_data.bFactoryRestore
      /\ g_data'.RecoverDiskNumber = g_data.RecoverDiskNumber
  BY <1>1, <1>2, NotedFields
<1>6. /\ DisksInv' /\ UNCHANGED <<machine, before>>
      /\ local'.image = local.image /\ local'.linux = local.linux
      /\ local'.olddisk = local.olddisk
      /\ \A d \in Disks : d # Target => disk'[d].table = disk[d].table
      /\ ~local'.fault => disk'[Target].table = fix.table /\ local'.header = fix.header
  BY <1>1, <1>2, <1>4, RepairPInv
<1>7. Image.gpt /\ ~local'.fault => FrontInv'
  <2>1. Image' = Image /\ Target' = Target /\ PartC' = PartC /\ Header' = local'.header
    BY <1>5, <1>6 DEF Image, Target, PartC, Header
  <2> QED BY <1>2, <1>3, <1>4, <1>6, <2>1 DEF FrontInv
<1> QED BY <1>1, <1>2, <1>5, <1>6, <1>7, LateStep

\* FixNewHDDPartitionTable puts WinRE where the header says, or leaves it in front of C.
LEMMA FixTablePInv == IInv /\ PInv /\ FixTable => PInv'
<1> SUFFICES ASSUME IInv, PInv, FixTable PROVE PInv'
  OBVIOUS
<1>1. /\ pc = "fix2" /\ Face /\ pc' = "data" /\ g_data' = g_data
  BY DEF FixTable, IInv, Way
<1>2. /\ Forcing /\ Target \in Disks /\ disk[Target].gpt = Image.gpt /\ Shape
      /\ TableShape(disk[Target].table) /\ ~local.linux
      /\ Image.parts \in Seq(Part) /\ WindowsImage(Image.parts)
      /\ PartC.begin = OSPart(Image.parts).begin
  BY <1>1, NewDiskPInv
<1>3. CASE disk[Target].gpt
  <2> DEFINE new == FixNewHDDPartitionTable(disk[Target].table, Header,
                                            g_data.wireTotalSectors, Total)
             fix == [table |-> new.table, header |-> new.header,
                     fixSmallc |-> local.fixSmallc]
  <2>1. Repair(fix, TRUE)
    BY <1>3 DEF FixTable
  <2>2. KeptOn(disk[Target], new.table)
    BY <1>2, TableKeeps, KeptIsKeptOn
  <2>3. ~local.fault => WinREThere(new.table, new.header)
    <3> SUFFICES ASSUME ~local.fault PROVE WinREThere(new.table, new.header)
      OBVIOUS
    <3>1. FrontInv
      BY <1>1, <1>2, <1>3 DEF PInv, WinREInv
    <3>2. /\ Header = Image.parts
          /\ \A k \in 1..(EntryAt(ImageTable(Image.parts), OSPart(Image.parts).begin) - 1) :
               /\ k \in DOMAIN disk[Target].table
               /\ disk[Target].table[k] = ImageTable(Image.parts)[k]
      BY <1>2, <3>1 DEF FrontInv
    <3> QED BY <1>2, <3>2, MovedWinRE
  <2>4. fix.table = new.table /\ fix.header = new.header
    OBVIOUS
  <2> HIDE DEF new, fix
  <2>5. /\ DisksInv' /\ UNCHANGED <<machine, before>>
        /\ local'.image = local.image /\ local'.linux = local.linux
        /\ local'.olddisk = local.olddisk
        /\ \A d \in Disks : d # Target => disk'[d].table = disk[d].table
        /\ ~local'.fault => ~local.fault /\ local'.header = fix.header
        /\ ~local'.fault => disk'[Target].table = fix.table
    BY <1>1, <1>2, <2>1, <2>2, <2>4, RepairPInv
  <2> QED BY <1>1, <1>2, <2>3, <2>4, <2>5, LateStep
<1>4. CASE ~disk[Target].gpt
  <2>1. UNCHANGED <<machine, disk, local, before>>
    BY <1>4 DEF FixTable
  <2>2. DisksInv'
    BY <2>1, SoundDisks DEF PInv
  <2> QED BY <1>1, <1>2, <1>4, <2>1, <2>2, LateStep
<1> QED BY <1>3, <1>4

\* The repair for another disk.
LEMMA FixOtherPInv == IInv /\ PInv /\ FixOther => PInv'
<1> SUFFICES ASSUME IInv, PInv, FixOther PROVE PInv'
  OBVIOUS
<1> PICK junk \in Junk : Repair(FixHdd(g_data.WinREState, g_data.wireTotalSectors, junk), FALSE)
  BY DEF FixOther
<1> DEFINE fix == FixHdd(g_data.WinREState, g_data.wireTotalSectors, junk)
<1>1. /\ pc = "fix" /\ ~Face /\ pc' = "data" /\ g_data' = g_data /\ local.olddisk = 2
      /\ Repair(fix, FALSE) /\ ~local.linux
  BY DEF FixOther, IInv, Way
<1>2. Target \in Disks => KeptOn(disk[Target], fix.table)
  BY FixHddKeeps DEF PInv, DisksInv
<1> HIDE DEF fix
<1>3. /\ DisksInv' /\ UNCHANGED <<machine, before>>
      /\ local'.image = local.image /\ local'.linux = local.linux
      /\ local'.olddisk = local.olddisk
      /\ \A d \in Disks : d # Target => disk'[d].table = disk[d].table
  BY <1>1, <1>2, RepairPInv
<1> QED BY <1>1, <1>3, LateStep

\* No repair.
LEMMA NothingToFixPInv == IInv /\ PInv /\ NothingToFix => PInv'
<1> SUFFICES ASSUME IInv, PInv, NothingToFix PROVE PInv'
  OBVIOUS
<1>1. /\ pc = "fix" /\ ~Face /\ pc' = "data"
      /\ UNCHANGED <<machine, disk, g_data, local, before>>
  BY DEF NothingToFix
<1>2. DisksInv'
  BY <1>1, SoundDisks DEF PInv
<1> QED BY <1>1, <1>2, LateStep

\* A step that leaves table, kind and GUID of the disk.
LEMMA SameTable ==
  ASSUME IInv, PInv, machine' = machine, NEW r,
         Target \in Disks => /\ r.table = disk[Target].table /\ r.gpt = disk[Target].gpt
                             /\ r.guid = disk[Target].guid,
         disk' = [disk EXCEPT ![Target] = r]
  PROVE  DisksInv' /\ \A d \in Disks : disk'[d].table = disk[d].table
<1>1. Shape /\ DisksInv
  BY DEF IInv, PInv
<1>2. Target \in Disks => Sound(r)
  <2>1. Target \in Disks => Sound(disk[Target])
    BY <1>1 DEF DisksInv, Sound
  <2> QED BY <2>1, SoundSame
<1>3. /\ DisksInv' /\ (Target \in Disks => disk'[Target] = r)
      /\ \A d \in Disks : d # Target => disk'[d] = disk[d]
  BY <1>1, <1>2, SoundTouch
<1> QED BY <1>3

\* What the data and the size of C leave of the record of a disk.
LEMMA DataFieldsOfDisk ==
  ASSUME IInv, Target \in Disks,
         NEW r, r \in {Emptied(disk[Target]), Filled(disk[Target])}
                \/ \E size : r = Patched(disk[Target], size)
  PROVE  /\ r.table = disk[Target].table /\ r.gpt = disk[Target].gpt
         /\ r.guid = disk[Target].guid
<1>1. DiskFields \subseteq DOMAIN disk[Target]
  BY DEF IInv, Shape, DiskShape
<1> DEFINE x == disk[Target]
<1>2. \A v, l : LET y == [[x EXCEPT !.vols = v] EXCEPT !.lock = l]
                IN y.table = x.table /\ y.gpt = x.gpt /\ y.guid = x.guid
  BY <1>1 DEF DiskFields
<1>3. \A v, l, w : LET y == [[[x EXCEPT !.vols = v] EXCEPT !.lock = l] EXCEPT !.vols = w]
                   IN y.table = x.table /\ y.gpt = x.gpt /\ y.guid = x.guid
  BY <1>1 DEF DiskFields
<1>4. \A v : LET y == [x EXCEPT !.vols = v]
             IN y.table = x.table /\ y.gpt = x.gpt /\ y.guid = x.guid
  BY <1>1 DEF DiskFields
<1>5. CASE r = Emptied(x)
  BY <1>2, <1>5 DEF Emptied
<1>6. CASE r = Filled(x)
  BY <1>3, <1>6 DEF Filled, Emptied
<1>7. CASE \E size : r = Patched(x, size)
  BY <1>4, <1>7 DEF Patched
<1> QED BY <1>5, <1>6, <1>7

\* The data changes no table.
LEMMA RestoreDataPInv == IInv /\ PInv /\ RestoreData => PInv'
<1> SUFFICES ASSUME IInv, PInv, RestoreData PROVE PInv'
  OBVIOUS
<1> DEFINE r == Filled(disk[Target])
<1>1. /\ pc = "data" /\ pc' = "after" /\ disk' = [disk EXCEPT ![Target] = r]
      /\ UNCHANGED <<machine, g_data, local, before>>
  BY DEF RestoreData
<1>2. Target \in Disks => /\ r.table = disk[Target].table /\ r.gpt = disk[Target].gpt
                          /\ r.guid = disk[Target].guid
  BY DataFieldsOfDisk
<1> HIDE DEF r
<1>3. DisksInv' /\ \A d \in Disks : disk'[d].table = disk[d].table
  BY <1>1, <1>2, SameTable
<1>4. Face /\ Image.gpt /\ ~local.fault => WinREThere(disk'[Target].table, local.header)
  <2>1. Face => Target \in Disks /\ WinREOnEntry
    BY <1>1 DEF IInv, FaceInv, PInv, WinREInv
  <2> QED BY <1>1, <1>3, <2>1 DEF WinREOnEntry, WinREThere, Header
<1> QED BY <1>1, <1>3, <1>4, LateStep

\* Broken off.
LEMMA BreakOffPInv == IInv /\ PInv /\ BreakOff => PInv'
<1> SUFFICES ASSUME IInv, PInv, BreakOff PROVE PInv'
  OBVIOUS
<1>1. /\ disk' = [disk EXCEPT ![Target] = Emptied(disk[Target])] /\ machine' = machine
      /\ \E data : Return(data)
  BY DEF BreakOff, Done
<1>2. DisksInv'
  BY <1>1, DataFieldsOfDisk, SameTable
<1> QED BY <1>1, <1>2, ReturnPInv

\* Done.
LEMMA FinishPInv == IInv /\ PInv /\ Finish => PInv'
<1> SUFFICES ASSUME IInv, PInv, Finish PROVE PInv'
  OBVIOUS
<1>1. /\ machine' = machine /\ \E data : Return(data)
      /\ disk' = disk \/ \E size : disk' = [disk EXCEPT ![Target] = Patched(disk[Target], size)]
  BY DEF Finish, Done
<1>2. DisksInv'
  <2>1. CASE disk' = disk
    BY <1>1, <2>1, SoundDisks DEF PInv
  <2>2. ASSUME NEW size, disk' = [disk EXCEPT ![Target] = Patched(disk[Target], size)]
        PROVE  DisksInv'
    BY <1>1, <2>2, DataFieldsOfDisk, SameTable
  <2> QED BY <1>1, <2>1, <2>2
<1> QED BY <1>1, <1>2, ReturnPInv

\* Recover_Linux writes a table only when it has forced that.
LEMMA RestoreTableLinuxPInv == IInv /\ PInv /\ RestoreTable_Linux => PInv'
<1> SUFFICES ASSUME IInv, PInv, RestoreTable_Linux PROVE PInv'
  OBVIOUS
<1> DEFINE r == TableOfImage(disk[Target])
<1>1. /\ pc = "linux" /\ pc' = "data" /\ (ChangedLinux => Forced)
      /\ g_data' = [g_data EXCEPT !.force = Forced]
      /\ disk' = IF ChangedLinux THEN [disk EXCEPT ![Target] = r] ELSE disk
      /\ \E c, w, a : local' = [local EXCEPT !.changed = c, !.written = w, !.asked = a]
      /\ UNCHANGED <<machine, before>>
  BY DEF RestoreTable_Linux
<1>2. /\ Shape /\ local.linux /\ ~Face /\ machine \in Machines /\ disk = before /\ DisksInv
      /\ local.image \in DOMAIN machine.images /\ Header = Image.parts
  BY <1>1 DEF IInv, Way, PInv, StartInv, Unwritten
<1>3. Target \in Disks => Sound(r)
  <2>1. Target \in Disks => DiskFields \subseteq DOMAIN disk[Target]
    BY <1>2 DEF Shape, DiskShape
  <2> QED BY <1>2, <2>1, SoundImage
<1> HIDE DEF r
<1>4. g_data'.force = Forced /\ g_data'.comefromnewhddface = g_data.comefromnewhddface
  BY <1>1, <1>2 DEF Shape, DataShape, DataFields
<1>5. local'.image = local.image /\ local'.linux
  BY <1>1, <1>2 DEF Shape, LocalFields
<1>6. DisksInv'
  <2>1. CASE ChangedLinux
    BY <1>1, <1>2, <1>3, <2>1, SoundTouch
  <2>2. CASE ~ChangedLinux
    BY <1>1, <1>2, <2>2, SoundDisks
  <2> QED BY <2>1, <2>2
<1>7. StartInv'
  BY <1>1, <1>2, <1>5 DEF StartInv, Unwritten
<1>8. ~Face'
  BY <1>2, <1>4 DEF Face
<1>9. UnforcedKeepsTable'
  <2>1. ~Forcing' => disk' = before'
    BY <1>1, <1>2, <1>4 DEF Forcing
  <2> QED BY <2>1 DEF UnforcedKeepsTable
<1>10. CopyInv' /\ WinREInv'
  BY <1>1, <1>5, <1>8, <1>9 DEF CopyInv, WinREInv
<1>11. HomeInv'
  <2>1. Disks' = Disks /\ Target' = Target /\ Image' = Image
    BY <1>1, <1>2, <1>5 DEF Disks, NDisks, Target, Image, Shape, DataShape, DataFields
  <2>2. \E k \in DOMAIN before[Image.home].table : before[Image.home].table[k].key = Image.place
    BY <1>1 DEF PInv, HomeInv
  <2>3. \A d \in Disks : d # Target => disk'[d] = disk[d]
    BY <1>1, <1>2 DEF Shape, DiskShape
  <2> QED BY <1>1, <1>2, <1>8, <2>1, <2>2, <2>3 DEF HomeInv
<1> QED BY <1>6, <1>7, <1>10, <1>11 DEF PInv

\* Every step of Recover.
LEMMA RecoverPInv == IInv /\ PInv /\ Recover => PInv'
<1> SUFFICES ASSUME IInv, PInv, Recover PROVE PInv'
  OBVIOUS
<1>1. CASE GiveUp \/ NoDestination \/ RefuseUnmatched
  <2>1. \E data : Refuse(data)
    BY <1>1 DEF GiveUp, NoDestination, RefuseUnmatched
  <2> QED BY <2>1, RefusePInv
<1>2. CASE MediaGone \/ OpenImage \/ CheckDestinationDisk \/ GetDestinationDisk
  BY <1>2, MediaGonePInv, OpenImagePInv, CheckDestinationDiskPInv, GetDestinationDiskPInv
<1>3. CASE AskAboutBitLocker \/ Compare \/ Confirm
  BY <1>3, AskAboutBitLockerPInv, ComparePInv, ConfirmPInv
<1>4. CASE RestoreTable \/ FixNoData \/ FixNew \/ FixTable \/ FixOther \/ NothingToFix
  BY <1>4, RestoreTablePInv, FixNoDataPInv, FixNewPInv, FixTablePInv, FixOtherPInv,
     NothingToFixPInv
<1>5. CASE RestoreData \/ BreakOff \/ Finish
  BY <1>5, RestoreDataPInv, BreakOffPInv, FinishPInv
<1> QED BY <1>1, <1>2, <1>3, <1>4, <1>5 DEF Recover

\* Every step of Recover_Linux.
LEMMA RecoverLinuxPInv == IInv /\ PInv /\ Recover_Linux => PInv'
<1> SUFFICES ASSUME IInv, PInv, Recover_Linux PROVE PInv'
  OBVIOUS
<1>1. CASE NoDestination_Linux \/ Refuse_Linux
  <2>1. \E data : Refuse(data)
    BY <1>1 DEF NoDestination_Linux, Refuse_Linux
  <2> QED BY <2>1, RefusePInv
<1>2. CASE GetDestinationDisk_Linux \/ RestoreTable_Linux
  BY <1>2, GetDestinationDiskLinuxPInv, RestoreTableLinuxPInv
<1> QED BY <1>1, <1>2 DEF Recover_Linux

\* A step that changes nothing.
LEMMA StutterPInv == PInv /\ UNCHANGED vars => PInv'
<1> SUFFICES ASSUME PInv, UNCHANGED vars PROVE PInv'
  OBVIOUS
<1>1. /\ UNCHANGED <<machine, disk, g_data, local, pc, before>> /\ Image' = Image
      /\ Disks' = Disks /\ Target' = Target /\ Header' = Header /\ Face' = Face
      /\ Forcing' = Forcing /\ PartC' = PartC
  BY DEF vars, Image, Disks, NDisks, Target, Header, Face, Forcing, PartC
<1>2. DisksInv'
  BY <1>1, SoundDisks DEF PInv
<1>3. StartInv'
  BY <1>1 DEF PInv, StartInv
<1>4. CopyInv'
  <2>1. /\ Copy(before[Target])' <=> Copy(before[Target])
        /\ \A d : Copy(before[d])' <=> Copy(before[d])
    BY <1>1, SameCopy
  <2> QED BY <1>1, <2>1 DEF PInv, CopyInv, UnforcedKeepsTable, Restoring
<1>5. WinREInv' /\ HomeInv'
  BY <1>1 DEF PInv, WinREInv, FrontInv, WinREOnEntry, HomeInv, Restoring
<1> QED BY <1>2, <1>3, <1>4, <1>5 DEF PInv

\* Every step keeps the invariant.
LEMMA NextPInv == IInv /\ PInv /\ [Next]_vars => PInv'
BY SessionPInv, DetectNewHddFacePInv, RecoverPInv, RecoverLinuxPInv, StutterPInv
   DEF Next, Reboot

\* What is known of the disks and of the table that is written, through all the restores
\* of a session: GUIDs tell GPT from MBR, the disks stay as they were until the table is
\* written, an unforced restore goes on with a copy of the disk of the image only, and
\* the first repair of a new disk leaves the entries in front of C (Recover,
\* IfNeedRecoverPartTable, FixNewHDD).
THEOREM RestorePlanTables == Spec => [](IInv /\ PInv)
<1>1. Init => IInv /\ PInv
  BY InitIInv, InitPInv
<1>2. IInv /\ PInv /\ [Next]_vars => IInv' /\ PInv'
  BY NextIInv, NextPInv
<1> QED BY <1>1, <1>2, PTL DEF Spec

\* Recover and Recover_Linux leave the partition tables alone unless the restore is forced
\* or goes to another disk than the one the image was made of, a copy of it; then they
\* leave those of all the other disks.
THEOREM TableIsKept == Spec => []UnforcedKeepsTable
<1>1. PInv => UnforcedKeepsTable
  BY DEF PInv, CopyInv
<1> QED BY <1>1, RestorePlanTables, PTL

\* After FixNoDataPartTable, or FixNewHDD and FixNewHDDPartitionTable, the header sends
\* the data of WinRE to the first sector of a recovery partition of the new disk.
THEOREM WinREGoesToItsEntry == Spec => []WinREOnEntry
<1>1. IInv /\ PInv => WinREOnEntry
  BY DEF PInv, WinREInv, WinREOnEntry
<1> QED BY <1>1, RestorePlanTables, PTL

\* A restore to another disk than the one the image is on, as every restore to a new disk
\* is (DetectNewHddFace does not offer that disk), leaves the image where it was: no table but
\* that of the disk restored to is written, by no repair and in no order.
THEOREM ImageOnAnotherDisk == Spec => [](Face \/ Target # Image.home => ImageSurvives)
<1>1. IInv /\ PInv => (Face \/ Target # Image.home => ImageSurvives)
  <2> SUFFICES ASSUME IInv, PInv, Face \/ Target # Image.home, Restoring
               PROVE  Listed(local.image) /\ Target # Image.home
    BY DEF ImageSurvives
  <2>1. pc \notin {"menu", "reboot"}
    BY DEF Restoring
  <2>2. Target # Image.home
    BY DEF PInv, HomeInv, Compared, Restoring
  <2>3. Image.home \in Disks
    BY <2>1, MachinesAssumption DEF PInv, StartInv, Image, Disks, NDisks
  <2>4. disk[Image.home].table = before[Image.home].table
    BY <2>2, <2>3 DEF PInv, HomeInv
  <2>5. Listed(local.image)
    BY <2>1, <2>4 DEF PInv, HomeInv, Listed, Image
  <2> QED BY <2>2, <2>5
<1> QED BY <1>1, RestorePlanTables, PTL

\* The original disk, restored to without force, still has the partition the image is on:
\* its table is not written.
THEOREM ImageStaysListed ==
  Spec => [](Restoring /\ ~Forcing /\ ~Image.old /\ local.olddisk # 2 => Listed(local.image))
<1>1. IInv /\ PInv =>
        (Restoring /\ ~Forcing /\ ~Image.old /\ local.olddisk # 2 => Listed(local.image))
  <2> SUFFICES ASSUME IInv, PInv, Restoring, ~Forcing, ~Image.old, local.olddisk # 2
               PROVE  Listed(local.image)
    OBVIOUS
  <2>1. pc \notin {"menu", "reboot"}
    BY DEF Restoring
  <2>2. Image.home \in Disks
    BY <2>1, MachinesAssumption DEF PInv, StartInv, Image, Disks, NDisks
  <2>3. disk[Image.home].table = before[Image.home].table
    BY <2>2 DEF PInv, CopyInv, UnforcedKeepsTable
  <2> QED BY <2>1, <2>3 DEF PInv, HomeInv, Listed, Image
<1> QED BY <1>1, RestorePlanTables, PTL
=============================================================================
