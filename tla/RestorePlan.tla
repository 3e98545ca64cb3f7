---------------------------- MODULE RestorePlan ----------------------------
(***************************************************************************)
(* A session in which images are restored: which disk a restore goes to,   *)
(* what it does to the partition table of that disk, and the flags that    *)
(* one restore leaves to the next (face.c: Face, RecoveryFace,             *)
(* DetectNewHddFace, FindNewHdd; autoface.c: AutoRestoreFace; func.c:      *)
(* Recover and Recover_Linux with all they call before and after the data).*)
(*                                                                         *)
(* A disk is its partition table and the backup of it, the Windows volumes *)
(* on it and the partitions BitLocker has locked.  The data of an image is *)
(* restored in one step: Recover models how.  Refusals that depend on what *)
(* is not modelled (memory, RAID, GSKU, NVMe) and the answers of the user  *)
(* are free choices.  Index 0 stands for the -1 of the code.               *)
(***************************************************************************)
EXTENDS TableFix, Ranks, SequencesExt

CONSTANTS
  Machines,        \* what the program may be started on
  SizeSlack,       \* 2048 * 8: disks that differ by more are not the same
  SysSlack,        \* 0x8000: C may differ by so much
  Extra,           \* EXTRA_SIZE, EXTRA_SIZE1
  MinNewDisk,      \* 4 GB: smaller disks are not offered
  MaxRounds        \* bound: restores in a session

\* The fields of a disk that a restore changes.
DiskFields == {"table", "backup", "gpt", "guid", "vols", "lock"}

Part == [type : Types, lenovo : BOOLEAN, win : BOOLEAN, saved : BOOLEAN, disk : Nat,
         key : STRING, begin : Nat, total : Nat]

\* The entries of the disk the image is of, in their order.
BackupDisk(h) == h[First(h, LAMBDA q : q.saved)].disk
Own(h) == {i \in DOMAIN h : h[i].disk = BackupDisk(h)}
EntryOf(q) == [type |-> q.type, key |-> q.key, begin |-> q.begin,
               end |-> q.begin + q.total - 1]
ImageTable(h) == [k \in 1..Cardinality(Own(h)) |-> EntryOf(h[Nth(Own(h), k)])]

\* IsGPT, ParseGPTInfo: the GUIDs of a GPT disk and of its partitions are told from what
\* stands for them on an MBR disk, zeros and the signature.
Keys(s) == {s[k].key : k \in DOMAIN s}
Told(x, keys, im) ==
  x.gpt # im.gpt => x.guid # im.guid /\ keys \cap Keys(im.parts) = {}

\* ProbeSystemPartition: only partitions of the disk with Windows are saved.  They were
\* listed in the order they have on it.
WindowsImage(h) ==
  /\ OS(h) # 0 /\ h[OS(h)].type = "basic"
  /\ \A i \in DOMAIN h : h[i].saved => i \in Own(h)
  /\ \A i, j \in Own(h) : i < j => h[i].begin < h[j].begin

ASSUME MachinesAssumption ==
  \A m \in Machines :
    /\ DOMAIN m.disk = 1..Len(m.sn)
    /\ \A d \in DOMAIN m.disk : /\ DiskFields \subseteq DOMAIN m.disk[d]
                                /\ m.disk[d].table \in Seq(Entry)
    /\ Len(m.images) \in Nat /\ DOMAIN m.images = 1..Len(m.images)
    /\ \A i \in DOMAIN m.images :
         LET im == m.images[i]
         IN /\ im.parts \in Seq(Part) /\ im.home \in DOMAIN m.disk
            /\ \E k \in DOMAIN im.parts : im.parts[k].saved
            /\ im.gpt \in BOOLEAN /\ (im.used # 0 => WindowsImage(im.parts))
            /\ im.used # 0 /\ i \notin m.skip => WinRE(im.parts) # 0
            /\ NewKey \notin Keys(im.parts)
            /\ ~im.gpt => {e.key : e \in Beyond} \cap Keys(im.parts) = {}
            /\ \A d \in DOMAIN m.disk : Told(m.disk[d], Keys(m.disk[d].table), im)
            /\ \A j \in DOMAIN m.images : Told(m.images[j], Keys(m.images[j].parts), im)

VARIABLES
  machine,         \* serial numbers, removable disks, images, how it was started
  disk,
  g_disklist,      \* what the program has found out about the disks
  g_data,          \* the flags, and the globals of func.c
  local,           \* the variables of the restore under way
  pc, rounds,
  wanted,          \* history: who has switched forcing on
  before           \* history: the disks when the restore began

vars == <<machine, disk, g_disklist, g_data, local, pc, rounds, wanted, before>>

NDisks == Len(machine.sn)
Disks == 1..NDisks
Image == machine.images[local.image]
Header == local.header
NoPart == [begin |-> 0, total |-> 0]

\* g_data.bForceRestorePartition, bFactoryRestore, comefromnewhddface (as BOOLEANs).
Forcing == g_data.force
Face == g_data.comefromnewhddface
Target == g_data.RecoverDiskNumber
\* destdisktype is NEW_FOUND_DISK whenever comefromnewhddface is 1.
NewDisk == Face

Size(e) == e.end - e.begin + 1
Locked(d, b) == b \in disk[d].lock
Windows(d, b) == {v \in disk[d].vols : v.begin = b /\ ~Locked(d, b)}

\* GetPartitionInfo: all partitions, disk by disk.
g_Partitions ==
  FlattenSeq([d \in Disks |-> [k \in DOMAIN disk[d].table |->
    [disk |-> d, type |-> disk[d].table[k].type, key |-> disk[d].table[k].key,
     begin |-> disk[d].table[k].begin, total |-> Size(disk[d].table[k]),
     lock |-> Locked(d, disk[d].table[k].begin),
     win |-> Windows(d, disk[d].table[k].begin) # {}]]])

SumTotals(h) ==
  FoldLeft(LAMBDA n, q : n + q.total, 0, SelectSeq(h, LAMBDA q : q.saved))
SavedParts(h) == {i \in DOMAIN h : h[i].saved}

\* GetAllBackupFiles finds the images whose partition is still there.
Listed(i) ==
  LET im == machine.images[i]
  IN \E k \in DOMAIN disk[im.home].table : disk[im.home].table[k].key = im.place

Idle == [image |-> 0, header |-> <<>>, olddisk |-> 0, c_small |-> 0, changed |-> FALSE,
         fixSmallc |-> FALSE, linux |-> FALSE, asked |-> FALSE, written |-> FALSE,
         fault |-> FALSE]

Init ==
  /\ machine \in Machines
  /\ disk = machine.disk
  /\ g_disklist = [d \in Disks |-> [curdisktype |-> "data", datadisk |-> FALSE,
                                    formatted |-> machine.disk[d].table # <<>>]]
  /\ g_data = [force |-> machine.start = "force", bFactoryRestore |-> FALSE,
               comefromnewhddface |-> FALSE, selecteddisk |-> 0,
               PartC |-> NoPart, RecoverDiskNumber |-> 0, used |-> 0,
               WinREState |-> 0, wireTotalSectors |-> 0]
  /\ local = Idle /\ pc = "menu" /\ rounds = 0
  /\ wanted = (IF machine.start = "force" THEN "user" ELSE "no") /\ before = disk

bIsAutoFunc == machine.start # "menu"

-----------------------------------------------------------------------------
(***************************************************************************)
(* The session.                                                            *)
(***************************************************************************)

\* Ctrl-F.
ToggleForce ==
  /\ pc = "menu" /\ ~bIsAutoFunc
  /\ g_data' = [g_data EXCEPT !.force = ~@] /\ wanted' = (IF Forcing THEN "no" ELSE "user")
  /\ UNCHANGED <<machine, disk, g_disklist, local, pc, rounds, before>>

\* Disks without a serial number, and all disks when the image has no list of serial
\* numbers, keep the type they had.
FindNewHdd(im) ==
  [d \in Disks |->
     IF im.used = 0 \/ machine.sn[d] = 0 THEN g_disklist[d]
     ELSE [g_disklist[d] EXCEPT !.curdisktype =
             IF machine.sn[d] = im.serials[1] THEN "sys"
             ELSE IF \E k \in DOMAIN im.serials : machine.sn[d] = im.serials[k] THEN "data"
             ELSE "new"]]

Begin(i, factory) ==
  LET im == machine.images[i]
      list == FindNewHdd(im)
      new == \E d \in Disks : machine.sn[d] # 0 /\ list[d].curdisktype = "new"
  IN /\ rounds < MaxRounds /\ rounds' = rounds + 1
     /\ g_disklist' = list
     /\ g_data' = [g_data EXCEPT !.bFactoryRestore = factory, !.selecteddisk = 0,
                                 !.comefromnewhddface = FALSE, !.used = im.used]
     /\ local' = [Idle EXCEPT !.image = i, !.header = im.parts, !.asked = factory,
                              !.linux = im.used = 0 /\ ~bIsAutoFunc]
     /\ pc' = IF im.used # 0 /\ new /\ i \notin machine.skip /\ ~bIsAutoFunc THEN "face" ELSE "open"
     /\ before' = disk
     /\ UNCHANGED <<machine, disk, wanted>>

\* RecoveryFace for an image of the list.
SelectImage ==
  /\ pc = "menu" /\ ~bIsAutoFunc
  /\ \E i \in DOMAIN machine.images : Listed(i) /\ Begin(i, FALSE)

\* Ctrl-T, confirmed: the first factory backup.
FactoryRestore ==
  /\ pc = "menu" /\ ~bIsAutoFunc
  /\ LET i == Least({k \in DOMAIN machine.images : machine.images[k].factory /\ Listed(k)})
     IN i # 0 /\ Begin(i, TRUE)

\* AutoRestoreFace: the image that DetectRestoreImge finds, without DetectNewHddFace.
AutoRestore ==
  /\ pc = "menu" /\ bIsAutoFunc
  /\ \E i \in DOMAIN machine.images : Listed(i) /\ Begin(i, FALSE)

\* The way back to the menu; bFactoryRestore is reset there.
Return(data) ==
  /\ g_data' = [data EXCEPT !.bFactoryRestore = FALSE]
  /\ local' = Idle
  /\ pc' = IF bIsAutoFunc THEN "reboot" ELSE "menu"

\* GetDiskInfo and GetPartitionInfo: curdisktype and datadisk stay as they are, and a
\* disk that was formatted once stays so.
Rescan ==
  g_disklist' = [d \in Disks |-> [g_disklist[d] EXCEPT !.formatted =
                                    @ \/ disk'[d].table # <<>>]]

\* Mutant: the flag is left as it is.
DoneForced(data) ==
  /\ Return(data) /\ wanted' = (IF local.linux THEN wanted ELSE "no")
  /\ Rescan /\ UNCHANGED <<machine, rounds, before>>

\* Done: Recover resets the flag, Recover_Linux does not.
Done(data) ==
  /\ Return([data EXCEPT !.force = @ /\ local.linux])
  /\ wanted' = IF ~local.linux THEN "no" ELSE IF data.force /\ ~Forcing THEN "left" ELSE wanted
  /\ Rescan /\ UNCHANGED <<machine, rounds, before>>

-----------------------------------------------------------------------------
(***************************************************************************)
(* DetectNewHddFace: some disk was not there when the image was made.      *)
(***************************************************************************)
OSPart(h) == h[OS(h)]
PartAt(d, b) == EntryAt(disk[d].table, b)

ToOpen(data) ==
  /\ g_data' = data /\ pc' = "open"
  /\ UNCHANGED <<machine, disk, g_disklist, local, rounds, wanted, before>>

\* The choice is checked, but comefromnewhddface stays 0: Recover will look for a
\* disk by itself.
ChooseSysDisk ==
  /\ pc = "face"
  /\ \E d \in Disks :
       LET j == PartAt(d, OSPart(Header).begin)  p == disk[d].table[j]
           smaller == Size(p) < OSPart(Header).total
       IN /\ g_disklist[d].curdisktype = "sys"
          /\ ~(d = Image.home /\ Forcing /\ ~Image.factory)
          /\ j # 0 /\ (smaller => Size(p) >= Image.used + Extra)
          /\ ToOpen([g_data EXCEPT !.selecteddisk = d,
                                   !.PartC = [begin |-> p.begin, total |-> Size(p)]])

\* Mutant: the disk of the image is offered too.
ChooseNewDiskAny ==
  /\ pc = "face"
  /\ \E d \in Disks :
       /\ g_disklist[d].curdisktype = "new" /\ disk[d].total >= MinNewDisk
       /\ ToOpen([g_data EXCEPT !.selecteddisk = d,
                                !.comefromnewhddface = TRUE,
                                !.PartC = [begin |-> OSPart(Header).begin,
                                           total |-> OSPart(Header).total]])

\* CheckNewDiskPartationCSize: C is where the image has it.
ChooseNewDisk ==
  /\ pc = "face"
  /\ \E d \in Disks :
       /\ g_disklist[d].curdisktype = "new" /\ disk[d].total >= MinNewDisk
       /\ d # Image.home
       /\ SumTotals(Header) <= disk[d].total /\ Image.used + Extra <= disk[d].total
       /\ ToOpen([g_data EXCEPT !.selecteddisk = d,
                                !.comefromnewhddface = TRUE,
                                !.PartC = [begin |-> OSPart(Header).begin,
                                           total |-> OSPart(Header).total]])

CancelFace ==
  /\ pc = "face" /\ Return([g_data EXCEPT !.PartC = NoPart])
  /\ UNCHANGED <<machine, disk, g_disklist, rounds, wanted, before>>

-----------------------------------------------------------------------------
(***************************************************************************)
(* Recover: the disk to restore to.                                        *)
(***************************************************************************)

\* CheckHandleValid: an early return, the flag is kept.
MediaGone ==
  /\ pc = "open" /\ Return(g_data)
  /\ UNCHANGED <<machine, disk, rounds, wanted, before>> /\ Rescan

\* Every later refusal, failure and cancelled question goes to Done.
Refuse(data) == UNCHANGED disk /\ Done(data)

\* No memory, no file system, no header; RAID, GSKU, NVMe; the user at a question;
\* ValidImageCheckValue; the image's table cannot be read.
GiveUp == pc \in {"open", "ask", "confirm", "write"} /\ Refuse(g_data)

OpenImage ==
  /\ pc = "open" /\ pc' = IF Face THEN "chosen" ELSE "dest"
  /\ UNCHANGED <<machine, disk, g_disklist, g_data, local, rounds, wanted, before>>

CheckDestinationDisk ==
  /\ pc = "chosen" /\ pc' = "ask"
  /\ g_data' = [g_data EXCEPT !.RecoverDiskNumber = g_data.selecteddisk]
  /\ UNCHANGED <<machine, disk, g_disklist, local, rounds, wanted, before>>

SysDisk == Least({d \in Disks : g_disklist[d].curdisktype = "sys"})

\* The partitions that are looked at: those of the system disk, if there is one.
Scope == SelectSeq(g_Partitions, LAMBDA p : SysDisk # 0 => p.disk = SysDisk)

\* As it was when the image was made: place, size, kind, GUID, label.
Same(p, q) == p.begin = q.begin /\ p.total = q.total /\ p.key = q.key /\ ~p.lock

FirstSame(S, q) == First(S, LAMBDA p : Same(p, q))

\* The partitions that are compared with q before the loop breaks, and those of them
\* that are C in another size.
SeenFor(S, q) == IF FirstSame(S, q) = 0 THEN DOMAIN S ELSE 1..(FirstSame(S, q) - 1)
Resized(S, q) == {j \in SeenFor(S, q) : q.win /\ S[j].begin = q.begin}

Greatest(S) == CHOOSE j \in S : \A k \in S : k <= j
Ends(p) == [begin |-> p.begin, total |-> p.total]

\* One partition q of the header against all there are.
Visit(s, q) ==
  LET S == Scope
      C == Resized(S, q)  c == S[Greatest(C)]
      f == FirstSame(S, q)
      s1 == IF q.win /\ ~s.findc /\ SeenFor(S, q) # {} THEN [s EXCEPT !.PartC = Ends(q)]
            ELSE s
      s2 == IF C = {} THEN s1
            ELSE [s1 EXCEPT !.dest = c.disk, !.old = TRUE, !.findc = TRUE,
                            !.PartC = Ends(c),
                            !.small = IF c.total > q.total THEN 2
                                      ELSE IF c.total < q.total THEN 1 ELSE @]
      s3 == [s2 EXCEPT !.old = TRUE, !.findc = TRUE,
                       !.dest = IF q.saved /\ @ = 0 /\ ~machine.removable[S[f].disk]
                                  THEN S[f].disk ELSE @]
  IN IF q.saved /\ q.disk # BackupDisk(Header) THEN s ELSE IF f = 0 THEN s2 ELSE s3

Search ==
  FoldLeft(Visit, [dest |-> 0, old |-> FALSE, findc |-> FALSE, small |-> 0,
                   PartC |-> g_data.PartC], Header)

\* What the loop asks or refuses when it meets C in another size.
CSizes == UNION {{[now |-> Scope[j], then |-> Header[i]] : j \in Resized(Scope, Header[i])} :
                   i \in DOMAIN Header}
ResizedLocked ==
  \E c \in CSizes : /\ c.now.lock
                    /\ \/ c.now.total < c.then.total - SysSlack
                       \/ c.then.total < c.now.total - SysSlack
MuchSmaller(c) == c.now.total < c.then.total - SysSlack /\ g_data.used # 0
TooSmall ==
  \E c \in CSizes : /\ MuchSmaller(c)
                    /\ \/ /\ g_data.used + Extra < c.then.total
                          /\ c.now.total < g_data.used + Extra
                       \/ c.then.total < g_data.used + Extra

\* A disk too small for the data is no candidate; one of another size is.
Fits(h, d) == SumTotals(h) < disk[d].total
SameSize(d) == /\ Image.disksize <= disk[d].total + SizeSlack
               /\ disk[d].total <= Image.disksize + SizeSlack
Candidate(d) == IF d # 0 /\ Fits(Header, d) THEN d ELSE 0
Original(d) == IF Candidate(d) # 0 /\ SameSize(d) THEN d ELSE 0

\* Mutant: the index after the loop.
DestinationPastEnd(d) == IF Original(d) # 0 \/ bIsAutoFunc THEN Original(d) ELSE NDisks + 1

\* An automatic restore goes to the original disk or nowhere.  Otherwise: the first
\* disk that is not formatted, or the candidate, or the first disk that is large
\* enough.
Destination(d) ==
  LET eligible == {e \in Disks : /\ ~machine.removable[e]
                                 /\ g_disklist[e].curdisktype # "data"
                                 /\ disk[e].total >= SumTotals(Header)}
      blank == Least({e \in eligible : ~g_disklist[e].formatted})
  IN IF Original(d) # 0 \/ bIsAutoFunc THEN Original(d)
     ELSE IF blank # 0 THEN blank
     ELSE IF Candidate(d) # 0 THEN Candidate(d) ELSE Least(eligible)

LockedOnSysDisk == SysDisk # 0 /\ disk[SysDisk].lock # {}

\* The dialogs about BitLocker: the user forces the restore or cancels it.
AsksToForce ==
  ~Forcing /\ (ResizedLocked \/ (Original(Search.dest) = 0 /\ LockedOnSysDisk))

\* The loop's traces in g_data.
Searched(force) ==
  [g_data EXCEPT !.PartC = Search.PartC, !.force = force]

GetDestinationDisk ==
  /\ pc = "dest" /\ ~local.linux
  /\ LET force == Forcing \/ AsksToForce
         d == Destination(Search.dest)
     IN /\ TooSmall => Forcing \/ ResizedLocked
        /\ d # 0
        /\ g_data' = [Searched(force) EXCEPT !.RecoverDiskNumber = d]
        /\ local' = [local EXCEPT !.olddisk = IF Search.old THEN 1 ELSE 2,
                                  !.c_small = Search.small, !.asked = @ \/ AsksToForce]
        /\ pc' = "ask"
  /\ UNCHANGED <<machine, disk, g_disklist, rounds, wanted, before>>

NoDestination ==
  /\ pc = "dest" /\ ~local.linux
  /\ \/ AsksToForce
     \/ TooSmall /\ ~Forcing
     \/ Destination(Search.dest) = 0
  /\ Refuse([Searched(Forcing) EXCEPT !.RecoverDiskNumber = 0])

-----------------------------------------------------------------------------
(***************************************************************************)
(* Recover: may this disk take the image?                                  *)
(***************************************************************************)

\* IfDataParExistBitlocker, on whatever disk.
IfDataParExistBitlocker ==
  LET locked == SelectSeq(g_Partitions, LAMBDA p : p.lock)
      c == First(Header, LAMBDA q : q.win)
  IN \/ Len(locked) > 1
     \/ Len(locked) = 1 /\ c # 0 /\ locked[1].begin # Header[c].begin

\* An automatic restore that goes on is a forced one from here.
AskAboutBitLocker ==
  /\ pc = "ask" /\ pc' = "compare"
  /\ LET asked == ~Face /\ ~Forcing /\ bIsAutoFunc /\ IfDataParExistBitlocker
     IN /\ g_data' = [g_data EXCEPT !.force = @ \/ asked]
        /\ local' = [local EXCEPT !.asked = @ \/ asked]
  /\ UNCHANGED <<machine, disk, g_disklist, rounds, wanted, before>>

Missing == \E i \in SavedParts(Header) : PartAt(Target, Header[i].begin) = 0
Differs ==
  \E i \in SavedParts(Header) :
    LET j == PartAt(Target, Header[i].begin)
    IN ~(/\ j # 0 /\ disk[Target].table[j].key = Header[i].key
         /\ Size(disk[Target].table[j]) = Header[i].total)

\* IfNeedRecoverPartTable, after IfNeedRecoverPartTable_delete.
IfNeedRecoverPartTable(force) == force \/ NewDisk \/ Differs

\* Another Windows is installed there.
OtherWindows ==
  LET j == First(g_Partitions, LAMBDA p : p.disk = Target /\ p.win)
  IN /\ j # 0
     /\ \A v \in Windows(Target, g_Partitions[j].begin) : v.serial # Image.serial

\* Of the whole machine, not of the disk.
CheckPartitionStartPosition ==
  \E i \in DOMAIN Header, j \in DOMAIN g_Partitions :
    Header[i].win /\ g_Partitions[j].begin = Header[i].begin

\* Mutant: the GUID of the disk is not compared.
AnotherDiskAnyGuid == IfNeedRecoverPartTable(FALSE) /\ ~CheckPartitionStartPosition

AnotherDisk ==
  /\ IfNeedRecoverPartTable(FALSE)
  /\ ~CheckPartitionStartPosition \/ Image.guid # disk[Target].guid

Forced == Forcing \/ g_data.bFactoryRestore
Unmatched(unread) ==
  /\ ~Forced /\ ~Face
  /\ \/ Missing
     \/ ~Image.old /\ (AnotherDisk \/ (OtherWindows /\ ~unread))

\* When the boot sector of Windows cannot be read, its serial number is not compared.
Compare ==
  /\ pc = "compare" /\ pc' = "confirm"
  /\ \E unread \in BOOLEAN :
       /\ ~Unmatched(unread)
       /\ local' = [local EXCEPT !.changed = IfNeedRecoverPartTable(Forced),
                                 !.fault = Unmatched(FALSE)]
  /\ g_data' = [g_data EXCEPT !.force = Forced]
  /\ UNCHANGED <<machine, disk, g_disklist, rounds, wanted, before>>

RefuseUnmatched == pc = "compare" /\ Unmatched(FALSE) /\ Refuse(g_data)

\* The user agrees and ValidImageCheckValue finds nothing.
Confirm ==
  /\ pc = "confirm" /\ pc' = "write"
  /\ g_data' = [g_data EXCEPT !.force = @ \/ NewDisk]
  /\ local' = [local EXCEPT !.changed = @ \/ NewDisk, !.asked = @ \/ NewDisk]
  /\ UNCHANGED <<machine, disk, g_disklist, rounds, wanted, before>>

-----------------------------------------------------------------------------
(***************************************************************************)
(* Recover: the partition table.                                           *)
(***************************************************************************)
IsGptSystem(d) == disk[d].table # <<>> /\ disk[d].gpt

\* Entry by entry of the MBR, those of saved partitions; a GPT disk has another MBR.
RecheckPartitionTable ==
  LET image == ImageTable(Header)  now == disk[Target].table
      saved == {k \in DOMAIN image :
                  \E i \in SavedParts(Header) : /\ Header[i].begin = image[k].begin
                                                /\ Header[i].total = Size(image[k])}
  IN ~Image.gpt /\ \E k \in saved : ~(/\ ~disk[Target].gpt /\ k \in DOMAIN now
                                       /\ now[k].begin = image[k].begin
                                       /\ now[k].end = image[k].end)

\* The whole table of the image, in its first sectors: the backup table is left.
TableOfImage(d) == [d EXCEPT !.table = ImageTable(Header), !.gpt = Image.gpt,
                             !.guid = Image.guid]

WholeTable(changed) ==
  /\ \/ ~changed \/ Face \/ local.olddisk # 1
     \/ IsGptSystem(Target) # Image.gpt
     \/ Forcing
  /\ changed \/ g_data.bFactoryRestore

RestoreTable ==
  /\ pc = "write" /\ pc' = "fix"
  /\ LET changed == local.changed \/ RecheckPartitionTable \/ (Forcing /\ ~Face)
         whole == WholeTable(changed)
     IN /\ disk' = IF whole THEN [disk EXCEPT ![Target] = TableOfImage(@)] ELSE disk
        /\ local' = [local EXCEPT !.changed = changed, !.written = whole]
  /\ UNCHANGED <<machine, g_disklist, g_data, rounds, wanted, before>>

\* Mutant: the backup table is forgotten.
RetablePrimary(d, table, both) == [d EXCEPT !.table = table]

\* The first sector of what is a new partition is cleared.
Retable(d, table, both) ==
  LET begins(tab) == {tab[k].begin : k \in DOMAIN tab}
  IN [d EXCEPT !.table = table, !.backup = IF both THEN table ELSE @,
               !.vols = {v \in @ : v.begin \notin begins(table) \ begins(d.table)}]

\* A repair that cannot read the table does nothing, one that cannot write it has
\* changed the header all the same, and nobody asks.
Repair(fix, both) ==
  \E r \in {"unread", "unwritten", "half", "done"} :
    /\ disk' = IF r \in {"half", "done"}
                 THEN [disk EXCEPT ![Target] = Retable(@, fix.table, both /\ r = "done")]
                 ELSE disk
    /\ local' = [local EXCEPT !.header = IF r = "unread" THEN @ ELSE fix.header,
                              !.fixSmallc = IF r = "unread" THEN @ ELSE fix.fixSmallc,
                              !.fault = @ \/ r # "done"]
    /\ UNCHANGED <<machine, g_disklist, rounds, wanted, before>>

PartC == g_data.PartC
Total == disk[Target].total
FixHdd(state, w, junk) ==
  IF disk[Target].gpt
    THEN FixNewHDD(disk[Target].table, Header, PartC.begin, PartC.total, state, w, Total,
                   junk)
    ELSE FixMbr(disk[Target].table, Header, PartC.begin, PartC.total, Total)

NoData == IsNoDataPart(Header, Image.disksize)
NewWinREState == WinREState(Header, Image.disksize)

\* A new disk, the image without a data partition between C and WinRE.
FixNoData ==
  /\ pc = "fix" /\ Face /\ NoData /\ pc' = "data"
  /\ g_data' = [g_data EXCEPT !.WinREState = NewWinREState,
                              !.wireTotalSectors = GetWirePartSector(Header)]
  /\ IF disk[Target].gpt
       THEN Repair(FixNoDataPartTable(disk[Target].table, Header, PartC.begin, PartC.total,
                                      GetWirePartSector(Header), Total), TRUE)
       ELSE Repair(FixHdd(NewWinREState, 0, <<>>), FALSE)

\* A new disk, with one.
FixNew ==
  /\ pc = "fix" /\ Face /\ ~NoData /\ pc' = "fix2"
  /\ g_data' = [g_data EXCEPT !.WinREState = NewWinREState,
                              !.wireTotalSectors = GetWirePartSector(Header)]
  /\ \E junk \in Junk :
       Repair(FixHdd(NewWinREState, GetWirePartSector(Header), junk), FALSE)

FixTable ==
  /\ pc = "fix2" /\ pc' = "data" /\ UNCHANGED g_data
  /\ IF disk[Target].gpt
       THEN LET fix == FixNewHDDPartitionTable(disk[Target].table, Header,
                                               g_data.wireTotalSectors, Total)
            IN Repair([table |-> fix.table, header |-> fix.header,
                       fixSmallc |-> local.fixSmallc], TRUE)
       ELSE UNCHANGED <<machine, disk, g_disklist, local, rounds, wanted, before>>

\* Another disk than the one of the image: FixNewHDD with what an earlier restore has
\* left in g_WinREState and g_wireTotalSectors.
FixOther ==
  /\ pc = "fix" /\ ~Face /\ ~Forcing /\ local.olddisk = 2 /\ pc' = "data"
  /\ UNCHANGED g_data
  /\ \E junk \in Junk :
       Repair(FixHdd(g_data.WinREState, g_data.wireTotalSectors, junk), FALSE)

NothingToFix ==
  /\ pc = "fix" /\ ~Face /\ pc' = "data"
  /\ local.olddisk = 2 => Forcing
  /\ UNCHANGED <<machine, disk, g_disklist, g_data, local, rounds, wanted, before>>

-----------------------------------------------------------------------------
(***************************************************************************)
(* The data, and the size of C.                                            *)
(***************************************************************************)

\* The sectors that get data: of C those up to the last one in use.
Extent(q) == IF q.win /\ Image.used # 0 THEN Image.used ELSE q.total
Covered(b) == \E i \in SavedParts(Header) : /\ Header[i].begin <= b
                                            /\ b < Header[i].begin + Extent(Header[i])
Emptied(d) == [d EXCEPT !.vols = {v \in @ : ~Covered(v.begin)},
                        !.lock = {b \in @ : ~Covered(b)}]
Filled(d) ==
  [Emptied(d) EXCEPT !.vols = @ \cup
     {[begin |-> Header[i].begin, serial |-> Image.serial, size |-> Header[i].total] :
        i \in {k \in SavedParts(Header) : Header[k].win}}]

RestoreData ==
  /\ pc = "data" /\ pc' = "after"
  /\ disk' = [disk EXCEPT ![Target] = Filled(@)]
  /\ UNCHANGED <<machine, g_disklist, g_data, local, rounds, wanted, before>>

\* Stopped by the user, a bad image or a disk that fails.
BreakOff ==
  /\ pc = "data" /\ disk' = [disk EXCEPT ![Target] = Emptied(@)] /\ Done(g_data)

\* FixPartCSize and FixSmallDiskCSize write a size to whatever begins there.
Patched(d, size) ==
  [d EXCEPT !.vols = {IF v.begin = PartC.begin THEN [v EXCEPT !.size = size] ELSE v :
                        v \in @}]
PatchC ==
  IF local.linux \/ (Forcing /\ ~Face) THEN {}
  ELSE IF (Face \/ (local.changed /\ local.olddisk = 2)) /\ local.fixSmallc
    THEN {FixSmallDiskCSize(PartC.begin, Total)}
  ELSE IF local.changed /\ ~Face /\ local.olddisk = 1 THEN {PartC.total} ELSE {}

\* When the boot sector cannot be read or written, the size is left.
Finish ==
  /\ pc = "after"
  /\ \/ UNCHANGED disk
     \/ \E size \in PatchC : disk' = [disk EXCEPT ![Target] = Patched(@, size)]
  /\ Done(g_data)

-----------------------------------------------------------------------------
(***************************************************************************)
(* Recover_Linux: images without a list of serial numbers.                 *)
(***************************************************************************)
VisitLinux(s, q) ==
  LET f == FirstSame(g_Partitions, q)  d == g_Partitions[f].disk
      home == q.disk = BackupDisk(Header)
  IN IF f = 0 THEN s
     ELSE IF q.saved
       THEN IF home /\ s.dest = 0 /\ ~machine.removable[d] THEN [s EXCEPT !.dest = d] ELSE s
     ELSE IF home THEN s
     ELSE [dest |-> IF s.dest = d THEN 0 ELSE s.dest, datadisks |-> s.datadisks \cup {d}]

SearchLinux == FoldLeft(VisitLinux, [dest |-> 0, datadisks |-> {}], Header)

DestinationLinux ==
  LET d == SearchLinux.dest
      other == {e \in Disks : /\ ~machine.removable[e] /\ ~g_disklist[e].datadisk
                              /\ e \notin SearchLinux.datadisks}
      large == {e \in other : disk[e].total >= SumTotals(Header)}
      best == Least({e \in other : \/ e \in large /\ ~g_disklist[e].formatted
                                   \/ disk[e].total = Image.disksize})
  IN IF Candidate(d) # 0 THEN d ELSE IF best # 0 THEN best ELSE Least(large)

GetDestinationDisk_Linux ==
  /\ pc = "dest" /\ local.linux /\ DestinationLinux # 0
  /\ g_disklist' = [d \in Disks |-> [g_disklist[d] EXCEPT
                      !.datadisk = @ \/ d \in SearchLinux.datadisks]]
  /\ g_data' = [g_data EXCEPT !.RecoverDiskNumber = DestinationLinux]
  /\ pc' = "linux"
  /\ UNCHANGED <<machine, disk, local, rounds, wanted, before>>

NoDestination_Linux ==
  /\ pc = "dest" /\ local.linux /\ DestinationLinux = 0
  /\ Refuse([g_data EXCEPT !.RecoverDiskNumber = 0])

LeftByLinux == IF Forced /\ ~Forcing THEN "left" ELSE wanted

ChangedLinux == g_data.bFactoryRestore \/ Differs \/ RecheckPartitionTable

\* The user has agreed to the table of the image when it is written.
RestoreTable_Linux ==
  /\ pc = "linux" /\ (ChangedLinux => Forced) /\ pc' = "data"
  /\ g_data' = [g_data EXCEPT !.force = Forced]
  /\ disk' = IF ChangedLinux THEN [disk EXCEPT ![Target] = TableOfImage(@)] ELSE disk
  /\ local' = [local EXCEPT !.changed = ChangedLinux, !.written = ChangedLinux,
                            !.asked = @ \/ ChangedLinux]
  /\ wanted' = LeftByLinux
  /\ UNCHANGED <<machine, g_disklist, rounds, before>>

\* Also when he does not, and when a file or the disk fails: the flag that a factory
\* restore has set stays.
Refuse_Linux ==
  /\ pc = "linux"
  /\ Refuse([g_data EXCEPT !.force = Forced])

-----------------------------------------------------------------------------
Session == ToggleForce \/ SelectImage \/ FactoryRestore \/ AutoRestore
DetectNewHddFace == ChooseSysDisk \/ ChooseNewDisk \/ CancelFace
Recover_Linux ==
  GetDestinationDisk_Linux \/ NoDestination_Linux \/ RestoreTable_Linux \/ Refuse_Linux
Recover ==
  \/ MediaGone \/ GiveUp \/ OpenImage \/ CheckDestinationDisk
  \/ GetDestinationDisk \/ NoDestination
  \/ AskAboutBitLocker \/ Compare \/ RefuseUnmatched \/ Confirm
  \/ RestoreTable \/ FixNoData \/ FixNew \/ FixTable \/ FixOther \/ NothingToFix
  \/ RestoreData \/ BreakOff \/ Finish

\* After an automatic restore.
Reboot == pc = "reboot" /\ UNCHANGED vars

Next == Reboot \/ Session \/ DetectNewHddFace \/ Recover \/ Recover_Linux
Spec == Init /\ [][Next]_vars

-----------------------------------------------------------------------------
PartCs == [begin : Nat, total : Nat]
\* The types of the variables.
TypeOK ==
  /\ \A d \in Disks :
       /\ disk[d].total \in Nat /\ disk[d].gpt \in BOOLEAN
       /\ \A k \in DOMAIN disk[d].table : disk[d].table[k] \in Entry
       /\ \A k \in DOMAIN disk[d].backup : disk[d].backup[k] \in Entry
       /\ \A v \in disk[d].vols : v.begin \in Nat /\ v.size \in Nat
       /\ disk[d].lock \subseteq Nat
       /\ g_disklist[d] \in [curdisktype : {"data", "sys", "new"}, datadisk : BOOLEAN,
                             formatted : BOOLEAN]
  /\ g_data \in [force : BOOLEAN, bFactoryRestore : BOOLEAN, comefromnewhddface : BOOLEAN,
                 selecteddisk : 0..NDisks, PartC : PartCs, RecoverDiskNumber : 0..NDisks,
                 used : Nat, WinREState : 0..2, wireTotalSectors : Nat]
  /\ local.image \in 0..Len(machine.images) /\ local.olddisk \in 0..2
  /\ local.c_small \in 0..2
  /\ \A i \in DOMAIN Header : Header[i] \in Part
  /\ pc \in {"menu", "face", "open", "chosen", "dest", "ask", "compare", "confirm", "write",
             "fix", "fix2", "linux", "data", "after", "reboot"}
  /\ rounds \in 0..MaxRounds /\ wanted \in {"no", "user", "left"}

Restoring == pc \in {"fix", "fix2", "data", "after"}

\* A copy of the disk the image is of: what was saved begins where it did, and the disk
\* has its GUID or the partitions have theirs and their sizes.
Copy(d) ==
  LET now(q) == {e \in Range(d.table) : e.begin = q.begin}
      same(q) == \E e \in now(q) : e.key = q.key /\ Size(e) = q.total
  IN \A i \in SavedParts(Image.parts) :
       /\ now(Image.parts[i]) # {}
       /\ d.guid = Image.guid \/ same(Image.parts[i])

\* A restore that nobody has forced keeps the partition tables; but for that of a disk
\* that is not the one it was made of and a copy of it.
UnforcedKeepsTable ==
  Restoring /\ ~Forcing /\ ~Image.old =>
    \A d \in Disks : disk[d].table # before[d].table =>
                       d = Target /\ local.olddisk = 2 /\ Copy(before[d])

\* The table of the image replaces that of the disk only if it was asked for, and not
\* because the restore before it was.  ("left": Recover_Linux forgets to reset the flag.)
ForcedMeansAsked ==
  Restoring /\ local.written /\ Forcing => local.asked \/ wanted # "no"

\* On a new disk, the partition that gets the data of WinRE is one of the table.
\* (UpdateOKRHeaderInfo moves the first of the recovery type instead, if it is another.)
WinREOnEntry ==
  pc \in {"data", "after"} /\ Face /\ ~local.fault /\ Image.gpt =>
    LET i == WinRE(Header)
    IN i # 0 /\ Header[i].saved /\ (\A k \in 1..(i - 1) : Header[k].type # "recovery") =>
         \E k \in DOMAIN disk[Target].table :
           /\ disk[Target].table[k].type = "recovery"
           /\ disk[Target].table[k].begin = Header[i].begin

\* The two copies of the table of a new disk agree when the data is written.
TablesAgree ==
  pc \in {"data", "after"} /\ Face /\ ~local.fault /\ Image.gpt =>
    disk[Target].table = disk[Target].backup

\* Three edges GetDestinationDisk leaves open: data in the last sectors of C, which may
\* have become so much smaller, a C that had room for exactly Extra more, and any other
\* partition that has become smaller: only the size of C is looked at.
LeftOpen ==
  \/ \E i \in DOMAIN Header :
       Header[i].win /\ (\/ Image.used > Header[i].total - SysSlack
                         \/ Image.used + Extra = Header[i].total)
  \/ \E i \in SavedParts(Image.parts), e \in Range(before[Target].table) :
       /\ ~Image.parts[i].win /\ e.begin = Image.parts[i].begin
       /\ Size(e) < Image.parts[i].total

\* A restore that is not forced does not destroy the image it reads: neither the table
\* entry of its partition nor the first sector of that is overwritten, though C may
\* have been larger than it is.
ImageSurvives ==
  Restoring /\ (Forcing => Face) /\ ~LeftOpen =>
    /\ Listed(local.image)
    /\ Target = Image.home =>
         \A k \in DOMAIN disk[Target].table :
           disk[Target].table[k].key = Image.place => ~Covered(disk[Target].table[k].begin)

\* A restore that has not found the original disk does not replace the table of the disk
\* the image is on.
OtherDiskIsNotTheImages ==
  Restoring /\ ~Face /\ ~local.linux /\ local.olddisk = 2 /\ local.written =>
    Target # Image.home

-----------------------------------------------------------------------------
(***************************************************************************)
(* The inductive strengthening of ForcedMeansAsked and of TablesAgree.     *)
(***************************************************************************)

\* Every disk has its record, and the records have their fields.
DataFields == {"force", "bFactoryRestore", "comefromnewhddface", "selecteddisk",
               "RecoverDiskNumber", "PartC"}
LocalFields == {"image", "header", "olddisk", "changed", "linux", "asked", "written", "fault"}
DiskShape == DOMAIN disk = Disks /\ \A d \in Disks : DiskFields \subseteq DOMAIN disk[d]
DataShape(data) == DataFields \subseteq DOMAIN data
Shape == DiskShape /\ DataShape(g_data) /\ LocalFields \subseteq DOMAIN local

\* The ways of Recover and of Recover_Linux; only Recover follows DetectNewHddFace.
Way ==
  /\ local.linux => pc \in {"open", "dest", "linux", "data", "after"} /\ ~Face
  /\ Face => pc # "face" /\ pc # "dest"
  /\ pc \in {"chosen", "fix2"} => Face
  /\ pc = "linux" => local.linux

\* Until the disk is known nobody but the user has forced anything; later the
\* restore under way may have, when it has asked.  bFactoryRestore was asked for.
ForceInv ==
  /\ Forcing => local.asked \/ wanted # "no"
  /\ Forcing /\ (pc \in {"menu", "face", "open", "chosen", "dest", "reboot"} \/ local.linux) =>
       wanted # "no"
  /\ g_data.bFactoryRestore => local.asked

\* The disk of DetectNewHddFace, its kind of table once it has that of the image,
\* and the two copies of the table once they are repaired.
FaceInv ==
  Face =>
    /\ pc \in {"open", "chosen"} => g_data.selecteddisk \in Disks
    /\ pc \in {"ask", "compare", "confirm", "write", "fix", "fix2", "data", "after"} =>
         Target \in Disks
    /\ pc = "write" => local.changed
    /\ pc \in {"fix", "fix2"} => disk[Target].gpt = Image.gpt
    /\ TablesAgree

\* The inductive invariant.
IInv == Shape /\ Way /\ ForceInv /\ FaceInv

-----------------------------------------------------------------------------
(***************************************************************************)
(* The inductive strengthening of UnforcedKeepsTable, of WinREOnEntry and  *)
(* of what ImageSurvives says of other disks, relative to IInv.            *)
(***************************************************************************)

\* A table is a sequence of entries, whatever the repairs have computed for them.
TableShape(t) ==
  t \in Seq(Range(t)) /\ \A k \in DOMAIN t : DOMAIN t[k] = {"type", "key", "begin", "end"}

\* Whatever is on a disk, its GUIDs tell GPT from MBR.
DisksInv ==
  \A d \in Disks :
    /\ TableShape(disk[d].table)
    /\ \A i \in DOMAIN machine.images : Told(disk[d], Keys(disk[d].table), machine.images[i])

\* Until the table is written the disks are as they were, until it is repaired the header
\* is that of the image.
Unwritten == {"face", "open", "chosen", "dest", "ask", "compare", "confirm", "write", "linux"}
StartInv ==
  /\ machine \in Machines
  /\ pc \notin {"menu", "reboot"} => local.image \in DOMAIN machine.images
  /\ pc \in Unwritten => disk = before
  /\ pc \in Unwritten \cup {"fix"} => Header = Image.parts

\* What a restore that nobody has forced has been compared with.
Compared == {"confirm", "write"} \cup {"fix", "fix2", "data", "after"}
CopyInv ==
  /\ Face /\ pc \in Compared \ {"confirm"} => Forcing
  /\ ~Face /\ ~local.linux /\ pc \in Compared \cup {"ask", "compare"} => local.olddisk \in {1, 2}
  /\ ~Forcing /\ ~local.linux /\ ~Face /\ pc \in Compared =>
       /\ ~g_data.bFactoryRestore
       /\ ~Image.old /\ Target \in Disks => Copy(before[Target])
  /\ UnforcedKeepsTable

\* On a new disk the first repair leaves what is in front of C alone.
FrontInv ==
  LET t == ImageTable(Image.parts)  now == disk[Target].table
      c == EntryAt(t, PartC.begin)
  IN /\ Header = Image.parts
     /\ \A k \in 1..(c - 1) : k \in DOMAIN now /\ now[k] = t[k]
WinREInv ==
  /\ pc = "face" => Image.used # 0
  /\ Face /\ pc \notin {"menu", "reboot"} =>
       /\ Image.used # 0 /\ PartC.begin = OSPart(Image.parts).begin
       /\ pc = "fix" => disk[Target].table = ImageTable(Image.parts)
       /\ pc = "fix2" /\ Image.gpt /\ ~local.fault => FrontInv
       /\ WinREOnEntry

\* The image is where it was found, and a new disk is not the one it is on.
HomeInv ==
  /\ pc \notin {"menu", "reboot"} =>
       \E k \in DOMAIN before[Image.home].table : before[Image.home].table[k].key = Image.place
  /\ Restoring => \A d \in Disks : d # Target => disk[d].table = before[d].table
  /\ Face /\ pc \in {"open", "chosen"} => g_data.selecteddisk # Image.home
  /\ Face /\ pc \in Compared \cup {"ask", "compare"} => Target # Image.home

\* The inductive invariant.
PInv == DisksInv /\ StartInv /\ CopyInv /\ WinREInv /\ HomeInv
=============================================================================
