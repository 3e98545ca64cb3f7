------------------------------ MODULE TableFix ------------------------------
(***************************************************************************)
(* The arithmetic with which a restore to another disk repairs the         *)
(* partition table it has just taken from the image (func.c, the Fix       *)
(* functions).                                                             *)
(*                                                                         *)
(* A table is the sequence of its entries in use; an entry has a type, an  *)
(* identity (GUID and label), and its first and last sector, both of them  *)
(* part of it.  A header is the sequence of the partitions the image knows *)
(* (WIN32_PARTITIONINFO).  Random GUIDs are the one identity NewKey.  An   *)
(* image for a new disk has a recovery partition: without one              *)
(* IsFixNewHddWay and GetWirePartSector use an index they never set.       *)
(***************************************************************************)
EXTENDS Integers, Sequences

CONSTANTS
  Fine, Coarse,    \* 0x10 and 0x100: what begins and ends are aligned to
  Cluster,         \* 0x40: what the size of a volume is aligned to
  Rear,            \* 0x22: the sectors of the backup table, and one more
  Spare,           \* 0x64000: room enough to be worth a partition
  NearGap,         \* 0x1000: less than that is not a data partition
  Shift,           \* 0x20: a WinRE entry may begin so much later
  Wrap,            \* 2^64
  NewKey,
  Beyond           \* what, taken for an entry, may lie behind a buffer of GPT_SIZE

Types == {"system", "basic", "recovery"}
Entry == [type : Types, key : STRING, begin : Nat, end : Int]

ASSUME FixAssumption ==
  /\ {Fine, Cluster, Coarse, Wrap} \subseteq Nat \ {0} /\ Coarse % Fine = 0
  /\ {Rear, Spare, NearGap, Shift} \subseteq Nat
  /\ Beyond \subseteq Entry

Down(x, a) == x - (x % a)
Up(x, a) == Down(x + a - 1, a)

Least(S) == IF S = {} THEN 0 ELSE CHOOSE i \in S : \A j \in S : i <= j

\* The first index of s that satisfies P, or 0.
First(s, P(_)) == Least({i \in DOMAIN s : P(s[i])})

IsWinRE(q) == q.type = "recovery" /\ ~q.lenovo
IsOS(q) == q.win /\ q.saved
WinRE(h) == First(h, IsWinRE)
OS(h) == First(h, IsOS)

\* The entry of C.
EntryAt(tab, BootBegin) == First(tab, LAMBDA e : e.begin = BootBegin)

-----------------------------------------------------------------------------
\* The room between C and WinRE, or, when WinRE comes first, behind C.
SizeMined(h, Disksize) ==
  LET w == h[WinRE(h)]  t == h[OS(h)]
  IN (IF w.begin >= t.begin THEN w.begin - t.begin - t.total
                            ELSE Disksize - t.begin - t.total) % Wrap

\* IsNoDataPartFlag: the image has no data partition between C and WinRE.  The 0
\* that g_WinREState gets when WinRE comes first does not last: it ends as 2 or 1.
IsNoDataPart(h, Disksize) == SizeMined(h, Disksize) < NearGap
WinREState(h, Disksize) == IF IsNoDataPart(h, Disksize) THEN 2 ELSE 1
GetWirePartSector(h) == h[WinRE(h)].total

\* The first partition of the type, LENOVO_PART or not, is where the data of WinRE
\* will go.
UpdateOKRHeaderInfo(h, begin) ==
  LET i == First(h, LAMBDA q : q.type = "recovery")
  IN IF i = 0 THEN h ELSE [h EXCEPT ![i].begin = begin]

Unrepaired(tab, h) == [found |-> FALSE, table |-> tab, header |-> h, fixSmallc |-> FALSE]

\* WinRE becomes the entry behind C and the last one: at the end of C when that fits,
\* otherwise C is cut so that WinRE fits behind it.
FixNoDataPartTable(tab, h, BootBegin, TotalSector, w, total) ==
  LET i == EntryAt(tab, BootBegin)
      enough == total > BootBegin + TotalSector + w
      cut == (total - (BootBegin + w) - Rear) % Wrap
      begin == IF enough THEN Up(BootBegin + TotalSector, Fine)
                         ELSE Down(BootBegin + cut, Fine)
      kept == IF enough THEN tab ELSE [tab EXCEPT ![i].end = Down(BootBegin + cut, Coarse)]
      key == IF i < Len(tab) THEN tab[i + 1].key ELSE NewKey
  IN IF i = 0 THEN Unrepaired(tab, h)
     ELSE [found |-> TRUE,
           table |-> SubSeq(kept, 1, i) \o
                     <<[type |-> "recovery", key |-> key, begin |-> begin,
                        end |-> Down(begin + w, Coarse)]>>,
           header |-> UpdateOKRHeaderInfo(h, begin),
           fixSmallc |-> ~enough]

\* The 128 bytes behind the buffer: an entry, or zeros.
Junk == {<<>>} \cup {<<e>> : e \in Beyond}

\* A data partition takes what is left behind C, or C takes it; what followed C goes,
\* but for one entry of the recovery type.  Without such an entry m stops at GPT_SIZE,
\* and what lies there, behind the buffer, becomes the entry.
FixNewHDD(tab, h, BootBegin, TotalSector, state, w, total, junk) ==
  LET i == EntryAt(tab, BootBegin)
      m == First(tab, LAMBDA e : e.type = "recovery")
      enough == total > BootBegin + TotalSector + w + Spare
      end == IF state # 0 THEN Down(total - w - Rear - 1, Coarse)
             ELSE Down(total - Rear, IF enough THEN Fine ELSE Coarse)
      head == IF enough
                THEN SubSeq(tab, 1, i) \o
                     <<[tab[i] EXCEPT !.key = NewKey, !.end = end,
                                      !.begin = Up(BootBegin + TotalSector, Fine)]>>
                ELSE [SubSeq(tab, 1, i) EXCEPT ![i].end = end]
      last == IF m = 0 THEN junk ELSE IF m > Len(head) THEN <<tab[m]>> ELSE <<>>
  IN IF i = 0 THEN Unrepaired(tab, h)
     ELSE [found |-> TRUE,
           table |-> head \o (IF state # 0 THEN last ELSE <<>>),
           header |-> h,
           fixSmallc |-> ~enough]

\* Both of them on an MBR disk, whose table has four entries.
FixMbr(tab, h, BootBegin, TotalSector, total) ==
  LET i == EntryAt(tab, BootBegin)
      enough == total > BootBegin + TotalSector + Spare /\ i < 4
      begin == Up(BootBegin + TotalSector, Coarse)
      size == Down(total - BootBegin - TotalSector - (Coarse - 1), Fine)
  IN IF i = 0 THEN Unrepaired(tab, h)
     ELSE [found |-> TRUE,
           table |-> IF enough
                       THEN SubSeq(tab, 1, i) \o
                            <<[type |-> "basic", key |-> NewKey, begin |-> begin,
                               end |-> begin + size - 1]>>
                       ELSE [SubSeq(tab, 1, i) EXCEPT
                               ![i].end = BootBegin + Down(total - BootBegin, Fine) - 1],
           header |-> h,
           fixSmallc |-> ~enough]

\* Mutant: the entry is moved and the header is not.
FixNewHDDPartitionTableOnly(tab, h, w, total) ==
  [table |-> Append(SubSeq(tab, 1, 2), [type |-> "recovery", key |-> NewKey,
                                        begin |-> Down(total - w - Rear, Fine),
                                        end |-> Down(total - Rear, Coarse)]),
   header |-> h]

\* The first saved partition of the recovery type behind C goes to the end of the
\* disk: in its own entry, or in a new one when FixNewHDD has dropped that.
FixNewHDDPartitionTable(tab, h, w, total) ==
  LET c == First(h, LAMBDA q : q.type = "basic" /\ q.win)
      i == Least({k \in DOMAIN h : /\ h[k].saved /\ h[k].type = "recovery"
                                   /\ k > IF c = 0 THEN 1 ELSE c})
      found == First(tab, LAMBDA e : e.begin \in {h[i].begin, h[i].begin + Shift})
      begin == Down(total - w - Rear, Fine)
      entry(key) == [type |-> "recovery", key |-> key, begin |-> begin,
                     end |-> Down(total - Rear, Coarse)]
  IN IF i = 0 THEN [table |-> tab, header |-> h]
     ELSE [table |-> IF found = 0 THEN Append(tab, entry(NewKey))
                     ELSE Append(SubSeq(tab, 1, found - 1), entry(tab[found].key)),
           header |-> [h EXCEPT ![i].begin = begin]]

\* The size FixSmallDiskCSize gives the volume in C: all of the disk behind BootBegin.
FixSmallDiskCSize(BootBegin, total) ==
  Down((Down(total, Coarse) - BootBegin + 1) % Wrap, Cluster)
=============================================================================
