--------------------------- MODULE MCRestorePlan ---------------------------
(***************************************************************************)
(* RestorePlan on small disks: a system disk with one of two layouts, what *)
(* may have become of it since the image was made, and a second disk that  *)
(* is blank, in use, or a copy of it.                                      *)
(***************************************************************************)
EXTENDS RestorePlan

E(type, key, begin, end) == [type |-> type, key |-> key, begin |-> begin, end |-> end]
P(type, key, begin, end, saved, win) ==
  [type |-> type, lenovo |-> key = "lenovo", win |-> win, saved |-> saved, disk |-> 1,
   key |-> key, begin |-> begin, total |-> end - begin + 1]

\* Without and with a data partition between C and WinRE.
Plain == <<P("system", "esp", 2, 3, TRUE, FALSE), P("basic", "os", 4, 23, TRUE, TRUE),
           P("recovery", "re", 24, 27, TRUE, FALSE)>>
Data == <<P("system", "esp", 2, 3, TRUE, FALSE), P("basic", "os", 4, 23, TRUE, TRUE),
          P("basic", "d", 24, 35, FALSE, FALSE), P("recovery", "re", 36, 39, TRUE, FALSE)>>
Size0 == 44

Disk(total, gpt, guid, table, serial, lock) ==
  [total |-> total, gpt |-> gpt, guid |-> guid, table |-> table, backup |-> table,
   vols |-> IF Len(table) < 2 THEN {}
            ELSE {[begin |-> table[2].begin, serial |-> serial,
                   size |-> table[2].end - table[2].begin + 1]},
   lock |-> lock]

\* The table of parts with C ending later or earlier, and its neighbour with it.
Moved(parts, by) ==
  [ImageTable(parts) EXCEPT ![2].end = @ + by, ![3].begin = @ + by]

Repartitioned(gpt) ==
  Disk(Size0, gpt, "g9", <<E("system", "boot", 1, 3), E("basic", "c", 5, 30)>>, "s9", {})

\* What the system disk has become.
Systems(parts, gpt) ==
  LET tab == ImageTable(parts)
  IN {Disk(Size0, gpt, "g1", tab, "s1", {})}
     \cup {Disk(Size0, gpt, "g1", Moved(parts, by), "s1", {}) : by \in {-10, -4, -1, 2}}
     \cup {Disk(Size0, gpt, "g1", Moved(parts, -4), "s1", {4}),
           Disk(Size0, gpt, "g1", tab, "s1", {4, tab[3].begin}),
           Disk(Size0, gpt, "g9", Moved(parts, -4), "s9", {}),
           Disk(Size0, gpt, "g1", [tab EXCEPT ![Len(tab)].key = "new"], "s1", {}),
           Disk(Size0, gpt, "g1", SubSeq(tab, 1, 2), "s1", {}),
           Repartitioned(~gpt),
           Disk(Size0, gpt, "g9", <<>>, "s9", {}),
           Disk(Size0 + 8, gpt, "g1", tab, "s1", {})}

Seconds(parts, gpt) ==
  {Disk(n, gpt, "g2", <<>>, "s2", {}) : n \in {28, 34, 36, 40, 44, 60, 70}}
  \cup {Disk(50, gpt, "g2", <<E("basic", "x", 2, 40)>>, "s2", {}),
        Disk(44, gpt, "g1", ImageTable(parts), "s1", {})}

Store == Disk(40, TRUE, "g3", <<E("basic", "store", 2, 30)>>, "s3", {})

Img(home, place, factory, used, serials, old, gpt, parts) ==
  [home |-> home, place |-> place, factory |-> factory, used |-> used, serials |-> serials,
   old |-> old, gpt |-> gpt, guid |-> "g1", disksize |-> Size0, serial |-> "s1",
   parts |-> parts]

Machine(sn, rem, images, disks, start, skip) ==
  [sn |-> sn, removable |-> rem, images |-> images, disk |-> disks, start |-> start,
   skip |-> skip]

\* The image is on a stick; the second disk is new.
OnStick ==
  {Machine(<<1, 2, 3>>, <<FALSE, FALSE, TRUE>>,
           <<Img(3, "store", FALSE, 8, <<1, 3>>, FALSE, x[1], x[2])>>,
           <<x[3], x[4], Store>>, "menu", {}) :
     x \in UNION {{<<l[1], l[2], s, t>> : s \in Systems(l[2], l[1]), t \in Seconds(l[2], l[1])} :
                  l \in {<<TRUE, Plain>>, <<TRUE, Data>>, <<FALSE, Plain>>}}}

\* The image is on the data partition of the system disk; the second disk is not new,
\* or is not looked at.
OnSystemDisk ==
  {Machine(<<1, 2>>, <<FALSE, FALSE>>,
           <<Img(1, "d", FALSE, used, x[1], old, TRUE, Data)>>, <<s, t>>, start, x[2]) :
     s \in {d \in Systems(Data, TRUE) : d.gpt /\ Len(d.table) > 2},
     t \in {d \in Seconds(Data, TRUE) : d.total \in {44, 50, 60}},
     x \in {<<<<1, 2>>, {}>>, <<<<1>>, {1}>>, <<<<9>>, {1}>>},
     used \in {8, 16, 20}, old \in BOOLEAN, start \in {"menu", "auto", "force"}}

\* A factory image in LENOVO_PART, restored by Recover or by Recover_Linux, and an
\* image of the user.
Lenovo == Append(Plain, P("recovery", "lenovo", 28, 39, FALSE, FALSE))
Factory ==
  {Machine(<<1, 2>>, <<FALSE, FALSE>>,
           <<Img(1, "lenovo", TRUE, used, <<1>>, FALSE, TRUE, Lenovo),
             Img(2, "x", FALSE, 8, <<1, 2>>, FALSE, TRUE, Lenovo)>>,
           <<s, Disk(50, TRUE, "g2", <<E("basic", "x", 2, 40)>>, "s2", {})>>,
           "menu", {}) :
     s \in Systems(Lenovo, TRUE), used \in {0, 8}}

\* The image is on a disk that is new itself.
OnNewDisk ==
  {Machine(<<1, 2, 3>>, <<FALSE, FALSE, FALSE>>,
           <<Img(2, "x", FALSE, 8, <<1>>, FALSE, TRUE, Data)>>,
           <<s, Disk(50, TRUE, "g2", <<E("basic", "x", 2, 40)>>, "s2", {}),
             Disk(60, TRUE, "g3", <<>>, "s3", {})>>, "menu", skip) :
     s \in Systems(Data, TRUE), skip \in SUBSET {1}}

\* Nothing of the original disk is left on it, but perhaps a copy on the second one.
Lost ==
  {Machine(<<1, 2, 3>>, <<FALSE, FALSE, TRUE>>,
           <<Img(home[1], home[2], FALSE, 8, <<1, 3>>, FALSE, TRUE, Plain)>>,
           <<Repartitioned(gpt), t, Store>>, "menu", {1}) :
     gpt \in BOOLEAN, home \in {<<1, "c">>, <<3, "store">>}, t \in Seconds(Plain, TRUE)}

\* Partition by partition copied to a disk with another GUID, the last one anew.
Cloned == {Disk(Size0, TRUE, "g9", [ImageTable(Plain) EXCEPT ![3].key = k], "s1", {}) :
             k \in {"re", "new"}}

\* The same with the disks the other way round: the copy comes first.
Swapped ==
  {Machine(<<2, 1, 3>>, <<FALSE, FALSE, TRUE>>,
           <<Img(3, "store", FALSE, 8, <<1, 3>>, old, TRUE, Plain)>>,
           <<t, Repartitioned(TRUE), Store>>, "menu", {1}) :
     old \in BOOLEAN,
     t \in Cloned \cup {d \in Systems(Plain, TRUE) \cup Seconds(Plain, TRUE) : d.table # <<>>}}

\* An image for Recover_Linux, and a disk that may be too small for it.
Linux ==
  {Machine(<<1, 2>>, <<FALSE, TRUE>>, <<Img(2, "store", FALSE, 0, <<1>>, FALSE, x[1], Plain)>>,
           <<x[2], Store>>, "menu", {}) :
     x \in UNION {{<<gpt, s>> : s \in Systems(Plain, gpt) \cup {Disk(20, TRUE, "g9", <<>>, "s9", {})}} :
                  gpt \in BOOLEAN}}

\* WinRE has been made smaller since, and the image is on the partition behind it.
Freed ==
  {Machine(<<1, 2>>, <<FALSE, FALSE>>,
           <<Img(1, "new", FALSE, 8, <<1, 2>>, old, TRUE, Plain)>>,
           <<Disk(Size0, TRUE, "g1", Append([ImageTable(Plain) EXCEPT ![3].end = 25],
                                            E("basic", "new", 26, 43)), "s1", {}),
             Disk(44, TRUE, "g2", <<E("basic", "x", 2, 40)>>, "s2", {})>>, "menu", {}) :
     old \in BOOLEAN}

\* The first image goes to a new disk; the second one is of another machine, without
\* WinRE, and finds a copy of its disk as soon as it is not offered the new ones.
Bare == <<P("system", "esp2", 2, 3, TRUE, FALSE), P("basic", "os2", 6, 25, TRUE, TRUE)>>
Stale ==
  {Machine(<<2, 1, 3>>, <<FALSE, FALSE, TRUE>>,
           <<Img(3, "store", FALSE, 8, <<9, 2, 3>>, FALSE, TRUE, x),
             Img(3, "store", FALSE, 8, <<1, 3>>, old, TRUE, Bare)>>,
           <<Disk(total, TRUE, "g1", [ImageTable(Bare) EXCEPT ![2].key = k, ![2].end = end],
                  "s1", {}), Repartitioned(TRUE), Store>>, "menu", {2}) :
     x \in {Plain, Data}, total \in {40, 60}, k \in {"os2", "new"}, end \in {15, 25},
     old \in BOOLEAN}

\* Behind the buffer lies what overlaps C, or the entry of another WinRE.
MCBeyond == {E("basic", "beyond", 2, 9), E("recovery", "wire", 24, 27)}

MCMachines ==
  Freed \cup Lost \cup Swapped \cup Stale \cup Linux \cup OnStick \cup OnSystemDisk
    \cup Factory \cup OnNewDisk
=============================================================================
