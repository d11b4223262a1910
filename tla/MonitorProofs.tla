--------------------------- MODULE MonitorProofs ---------------------------
(***************************************************************************)
(* The monitor's images, in flash and on their way into memory.            *)
(*                                                                         *)
(* Listed images never share a flash block, for any size of the flash, any *)
(* number of images and any lengths: best fit, insertion and deletion keep *)
(* the directory good, and so does a power failure between two steps.      *)
(*                                                                         *)
(* A file sent over the serial line ends up in memory, whatever its length *)
(* and contents, the size of a block and the range of block numbers, and   *)
(* however often bytes are changed and answers lost: under the provisos of *)
(* FileInPlace.                                                            *)
(***************************************************************************)
EXTENDS FlashDir, Modem, TLAPS, FiniteSetTheorems, WellFoundedInduction, SequenceTheorems

-----------------------------------------------------------------------------
(* Images in flash                                                          *)


\* An image takes at least one block, and no more than a hole of enough bytes has.
LEMMA BlocksPositive ==
    ASSUME NEW len \in Nat, len >= 1
    PROVE  BlocksOf(len) \in Nat /\ BlocksOf(len) >= 1
BY FlashAssumption DEF BlocksOf

LEMMA BlocksFit ==
    ASSUME NEW len \in Nat, NEW g \in Nat, g * Block >= len, len >= 1
    PROVE  BlocksOf(len) <= g
<1> DEFINE q == (len + Block - 1) \div Block
<1>1. Block \in Nat /\ Block >= 1
  BY FlashAssumption
<1>2. q \in Nat /\ q * Block <= len + Block - 1
  BY <1>1
<1>3. SUFFICES ASSUME q >= g + 1 PROVE FALSE
  BY <1>2 DEF BlocksOf
<1>4. q * Block >= (g + 1) * Block
  BY <1>1, <1>2, <1>3
<1>5. (g + 1) * Block = g * Block + Block
  BY <1>1
<1> QED
  BY <1>1, <1>2, <1>4, <1>5

LEMMA LimitType ==
    /\ ImagesBase \in Nat /\ FlashBlocks \in Nat /\ Block \in Nat /\ MaxImages \in Nat
    /\ Block >= 1 /\ FlashBlocks >= 1 /\ MaxImages >= 1 /\ Limit \in Nat /\ Limit = ImagesBase + FlashBlocks
    /\ \A l \in Lens : l \in Nat /\ l >= 1 /\ l <= FlashBlocks * Block
<1>1. FlashBlocks * Block \in Nat
  BY FlashAssumption
<1> QED
  BY <1>1, FlashAssumption DEF Limit

\* A listed image starts and ends where blocks are.
LEMMA ListedType ==
    ASSUME NEW c, DirOK(c), NEW i \in Listed(c)
    PROVE  /\ c.start[i] \in Nat /\ c.start[i] >= ImagesBase /\ c.length[i] \in Lens
           /\ BlocksOf(c.length[i]) \in Nat /\ BlocksOf(c.length[i]) >= 1
           /\ End(c, i) = c.start[i] + BlocksOf(c.length[i]) /\ End(c, i) \in Nat
           /\ End(c, i) <= Limit /\ i \in Slots /\ c.start[i] <= Limit
<1>1. i \in Slots /\ c.start[i] # Ram /\ c.length[i] \in Lens /\ End(c, i) <= Limit
  BY DEF DirOK, Listed
<1>2. c.start[i] \in ImagesBase .. Limit
  BY <1>1 DEF DirOK
<1>3. BlocksOf(c.length[i]) \in Nat /\ BlocksOf(c.length[i]) >= 1
  BY <1>1, BlocksPositive, LimitType
<1> QED
  BY <1>1, <1>2, <1>3, LimitType DEF End

\* get_good_addr gives an address at which len bytes touch no listed image and stay below the limit.
LEMMA GoodAddr ==
    ASSUME NEW c, Good(c), NEW len \in Lens, NEW a \in get_good_addr(c, len)
    PROVE  /\ a \in Nat /\ a >= ImagesBase /\ a + BlocksOf(len) <= Limit
           /\ \A i \in Listed(c) : a + BlocksOf(len) <= c.start[i] \/ End(c, i) <= a
<1> USE LimitType
<1>0. len \in Nat /\ len >= 1 /\ BlocksOf(len) \in Nat /\ BlocksOf(len) >= 1
  BY BlocksPositive
<1>1. CASE c.number = 0
  <2>1. a = ImagesBase
    BY <1>1 DEF get_good_addr
  <2>2. Listed(c) = {}
    BY <1>1 DEF Listed, Slots
  <2>3. BlocksOf(len) <= FlashBlocks
    BY <1>0, BlocksFit
  <2> QED
    BY <2>1, <2>2, <2>3, <1>0
<1>2. CASE c.number # 0
  <2>1. a \in BigEnough(c, len)
    BY <1>2 DEF get_good_addr
  <2>2. a \in Holes(c) /\ \A e \in Bounds(c, a) : (e - a) * Block >= len
    BY <2>1 DEF BigEnough
  <2>3. a \in Nat /\ a >= ImagesBase /\ a <= Limit
    BY <2>2, ListedType DEF Holes, Good
  <2>4. ASSUME NEW e \in Bounds(c, a), e \in Nat, e >= a
        PROVE  a + BlocksOf(len) <= e
    <3>1. e - a \in Nat /\ (e - a) * Block >= len
      BY <2>2, <2>3, <2>4
    <3>2. BlocksOf(len) <= e - a
      BY <3>1, <1>0, BlocksFit
    <3> QED
      BY <3>2, <2>3, <2>4, <1>0
  <2>5. a + BlocksOf(len) <= Limit
    BY <2>3, <2>4 DEF Bounds
  <2>6. ASSUME NEW i \in Listed(c)
        PROVE  a + BlocksOf(len) <= c.start[i] \/ End(c, i) <= a
    <3>0. DirOK(c) /\ Disjoint(c)
      BY DEF Good
    <3>1. CASE c.start[i] >= a
      <4>1. c.start[i] \in Bounds(c, a)
        BY <3>1, <2>6 DEF Bounds
      <4> QED
        BY <4>1, <2>4, <3>0, <3>1, <2>6, ListedType
    <3>2. CASE c.start[i] < a
      <4>1. PICK j \in Listed(c) : a = End(c, j)
        BY <3>2, <3>0, <2>2, <2>3, <2>6, ListedType DEF Holes
      <4>2. CASE i = j
        BY <4>1, <4>2, <2>3
      <4>3. CASE i # j
        <5>1. End(c, i) <= c.start[j] \/ End(c, j) <= c.start[i]
          BY <4>3, <3>0, <2>6 DEF Disjoint, End
        <5> QED
          BY <5>1, <4>1, <3>0, <3>2, <2>6, ListedType
      <4> QED
        BY <4>2, <4>3
    <3> QED
      BY <3>1, <3>2, <3>0, <2>3, <2>6, ListedType
  <2> QED
    BY <2>3, <2>5, <2>6
<1> QED
  BY <1>1, <1>2
\* A directory record, opened: it is good when its parts are.
LEMMA GoodParts ==
    ASSUME NEW n \in 0 .. MaxImages, NEW st, NEW le,
           st \in [Slots -> ImagesBase .. Limit \cup {Ram}],
           le \in [Slots -> 0 .. FlashBlocks * Block \cup {Ram}],
           \A i \in Slots : i <= n => st[i] # Ram /\ le[i] \in Lens /\ st[i] + BlocksOf(le[i]) <= Limit,
           \A i, j \in Slots : i <= n /\ j <= n /\ i < j =>
               st[i] + BlocksOf(le[i]) <= st[j] \/ st[j] + BlocksOf(le[j]) <= st[i]
    PROVE  Good([number |-> n, start |-> st, length |-> le])
<1> DEFINE d == [number |-> n, start |-> st, length |-> le]
<1>1. d.number = n /\ d.start = st /\ d.length = le
  OBVIOUS
<1> HIDE DEF d
<1>2. DirOK(d)
  BY <1>1 DEF DirOK, Listed, End
<1>3. ASSUME NEW i \in Listed(d), NEW j \in Listed(d), i # j
      PROVE  st[i] + BlocksOf(le[i]) <= st[j] \/ st[j] + BlocksOf(le[j]) <= st[i]
  <2>1. i \in Slots /\ j \in Slots /\ i <= n /\ j <= n /\ (i < j \/ j < i)
    BY <1>1, <1>3, LimitType DEF Listed, Slots
  <2> QED
    BY <2>1
<1>4. Disjoint(d)
  BY <1>1, <1>3 DEF Disjoint
<1> QED
  BY <1>2, <1>4 DEF Good, d

\* The arrays after an insertion and after a removal, element by element.
LEMMA ShiftAt ==
    ASSUME NEW f, NEW num, NEW n, NEW v, NEW g, g = Shift(f, num, n, v)
    PROVE  /\ \A i \in Slots : g[i] = IF i < num THEN f[i] ELSE IF i = num THEN v
                                     ELSE IF i <= n THEN f[i - 1] ELSE f[i]
           /\ g = [i \in Slots |-> g[i]]
BY DEF Shift

LEMMA RemovedAt ==
    ASSUME NEW f, NEW num, NEW n, NEW g, g = Removed(f, num, n)
    PROVE  /\ \A i \in Slots : g[i] = IF i < num \/ i > n THEN f[i]
                                     ELSE IF i < MaxImages THEN f[i + 1] ELSE Ram
           /\ g = [i \in Slots |-> g[i]]
BY DEF Removed

\* prepare_img_data keeps the directory good, lists the new image where it says, and leaves the
\* others' entries as they were.
LEMMA PrepareGood ==
    ASSUME NEW c, Good(c), RamBehind(c), c.number < MaxImages,
           NEW num \in Nat, NEW len \in Lens, NEW a \in get_good_addr(c, len),
           NEW d, d = prepare_img_data(c, num, len, a)
    PROVE  /\ Good(d) /\ RamBehind(d) /\ Aimed(d, num, len, a)
           /\ \A i \in Listed(d) :
                 \/ d.start[i] = a
                 \/ \E k \in Listed(c) : d.start[i] = c.start[k] /\ d.length[i] = c.length[k]
<1> DEFINE n == c.number + 1
           at == IF num > n \/ num = 0 THEN n ELSE num
           st == Shift(c.start, at, n, a)
           le == Shift(c.length, at, n, len)
           Old(i) == IF i < at THEN i ELSE i - 1
<1> USE LimitType
<1>0. DirOK(c) /\ Disjoint(c)
  BY DEF Good
<1>1. /\ n \in 1 .. MaxImages /\ at \in 1 .. n /\ at \in Slots
      /\ c.number \in Nat /\ n = c.number + 1
      /\ num \in Slots => (at = num \/ num > n)
  BY <1>0 DEF DirOK, Slots
<1>2. d = [number |-> n, start |-> st, length |-> le]
  BY DEF prepare_img_data
<1> HIDE DEF n, at
<1>3. d.number = n /\ d.start = st /\ d.length = le
  BY <1>2
<1>4. \A i \in Slots : /\ st[i] = IF i < at THEN c.start[i] ELSE IF i = at THEN a
                                    ELSE IF i <= n THEN c.start[i - 1] ELSE c.start[i]
                       /\ le[i] = IF i < at THEN c.length[i] ELSE IF i = at THEN len
                                    ELSE IF i <= n THEN c.length[i - 1] ELSE c.length[i]
  BY ShiftAt
<1>5. st = [i \in Slots |-> st[i]] /\ le = [i \in Slots |-> le[i]]
  BY ShiftAt
<1> HIDE DEF st, le
<1>6. ASSUME NEW i \in Slots, i <= n, i # at
      PROVE  Old(i) \in Listed(c) /\ st[i] = c.start[Old(i)] /\ le[i] = c.length[Old(i)]
  BY <1>1, <1>4, <1>6 DEF Listed, Slots
<1>7. st[at] = a /\ le[at] = len
  BY <1>1, <1>4
<1> HIDE DEF Old
<1>8. /\ a \in Nat /\ a >= ImagesBase /\ a + BlocksOf(len) <= Limit /\ BlocksOf(len) \in Nat
      /\ a <= Limit /\ \A i \in Listed(c) : a + BlocksOf(len) <= c.start[i] \/ End(c, i) <= a
  BY GoodAddr, BlocksPositive
<1>9. st \in [Slots -> ImagesBase .. Limit \cup {Ram}] /\ le \in [Slots -> 0 .. FlashBlocks * Block \cup {Ram}]
  <2>1. ASSUME NEW i \in Slots
        PROVE  st[i] \in ImagesBase .. Limit \cup {Ram} /\ le[i] \in 0 .. FlashBlocks * Block \cup {Ram}
    <3>1. CASE i = at
      BY <3>1, <1>7, <1>8
    <3>2. CASE i > n
      <4>1. st[i] = c.start[i] /\ le[i] = c.length[i]
        BY <3>2, <1>1, <1>4 DEF Slots
      <4> QED
        BY <4>1, <1>0 DEF DirOK
    <3>3. CASE i <= n /\ i # at
      <4>1. Old(i) \in Slots /\ st[i] = c.start[Old(i)] /\ le[i] = c.length[Old(i)]
        BY <3>3, <1>6 DEF Listed
      <4> QED
        BY <4>1, <1>0 DEF DirOK
    <3> QED
      BY <3>1, <3>2, <3>3, <1>1 DEF Slots
  <2> QED
    BY <2>1, <1>5
<1>10. ASSUME NEW i \in Slots, i <= n
       PROVE  /\ st[i] # Ram /\ le[i] \in Lens /\ st[i] + BlocksOf(le[i]) <= Limit
              /\ st[i] \in Nat /\ BlocksOf(le[i]) \in Nat
  <2>1. CASE i = at
    BY <2>1, <1>7, <1>8 DEF Ram
  <2>2. CASE i # at
    <3>1. Old(i) \in Listed(c) /\ st[i] = c.start[Old(i)] /\ le[i] = c.length[Old(i)]
      BY <2>2, <1>6, <1>10
    <3> QED
      BY <3>1, <1>0, ListedType DEF Ram
  <2> QED
    BY <2>1, <2>2
<1>11. ASSUME NEW i \in Slots, NEW j \in Slots, i <= n, j <= n, i < j
       PROVE  st[i] + BlocksOf(le[i]) <= st[j] \/ st[j] + BlocksOf(le[j]) <= st[i]
  <2>1. ASSUME NEW k \in Slots, k <= n, k # at
        PROVE  a + BlocksOf(len) <= st[k] \/ st[k] + BlocksOf(le[k]) <= a
    BY <2>1, <1>6, <1>8 DEF End
  <2>2. CASE i = at
    BY <2>1, <2>2, <1>7, <1>11, LimitType DEF Slots
  <2>3. CASE j = at
    BY <2>1, <2>3, <1>7, <1>11, LimitType DEF Slots
  <2>4. CASE i # at /\ j # at
    <3>1. /\ Old(i) \in Listed(c) /\ st[i] = c.start[Old(i)] /\ le[i] = c.length[Old(i)]
          /\ Old(j) \in Listed(c) /\ st[j] = c.start[Old(j)] /\ le[j] = c.length[Old(j)]
      BY <2>4, <1>6, <1>11
    <3>2. Old(i) # Old(j)
      BY <2>4, <1>1, <1>11 DEF Old, Slots
    <3> QED
      BY <3>1, <3>2, <1>0 DEF Disjoint
  <2> QED
    BY <2>2, <2>3, <2>4
<1>12. Good(d)
  <2>1. n \in 0 .. MaxImages
    BY <1>1
  <2> QED
    BY <2>1, <1>2, <1>9, <1>10, <1>11, GoodParts
<1>13. RamBehind(d)
  <2>1. ASSUME NEW i \in Slots, i > n
        PROVE  st[i] = c.start[i] /\ i > c.number
    BY <2>1, <1>0, <1>1, <1>4, SMTT(30) DEF Slots, DirOK
  <2> QED
    BY <2>1, <1>3 DEF RamBehind
<1>14. Aimed(d, num, len, a)
  <2>1. SUFFICES ASSUME num \in Slots
        PROVE  st[num] = Ram \/ (num <= n /\ st[num] = a /\ le[num] = len)
    BY <1>3 DEF Aimed, Listed
  <2>2. CASE num > n
    BY <2>1, <2>2, <1>3, <1>13 DEF RamBehind
  <2>3. CASE at = num
    BY <2>3, <1>1, <1>7
  <2> QED
    BY <2>1, <2>2, <2>3, <1>1
<1>15. ASSUME NEW i \in Listed(d)
       PROVE  \/ d.start[i] = a
              \/ \E k \in Listed(c) : d.start[i] = c.start[k] /\ d.length[i] = c.length[k]
  BY <1>3, <1>6, <1>7 DEF Listed
<1> QED
  BY <1>12, <1>13, <1>14, <1>15

\* del_image of one keeps the directory good, and the others' entries as they were.
LEMMA RemoveGood ==
    ASSUME NEW c, Good(c), RamBehind(c), c.number > 0, NEW at \in 1 .. c.number,
           NEW d, d = [number |-> c.number - 1, start |-> Removed(c.start, at, c.number),
                       length |-> Removed(c.length, at, c.number)]
    PROVE  /\ Good(d) /\ RamBehind(d)
           /\ \A i \in Listed(d) :
                 \E k \in Listed(c) : d.start[i] = c.start[k] /\ d.length[i] = c.length[k]
<1> DEFINE n == c.number
           st == Removed(c.start, at, n)
           le == Removed(c.length, at, n)
           Old(i) == IF i < at THEN i ELSE i + 1
<1> USE LimitType
<1>0. DirOK(c) /\ Disjoint(c)
  BY DEF Good
<1>1. n \in 1 .. MaxImages /\ at \in 1 .. n /\ at \in Slots
  BY <1>0 DEF DirOK, Slots
<1>2. d = [number |-> n - 1, start |-> st, length |-> le]
  OBVIOUS
<1>3. d.number = n - 1 /\ d.start = st /\ d.length = le
  BY <1>2
<1>4. \A i \in Slots : /\ st[i] = IF i < at \/ i > n THEN c.start[i]
                                    ELSE IF i < MaxImages THEN c.start[i + 1] ELSE Ram
                       /\ le[i] = IF i < at \/ i > n THEN c.length[i]
                                    ELSE IF i < MaxImages THEN c.length[i + 1] ELSE Ram
  BY RemovedAt
<1>5. st = [i \in Slots |-> st[i]] /\ le = [i \in Slots |-> le[i]]
  BY RemovedAt
<1> HIDE DEF st, le
<1>6. ASSUME NEW i \in Slots, i <= n - 1
      PROVE  Old(i) \in Listed(c) /\ st[i] = c.start[Old(i)] /\ le[i] = c.length[Old(i)]
  BY <1>1, <1>4, <1>6 DEF Listed, Slots
<1>7. st \in [Slots -> ImagesBase .. Limit \cup {Ram}] /\ le \in [Slots -> 0 .. FlashBlocks * Block \cup {Ram}]
  <2>1. ASSUME NEW i \in Slots
        PROVE  st[i] \in ImagesBase .. Limit \cup {Ram} /\ le[i] \in 0 .. FlashBlocks * Block \cup {Ram}
    <3>1. i < MaxImages => i + 1 \in Slots
      BY DEF Slots
    <3> QED
      BY <3>1, <1>0, <1>4 DEF DirOK
  <2> QED
    BY <2>1, <1>5
<1> HIDE DEF Old
<1>8. \A i \in Slots : i <= n - 1 => /\ st[i] # Ram /\ le[i] \in Lens
                                     /\ st[i] + BlocksOf(le[i]) <= Limit
  BY <1>0, <1>6, ListedType DEF Ram
<1>9. ASSUME NEW i \in Slots, NEW j \in Slots, i <= n - 1, j <= n - 1, i < j
      PROVE  st[i] + BlocksOf(le[i]) <= st[j] \/ st[j] + BlocksOf(le[j]) <= st[i]
  <2>1. /\ Old(i) \in Listed(c) /\ st[i] = c.start[Old(i)] /\ le[i] = c.length[Old(i)]
        /\ Old(j) \in Listed(c) /\ st[j] = c.start[Old(j)] /\ le[j] = c.length[Old(j)]
    BY <1>6, <1>9
  <2>2. Old(i) # Old(j)
    BY <1>1, <1>9 DEF Old, Slots
  <2> QED
    BY <2>1, <2>2, <1>0 DEF Disjoint
<1>10. Good(d)
  <2>1. n - 1 \in 0 .. MaxImages
    BY <1>1
  <2> DEFINE m == n - 1
  <2>2. /\ \A i \in Slots : i <= m => /\ st[i] # Ram /\ le[i] \in Lens
                                       /\ st[i] + BlocksOf(le[i]) <= Limit
        /\ \A i, j \in Slots : i <= m /\ j <= m /\ i < j =>
               st[i] + BlocksOf(le[i]) <= st[j] \/ st[j] + BlocksOf(le[j]) <= st[i]
        /\ m \in 0 .. MaxImages /\ d = [number |-> m, start |-> st, length |-> le]
    BY <2>1, <1>2, <1>8, <1>9
  <2> HIDE DEF m
  <2> QED
    BY <2>2, <1>7, GoodParts
<1>11. RamBehind(d)
  <2>1. ASSUME NEW i \in Slots, i > n - 1
        PROVE  st[i] = Ram
    <3>1. CASE i > n
      BY <3>1, <1>4 DEF RamBehind
    <3>2. CASE i = n
      <4>1. i < MaxImages => i + 1 \in Slots /\ i + 1 > c.number
        BY <3>2 DEF Slots
      <4> QED
        BY <4>1, <3>2, <1>1, <1>4 DEF RamBehind
    <3> QED
      BY <2>1, <3>1, <3>2, <1>1 DEF Slots
  <2> QED
    BY <2>1, <1>3 DEF RamBehind
<1>12. ASSUME NEW i \in Listed(d)
       PROVE  \E k \in Listed(c) : d.start[i] = c.start[k] /\ d.length[i] = c.length[k]
  BY <1>3, <1>6 DEF Listed
<1> QED
  BY <1>10, <1>11, <1>12
LEMMA BlankGood == Good(Blank) /\ RamBehind(Blank)
<1> DEFINE st == [i \in Slots |-> Ram]
           le == [i \in Slots |-> 0]
<1> USE LimitType
<1>1. Blank = [number |-> 0, start |-> st, length |-> le]
  BY DEF Blank
<1>2. 0 \in 0 .. MaxImages /\ 0 <= FlashBlocks * Block
  BY FlashAssumption
<1>3. st \in [Slots -> ImagesBase .. Limit \cup {Ram}] /\ le \in [Slots -> 0 .. FlashBlocks * Block \cup {Ram}]
  BY <1>2
<1>4. \A i \in Slots : ~(i <= 0)
  BY DEF Slots
<1>5. RamBehind(Blank)
  BY <1>1 DEF RamBehind
<1> HIDE DEF st, le
<1> QED
  BY <1>1, <1>2, <1>3, <1>4, <1>5, GoodParts

\* The fields of a command's locals.
LEMMA JobFields ==
    ASSUME NEW k, NEW num, NEW len, NEW c, NEW addr, NEW j, j = Job(k, num, len, c, addr)
    PROVE  /\ j.k = k /\ j.num = num /\ j.len = len /\ j.cfg = c /\ j.addr = addr
           /\ j = Job(j.k, j.num, j.len, j.cfg, j.addr)
BY DEF Job

LEMMA InitInv == Init => FlashInv
<1> SUFFICES ASSUME Init PROVE FlashInv
  OBVIOUS
<1>1. job = NoJob /\ job.k = "none" /\ job.cfg = Blank /\ gcfg = Blank /\ pc = "idle"
      /\ downloads = 0 /\ torn = FALSE /\ job = Job(job.k, job.num, job.len, job.cfg, job.addr)
  BY JobFields DEF Init, NoJob
<1>2. flash \in [0 .. FlashBlocks - 1 -> (0 .. downloads) \X (0 .. FlashBlocks)]
  BY <1>1, LimitType DEF Init, Empty
<1>3. Typed
  BY <1>1, <1>2 DEF Typed
<1>4. Directories
  BY <1>1, BlankGood DEF Directories
<1>5. Copies
  BY <1>1 DEF Copies, Saving, Copying
<1>6. Listed(Blank) = {}
  BY LimitType DEF Blank, Listed, Slots
<1>7. Wholes
  BY <1>1, <1>6 DEF Wholes, Saving, ImagesWhole
<1> QED
  BY <1>3, <1>4, <1>5, <1>7 DEF FlashInv

\* A step that leaves the flash alone, and brings no directory into it, keeps every image whole.
LEMMA WholeKept ==
    ASSUME FlashInv, flash' = flash, downloads' \in Nat, downloads' >= downloads
    PROVE  /\ \A s, len : WholeAt(s, len) => \E d \in 1 .. downloads' : \A b \in 0 .. BlocksOf(len) - 1 :
                             s + b < FlashBlocks /\ flash'[s + b] = <<d, b>>
           /\ gcfg' = gcfg /\ unwritten' = unwritten /\ pc # "program_cfg" /\ (torn => torn') => ImagesWhole'
<1>1. downloads \in Nat
  BY DEF FlashInv, Typed
<1>2. 1 .. downloads \subseteq 1 .. downloads'
  BY <1>1
<1>3. \A s, len : WholeAt(s, len) => \E d \in 1 .. downloads' : \A b \in 0 .. BlocksOf(len) - 1 :
                             s + b < FlashBlocks /\ flash'[s + b] = <<d, b>>
  BY <1>2 DEF WholeAt
<1>4. ASSUME gcfg' = gcfg, unwritten' = unwritten, pc # "program_cfg", torn => torn'
      PROVE  ImagesWhole'
  <2>1. ImagesWhole
    BY DEF FlashInv, Wholes
  <2>2. SUFFICES ASSUME ~torn', NEW i \in Listed(gcfg'), gcfg'.start[i] \notin unwritten'
                 PROVE  WholeAt(gcfg.start[i], gcfg.length[i])'
    BY DEF ImagesWhole, Listed
  <2>3. WholeAt(gcfg.start[i], gcfg.length[i])
    BY <2>1, <2>2, <1>4 DEF ImagesWhole
  <2>4. \E d \in 1 .. downloads' : \A b \in 0 .. BlocksOf(gcfg.length[i]) - 1 :
          gcfg.start[i] + b < FlashBlocks /\ flash'[gcfg.start[i] + b] = <<d, b>>
    BY <2>3, <1>2 DEF WholeAt
  <2> QED
    BY <2>4, <1>4 DEF WholeAt
<1> QED
  BY <1>3, <1>4

\* A command that starts to save a directory c whose images were all listed before, or is the one
\* to store, leads to a state that satisfies the invariant.
LEMMA StartSaving ==
    ASSUME FlashInv, pc = "idle",
           NEW k, NEW num, NEW len, NEW c, NEW addr, job' = Job(k, num, len, c, addr),
           pc' = "erase_cfg", UNCHANGED <<gcfg, flash, torn, unwritten>>,
           downloads' \in Nat, downloads' >= downloads, Good(c), RamBehind(c),
           k \in {"tboot", "sboot"} => downloads' >= 1 /\ len \in Lens /\ Aimed(c, num, len, addr),
           \A i \in Listed(c) : \/ k \in {"tboot", "sboot"} /\ c.start[i] = addr
                                \/ /\ ~torn
                                   /\ \E j \in Listed(gcfg) : c.start[i] = gcfg.start[j] /\ c.length[i] = gcfg.length[j]
    PROVE  FlashInv'
<1>1. /\ job'.k = k /\ job'.num = num /\ job'.len = len /\ job'.cfg = c /\ job'.addr = addr
      /\ job' = Job(job'.k, job'.num, job'.len, job'.cfg, job'.addr)
  BY JobFields
<1>2. Typed'
  <2>1. Typed
    BY DEF FlashInv
  <2>2. 0 .. downloads \subseteq 0 .. downloads'
    BY <2>1 DEF Typed
  <2>3. flash' \in [0 .. FlashBlocks - 1 -> (0 .. downloads') \X (0 .. FlashBlocks)]
    BY <2>1, <2>2 DEF Typed
  <2> QED
    BY <1>1, <2>1, <2>3 DEF Typed, Saving
<1>3. Directories'
  BY <1>1 DEF FlashInv, Directories, Good, DirOK, Disjoint, RamBehind, Listed, End
<1>4. Copies'
  <2>1. Stores' => downloads' >= 1 /\ job'.len \in Lens /\ Aimed(job'.cfg, job'.num, job'.len, job'.addr)
    BY <1>1 DEF Stores
  <2> QED
    BY <2>1 DEF Copies, Copying
<1>5. Wholes'
  <2>1. ImagesWhole'
    BY WholeKept
  <2>2. ASSUME NEW i \in Listed(c)
        PROVE  \/ c.start[i] \in unwritten'
               \/ Stores' /\ c.start[i] = addr
               \/ \E d \in 1 .. downloads' : \A b \in 0 .. BlocksOf(c.length[i]) - 1 :
                      c.start[i] + b < FlashBlocks /\ flash'[c.start[i] + b] = <<d, b>>
    <3>1. CASE k \in {"tboot", "sboot"} /\ c.start[i] = addr
      BY <3>1, <1>1 DEF Stores
    <3>2. CASE ~torn /\ \E j \in Listed(gcfg) : c.start[i] = gcfg.start[j] /\ c.length[i] = gcfg.length[j]
      <4>1. PICK j \in Listed(gcfg) : c.start[i] = gcfg.start[j] /\ c.length[i] = gcfg.length[j]
        BY <3>2
      <4>2. c.start[i] \in unwritten \/ WholeAt(c.start[i], c.length[i])
        BY <4>1, <3>2 DEF FlashInv, Wholes, ImagesWhole
      <4> QED
        BY <4>2, WholeKept
    <3> QED
      BY <2>2, <3>1, <3>2
  <2>3. ASSUME NEW i \in Listed(job'.cfg)
        PROVE  \/ job'.cfg.start[i] \in unwritten'
               \/ Stores' /\ job'.cfg.start[i] = job'.addr
               \/ WholeAt(job.cfg.start[i], job.cfg.length[i])'
    BY <1>1, <2>2 DEF WholeAt
  <2> QED
    BY <2>1, <2>3 DEF Wholes, Listed
<1> QED
  BY <1>2, <1>3, <1>4, <1>5 DEF FlashInv
\* A step that leaves everything but pc, the locals, the history of power and the counters alone, and
\* ends a command or its saving of the directory, leads to a state that satisfies the invariant.
LEMMA EndCommand ==
    ASSUME FlashInv, pc' \in {"idle", "booted"}, pc = "program_cfg" => torn', torn => torn', torn' \in BOOLEAN,
           UNCHANGED <<gcfg, flash, unwritten>>, job' = job \/ job' = NoJob,
           downloads' \in Nat, downloads' >= downloads
    PROVE  FlashInv'
<1>1. Typed'
  <2>1. 0 .. downloads \subseteq 0 .. downloads'
    BY DEF FlashInv, Typed
  <2>2. flash' \in [0 .. FlashBlocks - 1 -> (0 .. downloads') \X (0 .. FlashBlocks)]
    BY <2>1 DEF FlashInv, Typed
  <2>3. job' = Job(job'.k, job'.num, job'.len, job'.cfg, job'.addr)
    BY JobFields DEF FlashInv, Typed, NoJob
  <2> QED
    BY <2>2, <2>3 DEF Typed
<1>2. Directories'
  <2>1. Good(job.cfg) /\ RamBehind(job.cfg) /\ NoJob.cfg = Blank
    BY JobFields DEF FlashInv, Directories, NoJob
  <2>2. Good(job'.cfg) /\ RamBehind(job'.cfg)
    BY <2>1, BlankGood
  <2>3. torn' \/ (Good(gcfg') /\ RamBehind(gcfg'))
    BY DEF FlashInv, Directories
  <2> QED
    BY <2>2, <2>3 DEF Directories, Good, DirOK, Disjoint, RamBehind, Listed, End
<1>3. Copies'
  BY DEF Copies, Saving, Copying
<1>4. Wholes'
  <2>1. pc # "program_cfg" => ImagesWhole'
    BY WholeKept
  <2>2. pc = "program_cfg" => ImagesWhole'
    BY DEF ImagesWhole
  <2> QED
    BY <2>1, <2>2 DEF Wholes, Saving
<1> QED
  BY <1>1, <1>2, <1>3, <1>4 DEF FlashInv

LEMMA DownloadInv ==
    ASSUME FlashInv, NEW k \in {"tboot", "sboot"}, NEW num \in Nums, NEW len \in Lens, Download(k, num, len)
    PROVE  FlashInv'
<1>1. downloads' \in Nat /\ downloads' >= downloads /\ downloads' >= 1
  BY DEF Download, FlashInv, Typed
<1>2. CASE Refused(gcfg, len)
  BY <1>1, <1>2, EndCommand DEF Download, Ready, FlashInv, Typed
<1>3. CASE ~Refused(gcfg, len)
  <2>1. PICK addr \in get_good_addr(gcfg, len) :
            job' = Job(k, num, len, prepare_img_data(gcfg, num, len, addr), addr)
    BY <1>3 DEF Download
  <2>2. /\ pc = "idle" /\ ~torn /\ pc' = "erase_cfg"
        /\ UNCHANGED <<gcfg, flash, torn, unwritten>>
    BY <1>3 DEF Download, Ready
  <2>3. Good(gcfg) /\ RamBehind(gcfg)
    BY <2>2 DEF FlashInv, Directories
  <2>4. gcfg.number < MaxImages /\ num \in Nat
    BY <1>3, <2>3, LimitType, FlashAssumption DEF Refused, Good, DirOK
  <2> DEFINE c == prepare_img_data(gcfg, num, len, addr)
  <2>5. /\ Good(c) /\ RamBehind(c) /\ Aimed(c, num, len, addr)
        /\ \A i \in Listed(c) :
              \/ c.start[i] = addr
              \/ \E j \in Listed(gcfg) : c.start[i] = gcfg.start[j] /\ c.length[i] = gcfg.length[j]
    BY <2>3, <2>4, PrepareGood
  <2> HIDE DEF c
  <2>6. job' = Job(k, num, len, c, addr)
    BY <2>1 DEF c
  <2> QED
    BY <1>1, <2>2, <2>5, <2>6, StartSaving
<1> QED
  BY <1>2, <1>3

LEMMA DeleteOneInv ==
    ASSUME FlashInv, NEW num \in Nums, DeleteOne(num)
    PROVE  FlashInv'
<1> DEFINE n == gcfg.number
           at == IF num = 0 \/ num > n THEN n ELSE num
           c == [number |-> n - 1, start |-> Removed(gcfg.start, at, n),
                 length |-> Removed(gcfg.length, at, n)]
<1>1. /\ pc = "idle" /\ ~torn /\ pc' = "erase_cfg" /\ n > 0 /\ job' = Job("delete", 0, 0, c, Ram)
      /\ UNCHANGED <<gcfg, flash, downloads, torn, unwritten>>
  BY DEF DeleteOne, Ready
<1>2. Good(gcfg) /\ RamBehind(gcfg)
  BY <1>1 DEF FlashInv, Directories
<1>3. at \in 1 .. n
  BY <1>1, <1>2, FlashAssumption DEF Good, DirOK
<1> HIDE DEF at
<1>4. /\ Good(c) /\ RamBehind(c)
      /\ \A i \in Listed(c) :
            \E j \in Listed(gcfg) : c.start[i] = gcfg.start[j] /\ c.length[i] = gcfg.length[j]
  BY <1>1, <1>2, <1>3, RemoveGood
<1>5. downloads' \in Nat /\ downloads' >= downloads
  BY <1>1 DEF FlashInv, Typed
<1> HIDE DEF c, n
<1> QED
  BY <1>1, <1>4, <1>5, StartSaving

LEMMA DeleteAllInv == FlashInv /\ DeleteAll => FlashInv'
<1> SUFFICES ASSUME FlashInv, DeleteAll PROVE FlashInv'
  OBVIOUS
<1>1. /\ pc = "idle" /\ pc' = "erase_cfg" /\ job' = Job("delete", 0, 0, Blank, Ram)
      /\ UNCHANGED <<gcfg, flash, downloads, torn, unwritten>>
  BY DEF DeleteAll
<1>2. Listed(Blank) = {}
  BY LimitType DEF Blank, Listed, Slots
<1>3. downloads' \in Nat /\ downloads' >= downloads
  BY <1>1 DEF FlashInv, Typed
<1> QED
  BY <1>1, <1>2, <1>3, BlankGood, StartSaving

LEMMA SaveConfInv == FlashInv /\ SaveConf => FlashInv'
<1> SUFFICES ASSUME FlashInv, SaveConf PROVE FlashInv'
  OBVIOUS
<1>1. /\ pc = "idle" /\ ~torn /\ pc' = "erase_cfg" /\ job' = Job("save", 0, 0, gcfg, Ram)
      /\ UNCHANGED <<gcfg, flash, downloads, torn, unwritten>>
  BY DEF SaveConf, Ready
<1>2. Good(gcfg) /\ RamBehind(gcfg)
  BY <1>1 DEF FlashInv, Directories
<1>3. downloads' \in Nat /\ downloads' >= downloads
  BY <1>1 DEF FlashInv, Typed
<1> QED
  BY <1>1, <1>2, <1>3, StartSaving

\* Between the erasure and the programming of the directory nothing is claimed of it.
LEMMA EraseCfgInv == FlashInv /\ EraseCfg => FlashInv'
<1> SUFFICES ASSUME FlashInv, EraseCfg PROVE FlashInv'
  OBVIOUS
<1>1. /\ pc = "erase_cfg" /\ pc' = "program_cfg"
      /\ UNCHANGED <<flash, job, downloads, torn, unwritten>>
  BY DEF EraseCfg
<1>2. Typed'
  BY <1>1 DEF FlashInv, Typed, Saving
<1>3. Directories'
  BY <1>1 DEF FlashInv, Directories, Good, DirOK, Disjoint, RamBehind, Listed, End
<1>4. Copies'
  BY <1>1 DEF FlashInv, Copies, Saving, Copying, Stores, Aimed, Listed
<1>5. Wholes'
  <2>1. ASSUME NEW i \in Listed(job.cfg)
        PROVE  \/ job.cfg.start[i] \in unwritten
               \/ Stores /\ job.cfg.start[i] = job.addr
               \/ WholeAt(job.cfg.start[i], job.cfg.length[i])
    BY <1>1 DEF FlashInv, Wholes, Saving
  <2> QED
    BY <1>1, <2>1 DEF Wholes, ImagesWhole, WholeAt, Stores, Listed
<1> QED
  BY <1>2, <1>3, <1>4, <1>5 DEF FlashInv

\* The saved directory takes the place of the old: the images it kept were whole, and the one to
\* store counts as unwritten.
LEMMA ProgramCfgInv == FlashInv /\ ProgramCfg => FlashInv'
<1> SUFFICES ASSUME FlashInv, ProgramCfg PROVE FlashInv'
  OBVIOUS
<1>1. /\ pc = "program_cfg" /\ gcfg' = job.cfg /\ torn' = FALSE /\ UNCHANGED <<flash, downloads>>
      /\ pc' = IF Stores THEN "erase_image" ELSE "idle"
      /\ unwritten' = (IF Stores THEN unwritten \cup {job.addr} ELSE unwritten)
                        \cap {job.cfg.start[i] : i \in Listed(job.cfg)}
      /\ job' = IF Stores THEN [job EXCEPT !.cfg = Blank] ELSE NoJob
  BY DEF ProgramCfg
<1>2. job'.cfg = Blank /\ job' = Job(job'.k, job'.num, job'.len, job'.cfg, job'.addr)
  BY <1>1, JobFields DEF FlashInv, Typed, Job, NoJob
<1>3. Typed'
  BY <1>1, <1>2 DEF FlashInv, Typed, Copying
<1>4. Directories'
  <2>1. Good(job.cfg) /\ RamBehind(job.cfg) /\ Good(job'.cfg) /\ RamBehind(job'.cfg)
    BY <1>2, BlankGood DEF FlashInv, Directories
  <2> QED
    BY <1>1, <2>1 DEF Directories, Good, DirOK, Disjoint, RamBehind, Listed, End
<1>5. Copies'
  <2>1. CASE ~Stores
    BY <1>1, <2>1 DEF Copies, Saving, Copying
  <2>2. CASE Stores
    <3>1. job'.num = job.num /\ job'.len = job.len /\ job'.addr = job.addr
      BY <1>1, <2>2 DEF FlashInv, Typed, Job
    <3>2. downloads >= 1 /\ job.len \in Lens /\ Aimed(job.cfg, job.num, job.len, job.addr)
      BY <1>1, <2>2 DEF FlashInv, Copies, Saving
    <3>3. Aimed(gcfg', job'.num, job'.len, job'.addr)
      BY <1>1, <3>1, <3>2 DEF Aimed, Listed
    <3>4. Destination' # Ram => job'.addr \in unwritten'
      <4>1. SUFFICES ASSUME job.num \in Slots, job.cfg.start[job.num] # Ram
                     PROVE  job.addr \in unwritten'
        BY <1>1, <3>1 DEF Destination, Slots
      <4>2. job.num \in Listed(job.cfg) /\ job.cfg.start[job.num] = job.addr
        BY <3>2, <4>1 DEF Aimed
      <4> QED
        BY <1>1, <2>2, <4>2
    <3> QED
      BY <1>1, <2>2, <3>1, <3>2, <3>3, <3>4 DEF Copies, Saving, Copying, Aimed, Listed
  <2> QED
    BY <2>1, <2>2
<1>6. Wholes'
  <2>1. ASSUME NEW i \in Listed(job.cfg), job.cfg.start[i] \notin unwritten'
        PROVE  WholeAt(job.cfg.start[i], job.cfg.length[i])
    BY <1>1, <2>1 DEF FlashInv, Wholes, Saving
  <2>2. ASSUME NEW i \in Listed(gcfg'), gcfg'.start[i] \notin unwritten'
        PROVE  WholeAt(gcfg.start[i], gcfg.length[i])'
    BY <1>1, <2>1, <2>2 DEF WholeAt
  <2> QED
    BY <1>1, <2>2 DEF Wholes, ImagesWhole, Saving, Listed
<1> QED
  BY <1>3, <1>4, <1>5, <1>6 DEF FlashInv
\* What copy_memory_run checks keeps a copy inside the flash.
LEMMA BlocksBelow ==
    ASSUME NEW a \in Nat, NEW len \in Lens, a * Block + len < FlashBlocks * Block
    PROVE  FlashBlocks - a \in Nat /\ BlocksOf(len) <= FlashBlocks - a
<1> USE LimitType
<1>1. a < FlashBlocks
  <2>1. SUFFICES ASSUME a >= FlashBlocks PROVE FALSE
    OBVIOUS
  <2>2. a * Block >= FlashBlocks * Block
    BY <2>1
  <2> QED
    BY <2>2
<1>2. (FlashBlocks - a) * Block = FlashBlocks * Block - a * Block
  BY <1>1
<1>3. (FlashBlocks - a) * Block >= len
  BY <1>2
<1> QED
  BY <1>1, <1>3, BlocksFit

\* The copy's blocks hold no other listed image.
LEMMA OthersApart ==
    ASSUME FlashInv, pc \in Copying, Destination # Ram, NEW i \in Listed(gcfg), gcfg.start[i] \notin unwritten
    PROVE  /\ gcfg.start[i] \in Nat /\ BlocksOf(gcfg.length[i]) \in Nat /\ Destination \in Nat
           /\ gcfg.start[i] # Destination
           /\ \A b \in 0 .. BlocksOf(gcfg.length[i]) - 1 : gcfg.start[i] + b \notin Target
<1>1. /\ Good(gcfg) /\ ~torn /\ job.len \in Lens
      /\ Aimed(gcfg, job.num, job.len, job.addr) /\ job.addr \in unwritten
  BY DEF FlashInv, Directories, Copies, Copying
<1>2. job.num \in Slots /\ Destination = gcfg.start[job.num]
  BY DEF Destination
<1>3. job.num \in Listed(gcfg) /\ gcfg.start[job.num] = job.addr /\ gcfg.length[job.num] = job.len
  BY <1>1, <1>2 DEF Aimed
<1>4. i # job.num
  BY <1>1, <1>3
<1>5. /\ gcfg.start[i] + BlocksOf(gcfg.length[i]) <= Destination
         \/ Destination + BlocksOf(job.len) <= gcfg.start[i]
      /\ gcfg.start[i] \in Nat /\ BlocksOf(gcfg.length[i]) \in Nat /\ BlocksOf(gcfg.length[i]) >= 1
      /\ Destination \in Nat /\ BlocksOf(job.len) \in Nat /\ BlocksOf(job.len) >= 1
  BY <1>1, <1>2, <1>3, <1>4, ListedType DEF Good, Disjoint
<1> QED
  BY <1>5 DEF Target

\* A step that changes no block but the copy's keeps the other images whole.
LEMMA OthersWhole ==
    ASSUME FlashInv, pc \in Copying, Destination # Ram,
           \A b \in 0 .. FlashBlocks - 1 : b \notin Target => flash'[b] = flash[b],
           UNCHANGED <<gcfg, downloads>>, unwritten \subseteq unwritten' \cup {Destination},
           ~torn, NEW i \in Listed(gcfg), gcfg.start[i] \notin unwritten', gcfg.start[i] # Destination
    PROVE  WholeAt(gcfg.start[i], gcfg.length[i])'
<1> DEFINE s == gcfg.start[i]
           n == BlocksOf(gcfg.length[i])
<1>1. s \notin unwritten
  OBVIOUS
<1>2. s \in Nat /\ n \in Nat /\ \A b \in 0 .. n - 1 : s + b \notin Target
  BY <1>1, OthersApart
<1>3. WholeAt(gcfg.start[i], gcfg.length[i])
  BY <1>1 DEF FlashInv, Wholes, ImagesWhole, Copying
<1>4. PICK d \in 1 .. downloads : \A b \in 0 .. n - 1 : s + b < FlashBlocks /\ flash[s + b] = <<d, b>>
  BY <1>3 DEF WholeAt
<1> HIDE DEF s, n
<1>5. ASSUME NEW b \in 0 .. n - 1
      PROVE  s + b < FlashBlocks /\ flash'[s + b] = <<d, b>>
  <2>1. s + b \in 0 .. FlashBlocks - 1
    BY <1>2, <1>4, LimitType
  <2> QED
    BY <2>1, <1>2, <1>4
<1> QED
  BY <1>5 DEF WholeAt, s, n

LEMMA EraseImageInv == FlashInv /\ EraseImage => FlashInv'
<1> SUFFICES ASSUME FlashInv, EraseImage PROVE FlashInv'
  OBVIOUS
<1>1. pc = "erase_image" /\ UNCHANGED <<gcfg, downloads, torn, unwritten>> /\ downloads \in Nat /\ ~torn
  BY DEF EraseImage, FlashInv, Typed, Copies, Copying
<1>2. CASE Destination = Ram \/ Destination * Block + job.len >= FlashBlocks * Block
  <2>1. pc' \in {"idle", "booted"} /\ job' = NoJob /\ flash' = flash
    BY <1>2 DEF EraseImage, Done
  <2> QED
    BY <1>1, <2>1, EndCommand DEF FlashInv, Typed
<1>3. CASE ~(Destination = Ram \/ Destination * Block + job.len >= FlashBlocks * Block)
  <2>1. /\ pc' = "program_image" /\ job' = job
        /\ flash' = [b \in DOMAIN flash |-> IF b \in Target THEN Empty ELSE flash[b]]
    BY <1>3 DEF EraseImage
  <2>2. /\ flash \in [0 .. FlashBlocks - 1 -> (0 .. downloads) \X (0 .. FlashBlocks)]
        /\ Empty \in (0 .. downloads) \X (0 .. FlashBlocks)
    BY <1>1, LimitType DEF FlashInv, Typed, Empty
  <2>3. flash' \in [0 .. FlashBlocks - 1 -> (0 .. downloads) \X (0 .. FlashBlocks)]
    BY <2>1, <2>2
  <2>4. Typed'
    BY <1>1, <2>1, <2>3 DEF FlashInv, Typed, Copying
  <2>5. Directories'
    BY <1>1, <2>1 DEF FlashInv, Directories, Good, DirOK, Disjoint, RamBehind, Listed, End
  <2>6. job.len \in Lens /\ Destination \in Nat
    <3>1. /\ job.len \in Lens /\ Good(gcfg) /\ Destination = gcfg.start[job.num]
          /\ job.num \in Listed(gcfg)
      BY <1>1, <1>3 DEF FlashInv, Directories, Copies, Copying, Destination, Aimed
    <3> QED
      BY <3>1, ListedType DEF Good
  <2>7. Copies'
    <3>1. Destination' = Destination
      BY <1>1, <2>1 DEF Destination
    <3>2. Destination * Block + job.len < FlashBlocks * Block
      <4>1. Destination * Block \in Nat /\ FlashBlocks * Block \in Nat /\ job.len \in Nat
        BY <2>6, LimitType
      <4> QED
        BY <4>1, <1>3
    <3> QED
      BY <1>1, <1>3, <2>1, <3>1, <3>2 DEF FlashInv, Copies, Saving, Copying, Aimed, Listed
  <2>8. ASSUME NEW i \in Listed(gcfg), gcfg.start[i] \notin unwritten
        PROVE  WholeAt(gcfg.start[i], gcfg.length[i])'
    <3>1. pc \in Copying
      BY <1>1 DEF Copying
    <3>2. \A b \in 0 .. FlashBlocks - 1 : b \notin Target => flash'[b] = flash[b]
      BY <2>1, <2>2
    <3>3. gcfg.start[i] # Destination
      BY <3>1, <1>3, <2>8, OthersApart
    <3> QED
      BY <3>1, <3>2, <3>3, <1>1, <1>3, <2>8, OthersWhole
  <2>9. Wholes'
    BY <1>1, <2>1, <2>8 DEF Wholes, ImagesWhole, Saving, Listed
  <2> QED
    BY <2>4, <2>5, <2>7, <2>9 DEF FlashInv
<1> QED
  BY <1>2, <1>3

\* The copy ends: its image is whole, and no longer unwritten.
LEMMA ProgramImageInv == FlashInv /\ ProgramImage => FlashInv'
<1> SUFFICES ASSUME FlashInv, ProgramImage PROVE FlashInv'
  OBVIOUS
<1>1. /\ pc = "program_image" /\ UNCHANGED <<gcfg, downloads, torn>> /\ downloads \in Nat /\ ~torn
      /\ unwritten' = unwritten \ {Destination} /\ job' = NoJob /\ pc' \in {"idle", "booted"}
      /\ flash' = [b \in DOMAIN flash |-> IF b \in Target THEN <<downloads, b - Destination>> ELSE flash[b]]
  BY DEF ProgramImage, FlashInv, Typed, Copies, Copying, Done
<1>2. /\ Destination # Ram /\ Destination * Block + job.len < FlashBlocks * Block
      /\ downloads >= 1 /\ job.len \in Lens /\ Good(gcfg) /\ RamBehind(gcfg)
      /\ Aimed(gcfg, job.num, job.len, job.addr)
  BY <1>1 DEF FlashInv, Directories, Copies, Copying
<1>3. /\ job.num \in Listed(gcfg) /\ Destination = gcfg.start[job.num] /\ gcfg.length[job.num] = job.len
  BY <1>2 DEF Destination, Aimed
<1>4. /\ Destination \in Nat /\ job.len \in Nat /\ job.len >= 1
      /\ BlocksOf(job.len) \in Nat /\ BlocksOf(job.len) >= 1
  BY <1>2, <1>3, ListedType, LimitType DEF Good
<1>5. flash \in [0 .. FlashBlocks - 1 -> (0 .. downloads) \X (0 .. FlashBlocks)]
  BY DEF FlashInv, Typed
<1>6. Typed'
  <2>1. \A b \in Target : <<downloads, b - Destination>> \in (0 .. downloads) \X (0 .. FlashBlocks)
    BY <1>1, <1>4, LimitType DEF Target
  <2>2. flash' \in [0 .. FlashBlocks - 1 -> (0 .. downloads) \X (0 .. FlashBlocks)]
    BY <2>1, <1>1, <1>5
  <2> QED
    BY <2>2, <1>1, JobFields DEF FlashInv, Typed, NoJob
<1>7. Directories'
  <2>1. job'.cfg = Blank
    BY <1>1, JobFields DEF NoJob
  <2> QED
    BY <2>1, <1>1, <1>2, BlankGood DEF Directories, Good, DirOK, Disjoint, RamBehind, Listed, End
<1>8. Copies'
  BY <1>1 DEF Copies, Saving, Copying
<1>9. ASSUME NEW i \in Listed(gcfg), i = job.num
      PROVE  WholeAt(gcfg.start[i], gcfg.length[i])'
  <2> DEFINE n == BlocksOf(job.len)
  <2>1. n <= FlashBlocks - Destination /\ FlashBlocks - Destination \in Nat
    BY <1>2, <1>4, BlocksBelow
  <2>2. ASSUME NEW b \in 0 .. n - 1
        PROVE  Destination + b < FlashBlocks /\ flash'[Destination + b] = <<downloads, b>>
    <3>1. Destination + b \in Target /\ Destination + b < FlashBlocks /\ (Destination + b) - Destination = b
      BY <2>1, <1>4, LimitType DEF Target
    <3>2. Destination + b \in DOMAIN flash
      BY <3>1, <1>4, <1>5, LimitType
    <3> QED
      BY <3>1, <3>2, <1>1
  <2> HIDE DEF n
  <2>3. \E d \in 1 .. downloads : \A b \in 0 .. n - 1 :
            Destination + b < FlashBlocks /\ flash'[Destination + b] = <<d, b>>
    BY <2>2, <1>1, <1>2
  <2>4. /\ gcfg' = gcfg /\ downloads' = downloads
        /\ gcfg.start[i] = Destination /\ BlocksOf(gcfg.length[i]) = n
    BY <1>1, <1>3, <1>9 DEF n
  <2> QED
    BY <2>3, <2>4 DEF WholeAt
<1>10. Wholes'
  <2>1. ASSUME NEW i \in Listed(gcfg), gcfg.start[i] \notin unwritten'
        PROVE  WholeAt(gcfg.start[i], gcfg.length[i])'
    <3>1. CASE i = job.num
      BY <3>1, <1>9
    <3>2. CASE i # job.num
      <4>1. gcfg.start[i] # Destination
        BY <3>2, <1>2, <1>3, <1>4, ListedType DEF Good, Disjoint
      <4>2. \A b \in 0 .. FlashBlocks - 1 : b \notin Target => flash'[b] = flash[b]
        BY <1>1, <1>5
      <4>3. pc \in Copying
        BY <1>1 DEF Copying
      <4> QED
        BY <4>1, <4>2, <4>3, <1>1, <1>2, <2>1, OthersWhole
    <3> QED
      BY <3>1, <3>2
  <2> QED
    BY <1>1, <2>1 DEF Wholes, ImagesWhole, Saving, Listed
<1> QED
  BY <1>6, <1>7, <1>8, <1>10 DEF FlashInv

-----------------------------------------------------------------------------

\* The invariant holds in every reachable state, for every flash and every way to use it.
THEOREM FlashInvariance == FlashSpec => []FlashInv
<1>1. FlashInv /\ [Next]_vars => FlashInv'
  <2> SUFFICES ASSUME FlashInv, [Next]_vars PROVE FlashInv'
    OBVIOUS
  <2>0. downloads \in Nat /\ torn \in BOOLEAN
    BY DEF FlashInv, Typed
  <2>1. CASE \E k \in {"tboot", "sboot"}, num \in Nums, len \in Lens : Download(k, num, len)
    BY <2>1, DownloadInv
  <2>2. CASE \E num \in Nums : DeleteOne(num)
    BY <2>2, DeleteOneInv
  <2>3. CASE DeleteAll \/ SaveConf \/ EraseCfg \/ ProgramCfg
    BY <2>3, DeleteAllInv, SaveConfInv, EraseCfgInv, ProgramCfgInv
  <2>4. CASE EraseImage \/ ProgramImage
    BY <2>4, EraseImageInv, ProgramImageInv
  <2>5. CASE BootImage
    <3>1. /\ pc = "idle" /\ pc' = "booted" /\ job' = job /\ torn' = torn /\ downloads' = downloads
          /\ UNCHANGED <<gcfg, flash, unwritten>>
      BY <2>5 DEF BootImage, Ready
    <3>2. downloads' \in Nat /\ downloads' >= downloads
      BY <2>0, <3>1
    <3> QED
      BY <2>0, <3>1, <3>2, EndCommand
  <2>6. CASE Reset
    <3>1. /\ pc = "booted" /\ pc' = "idle" /\ job' = job /\ torn' = torn /\ downloads' = downloads
          /\ UNCHANGED <<gcfg, flash, unwritten>>
      BY <2>6 DEF Reset
    <3>2. downloads' \in Nat /\ downloads' >= downloads
      BY <2>0, <3>1
    <3> QED
      BY <2>0, <3>1, <3>2, EndCommand
  <2>7. CASE PowerCut
    <3>1. /\ pc' = "idle" /\ job' = NoJob /\ torn' = (torn \/ pc = "program_cfg") /\ downloads' = downloads
          /\ UNCHANGED <<gcfg, flash, unwritten>>
      BY <2>7 DEF PowerCut
    <3>2. downloads' \in Nat /\ downloads' >= downloads
      BY <2>0, <3>1
    <3>3. (torn => torn') /\ (pc = "program_cfg" => torn') /\ torn' \in BOOLEAN
      BY <2>0, <3>1, Zenon
    <3> QED
      BY <3>1, <3>2, <3>3, EndCommand
  <2>8. CASE UNCHANGED vars
    <3> USE <2>8 DEF vars
    <3>1. Typed'
      BY DEF FlashInv, Typed
    <3>2. Directories'
      BY DEF FlashInv, Directories, Good, DirOK, Disjoint, RamBehind, Listed, End
    <3>3. Copies'
      BY DEF FlashInv, Copies, Stores, Aimed, Destination, Listed
    <3>4. Wholes'
      <4>1. ASSUME NEW i \in Slots
            PROVE  /\ WholeAt(gcfg.start[i], gcfg.length[i])' = WholeAt(gcfg.start[i], gcfg.length[i])
                   /\ WholeAt(job.cfg.start[i], job.cfg.length[i])' = WholeAt(job.cfg.start[i], job.cfg.length[i])
        BY DEF WholeAt
      <4> QED
        BY <4>1 DEF FlashInv, Wholes, Stores, Listed, ImagesWhole
    <3> QED
      BY <3>1, <3>2, <3>3, <3>4 DEF FlashInv
  <2> QED
    BY <2>1, <2>2, <2>3, <2>4, <2>5, <2>6, <2>7, <2>8 DEF Next
<1> QED
  BY <1>1, InitInv, PTL DEF FlashSpec

\* Type correctness of the directory, the command and the flash.
THEOREM FlashTypeCorrect == FlashSpec => []FlashTypeOK
<1>1. FlashInv => FlashTypeOK
  BY DEF FlashInv, Typed, Directories, Good, FlashTypeOK, Saving, Copying
<1> QED
  BY <1>1, FlashInvariance, PTL

\* No two listed images share a flash block.
THEOREM ImagesNeverOverlap == FlashSpec => []ImagesDisjoint
<1>1. FlashInv => ImagesDisjoint
  BY DEF FlashInv, Directories, Good, ImagesDisjoint
<1> QED
  BY <1>1, FlashInvariance, PTL

\* Every listed image whose copy ended is in flash whole.
THEOREM ListedImagesWhole == FlashSpec => []ImagesWhole
<1>1. FlashInv => ImagesWhole
  BY DEF FlashInv, Wholes
<1> QED
  BY <1>1, FlashInvariance, PTL

-----------------------------------------------------------------------------
(* The directory is a list.                                                 *)

\* Images that share no block are different entries, so that there are as many as images.
LEMMA EntriesDiffer ==
    ASSUME NEW c, Good(c)
    PROVE  /\ Listed(c) = 1 .. c.number /\ c.number \in Nat
           /\ \A i, j \in Listed(c) : <<c.start[i], c.length[i]>> = <<c.start[j], c.length[j]>> => i = j
           /\ Cardinality(Entries(c)) = c.number
<1>1. /\ c.number \in 0 .. MaxImages /\ MaxImages \in Nat
      /\ Listed(c) = 1 .. c.number
  BY LimitType DEF Good, DirOK, Listed, Slots
<1>2. ASSUME NEW i \in Listed(c), NEW j \in Listed(c), c.start[i] = c.start[j], i # j
      PROVE  FALSE
  <2>1. /\ c.start[i] \in Nat /\ BlocksOf(c.length[i]) \in Nat /\ BlocksOf(c.length[i]) >= 1
        /\ BlocksOf(c.length[j]) \in Nat /\ BlocksOf(c.length[j]) >= 1
    BY ListedType DEF Good
  <2>2. \/ c.start[i] + BlocksOf(c.length[i]) <= c.start[j]
        \/ c.start[j] + BlocksOf(c.length[j]) <= c.start[i]
    BY <1>2 DEF Good, Disjoint
  <2> QED
    BY <1>2, <2>1, <2>2
<1>3. \A i, j \in Listed(c) : <<c.start[i], c.length[i]>> = <<c.start[j], c.length[j]>> => i = j
  BY <1>2
<1>4. Cardinality(Entries(c)) = Cardinality(Listed(c)) /\ Cardinality(Listed(c)) = c.number
  <2> DEFINE entry == [i \in Listed(c) |-> <<c.start[i], c.length[i]>>]
  <2>1. entry \in Bijection(Listed(c), Entries(c))
    BY <1>3 DEF Bijection, Injection, Surjection, IsInjective, Entries
  <2>2. IsFiniteSet(Listed(c)) /\ Cardinality(Listed(c)) = c.number
    BY <1>1, FS_Interval
  <2> QED
    BY <2>1, <2>2, FS_Bijection DEF ExistsBijection
<1> QED
  BY <1>1, <1>3, <1>4

\* A directory and the same without its entry at one place: the rest is the same list.
LEMMA SameList ==
    ASSUME NEW big, NEW small, Good(big), Good(small), NEW at \in 1 .. big.number,
           small.number = big.number - 1,
           \A i \in Listed(small) : /\ small.start[i] = big.start[IF i < at THEN i ELSE i + 1]
                                    /\ small.length[i] = big.length[IF i < at THEN i ELSE i + 1]
    PROVE  /\ Entries(small) \subseteq Entries(big)
           /\ \A x, y \in Entries(small) : Before(small, x, y) <=> Before(big, x, y)
<1> DEFINE Up(i) == IF i < at THEN i ELSE i + 1
           E(c, i) == <<c.start[i], c.length[i]>>
<1>1. /\ big.number \in Nat /\ at \in Nat
      /\ Listed(big) = 1 .. big.number /\ Listed(small) = 1 .. big.number - 1
      /\ \A i, j \in Listed(big) : E(big, i) = E(big, j) => i = j
  BY EntriesDiffer
<1>2. \A i \in Listed(small) : Up(i) \in Listed(big) /\ E(small, i) = E(big, Up(i))
  BY <1>1
<1>3. \A i, j \in Listed(small) : i < j <=> Up(i) < Up(j)
  BY <1>1
<1> HIDE DEF Up, E
<1>4. Entries(small) \subseteq Entries(big)
  BY <1>2 DEF Entries, E
<1>5. ASSUME NEW x \in Entries(small), NEW y \in Entries(small)
      PROVE  Before(small, x, y) <=> Before(big, x, y)
  <2>1. ASSUME Before(small, x, y) PROVE Before(big, x, y)
    BY <1>2, <1>3, <2>1 DEF Before, E
  <2>2. ASSUME Before(big, x, y) PROVE Before(small, x, y)
    <3>1. PICK i \in Listed(big), j \in Listed(big) : i < j /\ E(big, i) = x /\ E(big, j) = y
      BY <2>2 DEF Before, E
    <3>2. PICK k \in Listed(small) : E(small, k) = x
      BY DEF Entries, E
    <3>3. PICK l \in Listed(small) : E(small, l) = y
      BY DEF Entries, E
    <3>4. Up(k) = i /\ Up(l) = j
      BY <1>1, <1>2, <3>1, <3>2, <3>3
    <3>5. k < l
      BY <1>3, <3>1, <3>4
    <3> QED
      BY <3>2, <3>3, <3>5 DEF Before, E
  <2> QED
    BY <2>1, <2>2
<1> QED
  BY <1>4, <1>5

\* What OthersStay says of a directory that is saved in place of another.
KeepsOthers(old, new) ==
    LET both == Entries(old) \cap Entries(new)
    IN /\ Cardinality(Entries(new)) = new.number
       /\ Entries(old) \subseteq Entries(new) \/ Entries(new) \subseteq Entries(old)
       /\ \A x, y \in both : Before(old, x, y) => Before(new, x, y)

\* tboot and sboot list an image between the others.
LEMMA InsertKeeps ==
    ASSUME NEW c, Good(c), RamBehind(c), c.number < MaxImages,
           NEW num \in Nat, NEW len \in Lens, NEW a \in get_good_addr(c, len)
    PROVE  KeepsOthers(c, prepare_img_data(c, num, len, a))
<1> DEFINE d == prepare_img_data(c, num, len, a)
           n == c.number + 1
           at == IF num > n \/ num = 0 THEN n ELSE num
<1>1. Good(d)
  BY PrepareGood
<1>2. c.number \in Nat /\ MaxImages \in Nat /\ Listed(c) = 1 .. c.number
  BY EntriesDiffer, LimitType
<1>3. d.number = n /\ d.start = Shift(c.start, at, n, a) /\ d.length = Shift(c.length, at, n, len)
  BY DEF prepare_img_data
<1>4. at \in 1 .. n
  BY <1>2
<1> HIDE DEF d, at
<1>5. ASSUME NEW i \in Listed(c)
      PROVE  /\ c.start[i] = d.start[IF i < at THEN i ELSE i + 1]
             /\ c.length[i] = d.length[IF i < at THEN i ELSE i + 1]
  <2> DEFINE k == IF i < at THEN i ELSE i + 1
  <2>1. k \in Slots /\ k # at /\ k <= n /\ (k > at => k - 1 = i) /\ (k < at => k = i) /\ at \in Nat /\ k \in Nat
    BY <1>2, <1>4, <1>5 DEF Slots
  <2>2. \A j \in Slots : /\ d.start[j] = IF j < at THEN c.start[j] ELSE IF j = at THEN a
                                          ELSE IF j <= n THEN c.start[j - 1] ELSE c.start[j]
                         /\ d.length[j] = IF j < at THEN c.length[j] ELSE IF j = at THEN len
                                           ELSE IF j <= n THEN c.length[j - 1] ELSE c.length[j]
    BY <1>3, ShiftAt
  <2> HIDE DEF k
  <2>3. c.start[i] = d.start[k] /\ c.length[i] = d.length[k]
    BY <2>1, <2>2
  <2> QED
    BY <2>3 DEF k
<1>6. /\ Entries(c) \subseteq Entries(d)
      /\ \A x, y \in Entries(c) : Before(c, x, y) <=> Before(d, x, y)
  <2>1. c.number = d.number - 1 /\ at \in 1 .. d.number
    BY <1>2, <1>3, <1>4
  <2> QED
    BY <1>1, <1>5, <2>1, SameList
<1>7. Cardinality(Entries(d)) = d.number
  BY <1>1, EntriesDiffer
<1> QED
  BY <1>6, <1>7 DEF KeepsOthers, d

\* del_image takes one entry out.
LEMMA RemoveKeeps ==
    ASSUME NEW c, Good(c), RamBehind(c), c.number > 0, NEW at \in 1 .. c.number,
           NEW d, d = [number |-> c.number - 1, start |-> Removed(c.start, at, c.number),
                       length |-> Removed(c.length, at, c.number)]
    PROVE  KeepsOthers(c, d)
<1>1. Good(d)
  BY RemoveGood
<1>2. c.number \in Nat /\ MaxImages \in Nat /\ c.number <= MaxImages
  BY LimitType DEF Good, DirOK
<1>3. d.number = c.number - 1 /\ Listed(d) = 1 .. c.number - 1
  BY <1>1, EntriesDiffer
<1>4. ASSUME NEW i \in Listed(d)
      PROVE  /\ d.start[i] = c.start[IF i < at THEN i ELSE i + 1]
             /\ d.length[i] = c.length[IF i < at THEN i ELSE i + 1]
  <2>1. i \in Slots /\ ~(i > c.number) /\ i < MaxImages
    BY <1>2, <1>3 DEF Slots
  <2>2. /\ d.start = Removed(c.start, at, c.number)
        /\ d.length = Removed(c.length, at, c.number)
    OBVIOUS
  <2>3. \A j \in Slots : /\ d.start[j] = IF j < at \/ j > c.number THEN c.start[j]
                                          ELSE IF j < MaxImages THEN c.start[j + 1] ELSE Ram
                         /\ d.length[j] = IF j < at \/ j > c.number THEN c.length[j]
                                           ELSE IF j < MaxImages THEN c.length[j + 1] ELSE Ram
    BY <2>2, RemovedAt
  <2> QED
    BY <2>1, <2>3
<1>5. /\ Entries(d) \subseteq Entries(c)
      /\ \A x, y \in Entries(d) : Before(d, x, y) <=> Before(c, x, y)
  BY <1>1, <1>3, <1>4, SameList
<1>6. Cardinality(Entries(d)) = d.number
  BY <1>1, EntriesDiffer
<1> QED
  BY <1>5, <1>6 DEF KeepsOthers

\* An image comes in between the others or one goes, and the others keep their place in flash
\* and their order.
THEOREM OthersKeepOrder == FlashSpec => OthersStay
<1>1. ASSUME FlashInv, [Next]_vars, pc = "idle", pc' = "erase_cfg", job'.cfg.number # 0
      PROVE  KeepsOthers(gcfg, job'.cfg)
  <2>1. (Good(gcfg) /\ RamBehind(gcfg)) \/ torn
    BY <1>1 DEF FlashInv, Directories
  <2>2. CASE \E k \in {"tboot", "sboot"}, num \in Nums, len \in Lens : Download(k, num, len)
    <3>1. PICK k \in {"tboot", "sboot"}, num \in Nums, len \in Lens : Download(k, num, len)
      BY <2>2
    <3>2. ~torn /\ ~Refused(gcfg, len)
      BY <1>1, <3>1 DEF Download, Ready
    <3>3. PICK a \in get_good_addr(gcfg, len) : job' = Job(k, num, len, prepare_img_data(gcfg, num, len, a), a)
      BY <3>1, <3>2 DEF Download
    <3>4. job'.cfg = prepare_img_data(gcfg, num, len, a)
      BY <3>3, JobFields
    <3>5. num \in Nat /\ gcfg.number < MaxImages
      BY <2>1, <3>2, FlashAssumption DEF Refused, Good, DirOK
    <3> QED
      BY <2>1, <3>2, <3>4, <3>5, InsertKeeps
  <2>3. CASE \E num \in Nums : DeleteOne(num)
    <3>1. PICK num \in Nums : DeleteOne(num)
      BY <2>3
    <3> DEFINE n == gcfg.number
               at == IF num = 0 \/ num > n THEN n ELSE num
               d == [number |-> n - 1, start |-> Removed(gcfg.start, at, n), length |-> Removed(gcfg.length, at, n)]
    <3>2. ~torn /\ n > 0 /\ job' = Job("delete", 0, 0, d, Ram)
      BY <3>1 DEF DeleteOne, Ready
    <3>3. job'.cfg = d
      BY <3>2, JobFields
    <3>4. at \in 1 .. n
      BY <2>1, <3>2, FlashAssumption DEF Good, DirOK
    <3> QED
      BY <2>1, <3>2, <3>3, <3>4, RemoveKeeps
  <2>4. CASE DeleteAll
    BY <1>1, <2>4, JobFields DEF DeleteAll, Blank
  <2>5. CASE SaveConf
    <3>1. ~torn /\ job'.cfg = gcfg
      BY <2>5, JobFields DEF SaveConf, Ready
    <3>2. Cardinality(Entries(gcfg)) = gcfg.number
      BY <2>1, <3>1, EntriesDiffer
    <3> QED
      BY <3>1, <3>2 DEF KeepsOthers
  <2>6. CASE \/ BootImage \/ EraseCfg \/ ProgramCfg \/ EraseImage \/ ProgramImage \/ Reset \/ PowerCut
             \/ UNCHANGED vars
    BY <1>1, <2>6 DEF BootImage, EraseCfg, ProgramCfg, EraseImage, ProgramImage, Reset, PowerCut, vars
  <2> QED
    BY <1>1, <2>2, <2>3, <2>4, <2>5, <2>6 DEF Next
<1>2. FlashInv /\ [Next]_vars =>
        [pc = "idle" /\ pc' = "erase_cfg" /\ job'.cfg.number # 0 => KeepsOthers(gcfg, job'.cfg)]_vars
  BY <1>1
<1>3. [pc = "idle" /\ pc' = "erase_cfg" /\ job'.cfg.number # 0 => KeepsOthers(gcfg, job'.cfg)]_vars
      <=> [pc = "idle" /\ pc' = "erase_cfg" /\ job'.cfg.number # 0 =>
             LET c == job'.cfg
                 both == Entries(gcfg) \cap Entries(c)
             IN /\ Cardinality(Entries(c)) = c.number
                /\ Entries(gcfg) \subseteq Entries(c) \/ Entries(c) \subseteq Entries(gcfg)
                /\ \A x, y \in both : Before(gcfg, x, y) => Before(c, x, y)]_vars
  BY DEF KeepsOthers
<1> QED
  BY <1>2, <1>3, FlashInvariance, PTL DEF FlashSpec, OthersStay

-----------------------------------------------------------------------------
(* A file over the serial line                                              *)


-----------------------------------------------------------------------------
(* Numbers                                                                  *)

\* Quotient and remainder are the only ones.
LEMMA Division ==
    ASSUME NEW n \in Nat \ {0}, NEW q \in Int, NEW r \in 0 .. (n - 1)
    PROVE  (q * n + r) % n = r /\ (q * n + r) \div n = q
<1> DEFINE x == q * n + r
           d == x \div n
           m == x % n
<1>1. x \in Int /\ d \in Int /\ m \in 0 .. (n - 1) /\ x = n * d + m
  OBVIOUS
<1>2. d = q
  <2>1. CASE d > q
    <3>1. n * d >= n * (q + 1)
      BY <1>1, <2>1
    <3> QED BY <1>1, <3>1
  <2>2. CASE d < q
    <3>1. n * q >= n * (d + 1)
      BY <1>1, <2>2
    <3> QED BY <1>1, <3>1
  <2> QED BY <1>1, <2>1, <2>2
<1> QED BY <1>1, <1>2

LEMMA DivMod ==
    ASSUME NEW n \in Nat \ {0}, NEW x \in Nat
    PROVE  x \div n \in Nat /\ x % n \in 0 .. (n - 1) /\ x = (x \div n) * n + (x % n)
<1> DEFINE d == x \div n
<1>1. d \in Int /\ x % n \in 0 .. (n - 1) /\ x = d * n + (x % n)
  OBVIOUS
<1>2. d >= 0
  <2>1. SUFFICES ASSUME d <= -1 PROVE FALSE
    BY <1>1
  <2>2. d * n <= -1 * n
    BY <1>1, <2>1
  <2> QED BY <1>1, <2>2
<1> QED BY <1>1, <1>2

\* The next number's range is the same, but behind the last of a range.
LEMMA NextDiv ==
    ASSUME NEW n \in Nat \ {0}, NEW x \in Nat
    PROVE  (x + 1) \div n = IF x % n = n - 1 THEN (x \div n) + 1 ELSE x \div n
<1> DEFINE d == x \div n
           m == x % n
<1>1. d \in Nat /\ m \in 0 .. (n - 1) /\ x = d * n + m
  BY DivMod
<1> HIDE DEF d, m
<1>2. CASE m = n - 1
  <2>1. x + 1 = (d + 1) * n + 0 /\ d + 1 \in Int /\ 0 \in 0 .. (n - 1)
    BY <1>1, <1>2
  <2>2. ((d + 1) * n + 0) \div n = d + 1
    BY <2>1, Division
  <2> QED BY <1>2, <2>1, <2>2 DEF d, m
<1>3. CASE m # n - 1
  <2>1. x + 1 = d * n + (m + 1) /\ d \in Int /\ m + 1 \in 0 .. (n - 1)
    BY <1>1, <1>3
  <2>2. (d * n + (m + 1)) \div n = d
    BY <2>1, Division
  <2> QED BY <1>3, <2>1, <2>2 DEF d, m
<1> QED BY <1>2, <1>3

\* A property that holds at k and goes from each number to the next holds from k to n.
LEMMA Induction ==
    ASSUME NEW k \in Nat, NEW n \in Nat, NEW S, k \in S,
           \A t \in k .. (n - 1) : t \in S => t + 1 \in S
    PROVE  \A t \in k .. n : t \in S
<1> DEFINE R == OpToRel(<, Nat)
           T == {t \in k .. n : t \notin S}
<1>1. IsWellFoundedOn(R, Nat)
  BY NatLessThanWellFounded
<1>2. \A x, y \in Nat : <<x, y>> \in R <=> x < y
  BY DEF OpToRel
<1> HIDE DEF R
<1>3. SUFFICES ASSUME T # {} PROVE FALSE
  OBVIOUS
<1>4. T \subseteq Nat
  OBVIOUS
<1>5. PICK t \in T : \A y \in T : ~(<<y, t>> \in R)
  BY <1>1, <1>3, <1>4, WFMin
<1>6. t \in k .. n /\ t \notin S /\ t # k
  BY <1>5
<1>7. t - 1 \in k .. (n - 1) /\ t - 1 \in Nat /\ t - 1 < t /\ (t - 1) + 1 = t
  BY <1>6
<1>8. t - 1 \in T
  BY <1>6, <1>7
<1> QED BY <1>2, <1>4, <1>5, <1>7, <1>8

-----------------------------------------------------------------------------
(* The CRC                                                                  *)

Step(x, b) == (3 * x + b) % 1000
CrcUpTo(f, s, t) ==
    /\ f \in [0 .. t -> Int] /\ f[0] = 0
    /\ \A u \in 1 .. t : f[u] = Step(f[u - 1], s[u])

LEMMA StepIn ==
    ASSUME NEW x \in Int, NEW b \in Int
    PROVE  Step(x, b) \in Int /\ 0 <= Step(x, b) /\ Step(x, b) < 1000
BY DEF Step

\* Neither two CRCs nor a byte and none meet in one step.
LEMMA StepApart ==
    ASSUME NEW x \in Int, NEW y \in Int, NEW b \in Int, x # y,
           0 <= x, x < 1000, 0 <= y, y < 1000
    PROVE  Step(x, b) # Step(y, b)
<1> SUFFICES ASSUME Step(x, b) = Step(y, b) PROVE FALSE
  OBVIOUS
<1> DEFINE p == (3 * x + b) \div 1000
           q == (3 * y + b) \div 1000
           r == (3 * x + b) % 1000
           k == p - q
<1>1. p \in Int /\ q \in Int /\ r \in Int /\ 3 * x + b = 1000 * p + r /\ 3 * y + b = 1000 * q + r
  BY DEF Step
<1> HIDE DEF p, q, r
<1>2. k \in Int /\ 3 * x - 3 * y = 1000 * k
  BY <1>1
<1> HIDE DEF k
<1> QED BY <1>2

LEMMA StepOther ==
    ASSUME NEW x \in Int, NEW b \in Int, 0 <= b, b < 256
    PROVE  Step(x, b) # Step(x, Other)
<1> SUFFICES ASSUME Step(x, b) = Step(x, Other) PROVE FALSE
  OBVIOUS
<1> DEFINE p == (3 * x + b) \div 1000
           q == (3 * x - 1) \div 1000
           r == (3 * x + b) % 1000
<1>1. Step(x, Other) = (3 * x - 1) % 1000
  BY DEF Step, Other
<1>2. p \in Int /\ q \in Int /\ r \in Int /\ 3 * x + b = 1000 * p + r /\ 3 * x - 1 = 1000 * q + r
  BY <1>1 DEF Step
<1> HIDE DEF p, q, r
<1> QED BY <1>2

\* The CRCs of a block's beginnings exist, and go on byte by byte.
LEMMA CrcExists ==
    ASSUME NEW n \in Nat, NEW s, \A u \in 1 .. n : s[u] \in Int
    PROVE  \E f \in [0 .. n -> Int] : CrcUpTo(f, s, n)
<1> DEFINE S == {t \in 0 .. n : \E f \in [0 .. t -> Int] : CrcUpTo(f, s, t)}
<1>1. 0 \in S
  <2> DEFINE h == [t \in 0 .. 0 |-> 0]
  <2>1. h \in [0 .. 0 -> Int] /\ h[0] = 0
    OBVIOUS
  <2>2. \A u \in 1 .. 0 : FALSE
    OBVIOUS
  <2> HIDE DEF h
  <2>3. CrcUpTo(h, s, 0)
    BY <2>1, <2>2 DEF CrcUpTo
  <2> QED BY <2>1, <2>3
<1>2. ASSUME NEW t \in 0 .. (n - 1), t \in S PROVE t + 1 \in S
  <2>1. PICK f \in [0 .. t -> Int] : CrcUpTo(f, s, t)
    BY <1>2
  <2> DEFINE e == Step(f[t], s[t + 1])
             h == [u \in 0 .. (t + 1) |-> IF u = t + 1 THEN e ELSE f[u]]
  <2>2. t \in Nat /\ t + 1 \in 0 .. n /\ e \in Int
    <3>1. t + 1 \in 1 .. n /\ t \in 0 .. t
      OBVIOUS
    <3>2. f[t] \in Int /\ s[t + 1] \in Int
      BY <2>1, <3>1
    <3>3. Step(f[t], s[t + 1]) \in Int
      BY <3>2, StepIn, ZenonT(60)
    <3> QED BY <3>1, <3>3
  <2> HIDE DEF e
  <2>3. h \in [0 .. (t + 1) -> Int]
    BY <2>1, <2>2
  <2>4. h[0] = 0
    BY <2>1, <2>2 DEF CrcUpTo
  <2>5. ASSUME NEW u \in 1 .. (t + 1) PROVE h[u] = Step(h[u - 1], s[u])
    <3>1. CASE u = t + 1
      <4>1. h[u] = e /\ h[u - 1] = f[t] /\ s[u] = s[t + 1]
        BY <2>1, <2>2, <3>1
      <4> QED BY <4>1 DEF e
    <3>2. CASE u # t + 1
      <4>1. u \in 1 .. t /\ h[u] = f[u] /\ h[u - 1] = f[u - 1]
        BY <2>1, <2>2, <3>2
      <4> QED BY <2>1, <4>1 DEF CrcUpTo
    <3> QED BY <3>1, <3>2
  <2> HIDE DEF h
  <2>6. CrcUpTo(h, s, t + 1)
    BY <2>3, <2>4, <2>5 DEF CrcUpTo
  <2> QED BY <2>2, <2>3, <2>6
<1> HIDE DEF S
<1>3. \A t \in 0 .. (n - 1) : t \in S => t + 1 \in S
  BY <1>2
<1>4. \A t \in 0 .. n : t \in S
  BY <1>1, <1>3, Induction
<1>5. n \in 0 .. n
  OBVIOUS
<1> QED BY <1>4, <1>5 DEF S

LEMMA CrcSteps ==
    ASSUME NEW s \in Seq(Int)
    PROVE  /\ Crc(s)[0] = 0 /\ \A t \in 0 .. Len(s) : Crc(s)[t] \in Int /\ 0 <= Crc(s)[t] /\ Crc(s)[t] < 1000
           /\ \A t \in 1 .. Len(s) : Crc(s)[t] = Step(Crc(s)[t - 1], s[t])
<1> DEFINE n == Len(s)
           c == Crc(s)
           P(f) == [t \in 0 .. n |-> IF t = 0 THEN 0 ELSE Step(f[t - 1], s[t])]
<1>1. n \in Nat /\ \A u \in 1 .. n : s[u] \in Int
  BY LenProperties, ElementOfSeq
<1>2. c = CHOOSE f : f = P(f)
  BY DEF Crc, Step
<1>3. PICK f \in [0 .. n -> Int] : CrcUpTo(f, s, n)
  BY <1>1, CrcExists
<1>4. f = P(f)
  <2>1. \A t \in 0 .. n : f[t] = IF t = 0 THEN 0 ELSE Step(f[t - 1], s[t])
    BY <1>1, <1>3 DEF CrcUpTo
  <2> QED BY <1>3, <2>1
<1>5. c = P(c)
  <2> HIDE DEF P, c
  <2> QED BY <1>2, <1>4, Zenon
<1> HIDE DEF c, n
<1>6. \A t \in 0 .. n : c[t] = IF t = 0 THEN 0 ELSE Step(c[t - 1], s[t])
  BY <1>5, Zenon
<1>7. c[0] = 0 /\ \A t \in 1 .. n : c[t] = Step(c[t - 1], s[t])
  <2>1. 0 \in 0 .. n
    BY <1>1
  <2> QED BY <1>6, <2>1
<1> DEFINE S == {t \in 0 .. n : c[t] \in Int /\ 0 <= c[t] /\ c[t] < 1000}
<1>8. 0 \in S
  BY <1>1, <1>7
<1>9. ASSUME NEW t \in 0 .. (n - 1), t \in S PROVE t + 1 \in S
  <2>1. t + 1 \in 1 .. n /\ (t + 1) - 1 = t /\ c[t] \in Int
    BY <1>1, <1>9
  <2>2. c[t + 1] = Step(c[t], s[t + 1])
    BY <1>7, <2>1
  <2>3. s[t + 1] \in Int
    BY <1>1, <2>1
  <2>4. c[t + 1] \in Int /\ 0 <= c[t + 1] /\ c[t + 1] < 1000
    <3> DEFINE x == c[t]
               b == s[t + 1]
    <3>1. x \in Int /\ b \in Int
      BY <2>1, <2>3
    <3>2. c[t + 1] = Step(x, b)
      BY <2>2
    <3> HIDE DEF x, b
    <3>3. Step(x, b) \in Int /\ 0 <= Step(x, b) /\ Step(x, b) < 1000
      BY <3>1, StepIn, ZenonT(60)
    <3> QED BY <3>2, <3>3, Zenon
  <2>5. t + 1 \in 0 .. n
    BY <1>1, <2>1
  <2> QED BY <2>4, <2>5
<1> HIDE DEF S
<1>10. \A t \in 0 .. n : t \in S
  <2>1. \A t \in 0 .. (n - 1) : t \in S => t + 1 \in S
    BY <1>9
  <2> QED BY <1>1, <1>8, <2>1, Induction
<1> QED BY <1>7, <1>10 DEF S, c, n

\* A changed byte changes the CRC of every beginning it is part of.
LEMMA CrcTells ==
    ASSUME NEW s \in Seq(Int), NEW r \in Seq(Int), Len(r) = Len(s),
           NEW k \in 1 .. Len(s), s[k] \in Int, 0 <= s[k], s[k] < 256, r[k] = Other,
           \A t \in 1 .. Len(s) : t # k => r[t] = s[t], M \in Nat
    PROVE  updcrc(r) # updcrc(s)
<1> DEFINE n == Len(s)
           c == Crc(s)
           d == Crc(r)
<1>1. n \in Nat /\ \A u \in 1 .. n : s[u] \in Int
  BY LenProperties, ElementOfSeq
<1>2. /\ c[0] = 0 /\ \A t \in 0 .. n : c[t] \in Int /\ 0 <= c[t] /\ c[t] < 1000
      /\ \A t \in 1 .. n : c[t] = Step(c[t - 1], s[t])
  BY CrcSteps
<1>3. /\ d[0] = 0 /\ \A t \in 0 .. n : d[t] \in Int /\ 0 <= d[t] /\ d[t] < 1000
      /\ \A t \in 1 .. n : d[t] = Step(d[t - 1], r[t])
  BY CrcSteps
<1>4. updcrc(s) = M + c[n] /\ updcrc(r) = M + d[n]
  BY DEF updcrc
<1> HIDE DEF c, d
<1> DEFINE S == {t \in 0 .. n : c[t] = d[t]}
           T == {t \in 0 .. n : c[t] # d[t]}
<1>5. \A t \in 0 .. (k - 1) : t \in S
  <2>1. 0 \in S
    BY <1>1, <1>2, <1>3
  <2>2. ASSUME NEW t \in 0 .. ((k - 1) - 1), t \in S PROVE t + 1 \in S
    <3>1. t + 1 \in 1 .. n /\ (t + 1) - 1 = t /\ t + 1 # k
      BY <1>1
    <3>2. c[t + 1] = Step(c[t], s[t + 1]) /\ d[t + 1] = Step(d[t], r[t + 1])
      BY <1>2, <1>3, <3>1
    <3>3. c[t] = d[t] /\ s[t + 1] = r[t + 1]
      BY <2>2, <3>1
    <3> QED BY <1>1, <3>1, <3>2, <3>3
  <2> HIDE DEF S
  <2>3. \A t \in 0 .. ((k - 1) - 1) : t \in S => t + 1 \in S
    BY <2>2
  <2>4. k - 1 \in Nat
    OBVIOUS
  <2> QED BY <2>1, <2>3, <2>4, Induction
<1>6. k \in T
  <2>1. k \in 1 .. n /\ k - 1 \in 0 .. (k - 1) /\ k - 1 \in 0 .. n
    BY <1>1
  <2>2. c[k - 1] = d[k - 1] /\ c[k - 1] \in Int
    BY <1>2, <1>5, <2>1
  <2>3. c[k] = Step(c[k - 1], s[k]) /\ d[k] = Step(c[k - 1], Other)
    BY <1>2, <1>3, <2>1, <2>2
  <2>4. c[k] # d[k]
    BY <2>2, <2>3, StepOther
  <2> QED BY <1>1, <2>4
<1>7. ASSUME NEW t \in k .. (n - 1), t \in T PROVE t + 1 \in T
  <2>1. t + 1 \in 1 .. n /\ (t + 1) - 1 = t /\ t + 1 # k /\ t \in 0 .. n
    BY <1>1
  <2>2. c[t + 1] = Step(c[t], s[t + 1]) /\ d[t + 1] = Step(d[t], s[t + 1])
    BY <1>2, <1>3, <2>1
  <2>3. c[t] \in Int /\ 0 <= c[t] /\ c[t] < 1000
    BY <1>2, <2>1
  <2>6. d[t] \in Int /\ 0 <= d[t] /\ d[t] < 1000
    BY <1>3, <2>1
  <2>5. s[t + 1] \in Int /\ c[t] # d[t]
    BY <1>1, <1>7, <2>1
  <2>4. c[t + 1] # d[t + 1]
    BY <2>2, <2>3, <2>5, <2>6, StepApart, ZenonT(60)
  <2> QED BY <2>1, <2>4
<1> HIDE DEF T
<1>8. n \in T
  <2>1. \A t \in k .. (n - 1) : t \in T => t + 1 \in T
    BY <1>7
  <2>2. k \in Nat /\ n \in k .. n
    BY <1>1
  <2> QED BY <1>1, <1>6, <2>1, <2>2, Induction
<1>9. n \in 0 .. n /\ c[n] # d[n]
  BY <1>8 DEF T
<1>10. c[n] \in Int /\ d[n] \in Int
  BY <1>2, <1>3, <1>9, SMTT(30)
<1> QED BY <1>4, <1>9, <1>10, SMTT(30)

-----------------------------------------------------------------------------
(* Messages                                                                 *)

LEMMA Values ==
    ASSUME ModemAssumption
    PROVE  M \in Nat \ {0} /\ M >= 3 /\ BlockBytes \in Nat \ {0} /\ RETRY \in Nat /\ MaxFaults \in Nat
BY DEF ModemAssumption, EOT

LEMMA CrcIn ==
    ASSUME ModemAssumption, NEW s \in Seq(Int)
    PROVE  updcrc(s) \in Int /\ updcrc(s) >= M
<1> DEFINE c == Crc(s)
           n == Len(s)
<1>1. n \in Nat
  BY LenProperties
<1>2. \A t \in 0 .. n : c[t] \in Int /\ 0 <= c[t]
  BY CrcSteps
<1> HIDE DEF c
<1>3. c[n] \in Int /\ 0 <= c[n]
  BY <1>1, <1>2
<1>4. updcrc(s) = M + c[n]
  BY DEF updcrc, c
<1> QED BY <1>3, <1>4, Values

LEMMA PacketShape ==
    ASSUME ModemAssumption, NEW n \in Nat, NEW b \in Seq(Int), Len(b) = BlockBytes
    PROVE  /\ Packet(n, b) \in Seq(Int) /\ Len(Packet(n, b)) = BlockBytes + 4
           /\ Packet(n, b)[1] = SOH /\ Packet(n, b)[2] = n % M /\ Packet(n, b)[3] = M - 1 - (n % M)
           /\ \A j \in 1 .. BlockBytes : Packet(n, b)[3 + j] = b[j]
           /\ Packet(n, b)[BlockBytes + 4] = updcrc(b)
<1> DEFINE h == <<SOH, n % M, M - 1 - (n % M)>>
           e == <<updcrc(b)>>
           hb == h \o b
           p == hb \o e
<1>1. n % M \in 0 .. (M - 1) /\ M \in Nat /\ BlockBytes \in Nat
  BY Values, DivMod
<1>2. /\ h \in Seq(Int) /\ Len(h) = 3
      /\ h[1] = SOH /\ h[2] = n % M /\ h[3] = M - 1 - (n % M)
  BY <1>1 DEF SOH
<1>3. e \in Seq(Int) /\ Len(e) = 1 /\ e[1] = updcrc(b)
  BY CrcIn
<1>4. Packet(n, b) = p
  BY DEF Packet
<1> HIDE DEF h, e
<1>5. /\ hb \in Seq(Int) /\ Len(hb) = BlockBytes + 3
      /\ \A i \in 1 .. (BlockBytes + 3) : hb[i] = IF i <= 3 THEN h[i] ELSE b[i - 3]
  <2>1. /\ hb \in Seq(Int) /\ Len(hb) = Len(h) + Len(b)
        /\ \A i \in 1 .. Len(h) + Len(b) : hb[i] = IF i <= Len(h) THEN h[i] ELSE b[i - Len(h)]
    BY <1>2, ConcatProperties
  <2> HIDE DEF hb
  <2>2. Len(h) + Len(b) = BlockBytes + 3
    BY <1>1, <1>2
  <2> QED BY <1>2, <2>1, <2>2
<1> HIDE DEF hb
<1>6. /\ p \in Seq(Int) /\ Len(p) = BlockBytes + 4
      /\ \A i \in 1 .. (BlockBytes + 4) : p[i] = IF i <= BlockBytes + 3 THEN hb[i] ELSE e[i - (BlockBytes + 3)]
  <2>1. /\ p \in Seq(Int) /\ Len(p) = Len(hb) + Len(e)
        /\ \A i \in 1 .. Len(hb) + Len(e) : p[i] = IF i <= Len(hb) THEN hb[i] ELSE e[i - Len(hb)]
    BY <1>3, <1>5, ConcatProperties
  <2> HIDE DEF p
  <2>2. Len(hb) + Len(e) = BlockBytes + 4
    BY <1>1, <1>3, <1>5
  <2> QED BY <1>5, <2>1, <2>2
<1> HIDE DEF p
<1>7. p[1] = SOH /\ p[2] = n % M /\ p[3] = M - 1 - (n % M)
  <2>1. 1 \in 1 .. (BlockBytes + 3) /\ 2 \in 1 .. (BlockBytes + 3) /\ 3 \in 1 .. (BlockBytes + 3)
    BY <1>1
  <2>2. p[1] = hb[1] /\ p[2] = hb[2] /\ p[3] = hb[3]
    BY <1>1, <1>6, <2>1
  <2>3. hb[1] = h[1] /\ hb[2] = h[2] /\ hb[3] = h[3]
    BY <1>5, <2>1
  <2> QED BY <1>2, <2>2, <2>3
<1>8. ASSUME NEW j \in 1 .. BlockBytes PROVE p[3 + j] = b[j]
  <2> DEFINE i == 3 + j
  <2>1. i \in 1 .. (BlockBytes + 3) /\ i \in 1 .. (BlockBytes + 4) /\ i <= BlockBytes + 3 /\ ~(i <= 3) /\ i - 3 = j
    BY <1>1
  <2> HIDE DEF i
  <2>2. p[i] = hb[i]
    BY <1>6, <2>1
  <2>3. hb[i] = b[i - 3]
    BY <1>5, <2>1
  <2> QED BY <2>1, <2>2, <2>3 DEF i
<1>9. p[BlockBytes + 4] = updcrc(b)
  <2>1. BlockBytes + 4 \in 1 .. (BlockBytes + 4) /\ ~(BlockBytes + 4 <= BlockBytes + 3) /\ (BlockBytes + 4) - (BlockBytes + 3) = 1
    BY <1>1
  <2> QED BY <1>3, <1>6, <2>1
<1> QED BY <1>4, <1>6, <1>7, <1>8, <1>9

\* The number and the bytes of the block being sent.
Num == IF sending = "null" THEN 0 ELSE next
Bytes == IF sending = "block" /\ next # 0 THEN FileBlock(next) ELSE NullBlock
SendsBlock == sending \in {"block", "null"}

LEMMA BytesShape ==
    ASSUME ModemAssumption, TypeOK
    PROVE  /\ Num \in Nat /\ Bytes \in Seq(Int) /\ Len(Bytes) = BlockBytes
           /\ \A j \in 1 .. BlockBytes : Bytes[j] \in Int /\ 0 <= Bytes[j] /\ Bytes[j] < 256
           /\ (sending = "block" /\ next # 0) => \A j \in 1 .. BlockBytes : Bytes[j] = file[next]
<1>1. next \in 0 .. Len(file) /\ file \in Seq(Contents) /\ Len(file) \in Nat
  BY LenProperties DEF TypeOK
<1>2. Num \in Nat
  BY <1>1 DEF Num
<1>3. CASE sending = "block" /\ next # 0
  <2>1. Bytes = [i \in 1 .. BlockBytes |-> file[next]]
    BY <1>3 DEF Bytes, FileBlock
  <2>2. next \in 1 .. Len(file)
    BY <1>1, <1>3
  <2>3. file[next] \in Contents
    BY <1>1, <2>2, ElementOfSeq
  <2>4. file[next] \in Int /\ 0 <= file[next] /\ file[next] < 256
    <3> DEFINE v == file[next]
    <3>1. v \in 0 .. 255
      BY <2>3 DEF ModemAssumption
    <3> HIDE DEF v
    <3>2. v \in Int /\ 0 <= v /\ v < 256
      BY <3>1
    <3> QED BY <3>2 DEF v
  <2> DEFINE v == file[next]
  <2> HIDE DEF v
  <2>5. Bytes = [i \in 1 .. BlockBytes |-> v] /\ v \in Int /\ 0 <= v /\ v < 256
    BY <2>1, <2>4 DEF v
  <2>6. Bytes \in Seq(Int) /\ Len(Bytes) = BlockBytes /\ \A j \in 1 .. BlockBytes : Bytes[j] = v
    BY <2>5, Values
  <2> QED BY <1>2, <2>5, <2>6 DEF v
<1>4. CASE ~(sending = "block" /\ next # 0)
  <2>1. Bytes = [i \in 1 .. BlockBytes |-> 0]
    BY <1>4 DEF Bytes, NullBlock
  <2>2. Bytes \in Seq(Int) /\ Len(Bytes) = BlockBytes /\ \A j \in 1 .. BlockBytes : Bytes[j] = 0
    BY <2>1, Values
  <2> QED BY <1>2, <1>4, <2>2
<1> QED BY <1>3, <1>4

LEMMA BlockMessage ==
    ASSUME ModemAssumption, TypeOK, SendsBlock
    PROVE  Message = Packet(Num, Bytes)
BY DEF Message, Num, Bytes, SendsBlock

\* What every message has.
LEMMA MessageShape ==
    ASSUME ModemAssumption, TypeOK, sending \in {"block", "eot", "null"}
    PROVE  /\ Message \in Seq(Int) /\ Len(Message) \in Nat \ {0}
           /\ SendsBlock => Len(Message) = BlockBytes + 4 /\ Message[1] = SOH
           /\ sending = "eot" => Message = <<EOT>> /\ Len(Message) = 1 /\ Message[1] = EOT
<1>1. CASE SendsBlock
  <2>1. Message = Packet(Num, Bytes) /\ Num \in Nat /\ Bytes \in Seq(Int) /\ Len(Bytes) = BlockBytes
    BY <1>1, BlockMessage, BytesShape
  <2>2. Packet(Num, Bytes) \in Seq(Int) /\ Len(Packet(Num, Bytes)) = BlockBytes + 4 /\ Packet(Num, Bytes)[1] = SOH
    BY <2>1, PacketShape
  <2>3. BlockBytes + 4 \in Nat \ {0} /\ sending # "eot"
    BY <1>1, Values DEF SendsBlock
  <2> QED BY <2>1, <2>2, <2>3
<1>2. CASE sending = "eot"
  <2>1. Message = <<EOT>> /\ ~SendsBlock
    BY <1>2 DEF Message, SendsBlock
  <2> QED BY <2>1 DEF EOT
<1> QED BY <1>1, <1>2 DEF SendsBlock

\* What arrives is the message, but for one byte behind its header perhaps.
LEMMA ArrivingShape ==
    ASSUME ModemAssumption, TypeOK, sending \in {"block", "eot", "null"}, NEW m \in Arriving
    PROVE  /\ m \in Seq(Int) /\ Len(m) = Len(Message) /\ m[1] = Message[1]
           /\ \/ m = Message
              \/ \E k \in 2 .. Len(Message) :
                    /\ m[k] = Other
                    /\ \A i \in 1 .. Len(Message) : i # k => m[i] = Message[i]
<1>1. Message \in Seq(Int) /\ Len(Message) \in Nat \ {0}
  BY MessageShape
<1> DEFINE c == Message
<1> HIDE DEF c
<1>2. CASE m = Message
  BY <1>1, <1>2
<1>3. CASE m # Message
  <2>1. PICK k \in 2 .. Len(c) : m = [c EXCEPT ![k] = Other]
    BY <1>3 DEF Arriving, c
  <2>2. k \in 1 .. Len(c) /\ Other \in Int /\ c \in Seq(Int) /\ 1 \in 1 .. Len(c) /\ 1 # k
    BY <1>1 DEF Other, c
  <2>3. /\ m \in Seq(Int) /\ Len(m) = Len(c)
        /\ \A i \in 1 .. Len(c) : m[i] = IF i = k THEN Other ELSE c[i]
    BY <2>1, <2>2, ExceptSeq
  <2> QED BY <2>2, <2>3 DEF c
<1> QED BY <1>2, <1>3

\* A whole block: its numbers tell whether they came as they were sent, and its CRC whether its
\* bytes did.
LEMMA WholeBlock ==
    ASSUME ModemAssumption, TypeOK, InTurn, InBlock, Len(mybuf) = BlockBytes + 3
    PROVE  /\ toRecv = <<>> /\ SendsBlock /\ ~again /\ toSend = <<>>
           /\ data \in Seq(Int) /\ Len(data) = BlockBytes
           /\ M - 1 - bNo = nBno => bNo = Num % M
           /\ updcrc(data) = mybuf[BlockBytes + 3] => \A j \in 1 .. BlockBytes : data[j] = Bytes[j]
<1> DEFINE L == Len(Message)
           s == Bytes
           r == Num % M
<1>1. sending \in {"block", "eot", "null"} /\ ~again /\ toSend = <<>>
  BY DEF InTurn, UnderWay
<1>2. PICK m \in Arriving : Carried(m)
  BY DEF InTurn, UnderWay
<1>3. /\ m \in Seq(Int) /\ Len(m) = L /\ m[1] = Message[1]
      /\ \/ m = Message
         \/ \E k \in 2 .. L : m[k] = Other /\ \A i \in 1 .. L : i # k => m[i] = Message[i]
  BY <1>1, ArrivingShape
<1>4. /\ Len(m) = 1 + Len(mybuf) + Len(toRecv)
      /\ \A i \in 1 .. Len(mybuf) : mybuf[i] = m[1 + i]
  BY <1>2 DEF Carried
<1>5. Len(toRecv) \in Nat /\ toRecv \in Seq(Int) /\ BlockBytes \in Nat \ {0} /\ M \in Nat \ {0} /\ M >= 3
  BY Values, LenProperties DEF TypeOK
<1>6. SendsBlock /\ L = BlockBytes + 4
  <2> DEFINE n == Len(toRecv)
  <2>1. L = 1 + (BlockBytes + 3) + n
    BY <1>3, <1>4
  <2>2. L # 1
    <3> HIDE DEF L, n
    <3>1. n \in Nat
      BY <1>5 DEF n
    <3> QED BY <1>5, <2>1, <3>1
  <2>3. SendsBlock
    BY <1>1, <2>2, MessageShape DEF SendsBlock
  <2> QED BY <1>1, <2>3, MessageShape
<1>7. toRecv = <<>>
  <2> DEFINE n == Len(toRecv)
  <2>1. BlockBytes + 4 = 1 + (BlockBytes + 3) + n /\ n \in Nat
    BY <1>3, <1>4, <1>5, <1>6
  <2> HIDE DEF n
  <2>2. n = 0
    BY <1>5, <2>1
  <2> QED BY <1>5, <2>2, EmptySeq DEF n
<1>8. /\ s \in Seq(Int) /\ Len(s) = BlockBytes /\ Num \in Nat
      /\ \A j \in 1 .. BlockBytes : s[j] \in Int /\ 0 <= s[j] /\ s[j] < 256
  BY BytesShape
<1>9. r \in Int /\ 0 <= r /\ r < M
  <2>1. r \in 0 .. (M - 1)
    BY <1>5, <1>8, DivMod
  <2> HIDE DEF r
  <2> QED BY <1>5, <2>1
<1>10. /\ Message[2] = r /\ Message[3] = M - 1 - r
       /\ \A j \in 1 .. BlockBytes : Message[3 + j] = s[j]
       /\ Message[BlockBytes + 4] = updcrc(s)
  <2>1. Message = Packet(Num, s)
    BY <1>6, BlockMessage
  <2> HIDE DEF s
  <2> QED BY <1>8, <2>1, PacketShape
<1> HIDE DEF s, r, L
<1>11. bNo = m[2] /\ nBno = m[3] /\ mybuf[BlockBytes + 3] = m[BlockBytes + 4]
  <2>1. 1 \in 1 .. Len(mybuf) /\ 2 \in 1 .. Len(mybuf) /\ BlockBytes + 3 \in 1 .. Len(mybuf)
    BY <1>5
  <2>2. mybuf[1] = m[1 + 1] /\ mybuf[2] = m[1 + 2] /\ mybuf[BlockBytes + 3] = m[1 + (BlockBytes + 3)]
    BY <1>4, <2>1
  <2>3. 1 + (BlockBytes + 3) = BlockBytes + 4
    BY <1>5
  <2> QED BY <2>2, <2>3 DEF bNo, nBno
<1>12. /\ data \in Seq(Int) /\ Len(data) = BlockBytes
       /\ \A j \in 1 .. BlockBytes : data[j] = m[3 + j]
  <2>1. \A i \in 1 .. Len(mybuf) : mybuf[i] \in Int
    BY ElementOfSeq DEF TypeOK
  <2>2. \A i \in 3 .. (BlockBytes + 2) : mybuf[i] \in Int
    BY <1>5, <2>1
  <2>3. /\ data \in Seq(Int) /\ Len(data) = BlockBytes
        /\ \A j \in 1 .. BlockBytes : data[j] = mybuf[3 + j - 1]
    <3>1. BlockBytes + 2 \in Int /\ 3 <= BlockBytes + 2 /\ (BlockBytes + 2) - 3 + 1 = BlockBytes
      BY <1>5
    <3> QED BY <2>2, <3>1, SubSeqProperties DEF data
  <2>4. ASSUME NEW j \in 1 .. BlockBytes PROVE data[j] = m[3 + j]
    <3> DEFINE i == 2 + j
    <3>1. i \in 1 .. Len(mybuf) /\ 1 + i = 3 + j /\ 3 + j - 1 = i
      BY <1>5
    <3> HIDE DEF i
    <3> QED BY <1>4, <2>3, <3>1
  <2> QED BY <2>3, <2>4
<1>13. CASE m = Message
  <2>1. bNo = r
    BY <1>10, <1>11, <1>13
  <2>2. \A j \in 1 .. BlockBytes : data[j] = s[j]
    BY <1>10, <1>12, <1>13
  <2> QED BY <1>1, <1>6, <1>7, <1>12, <2>1, <2>2 DEF r, s
<1>14. ASSUME NEW k \in 2 .. (BlockBytes + 4), m[k] = Other,
              \A i \in 1 .. (BlockBytes + 4) : i # k => m[i] = Message[i]
       PROVE  /\ M - 1 - bNo = nBno => bNo = r
              /\ updcrc(data) = mybuf[BlockBytes + 3] => \A j \in 1 .. BlockBytes : data[j] = s[j]
  <2>1. ASSUME M - 1 - bNo = nBno PROVE bNo = r
    <3>1. CASE k = 2
      <4>1. m[2] = -1 /\ 3 \in 1 .. (BlockBytes + 4) /\ 3 # k
        BY <1>5, <1>14, <3>1 DEF Other
      <4>2. m[3] = M - 1 - r
        BY <1>10, <1>14, <4>1
      <4> QED BY <1>5, <1>9, <1>11, <2>1, <4>1, <4>2
    <3>2. CASE k # 2
      <4>1. 2 \in 1 .. (BlockBytes + 4)
        BY <1>5
      <4>2. m[2] = r
        BY <1>10, <1>14, <3>2, <4>1
      <4> QED BY <1>11, <4>2
    <3> QED BY <3>1, <3>2
  <2>2. ASSUME updcrc(data) = mybuf[BlockBytes + 3] PROVE \A j \in 1 .. BlockBytes : data[j] = s[j]
    <3>1. CASE k \in 2 .. 3
      <4>1. ASSUME NEW j \in 1 .. BlockBytes PROVE data[j] = s[j]
        <5> DEFINE i == 3 + j
        <5>1. i \in 1 .. (BlockBytes + 4) /\ i # k
          BY <1>5, <3>1
        <5>2. data[j] = m[i] /\ Message[i] = s[j]
          BY <1>10, <1>12
        <5> HIDE DEF i
        <5> QED BY <1>14, <5>1, <5>2
      <4> QED BY <4>1
    <3>2. CASE k \in 4 .. (BlockBytes + 3)
      <4> DEFINE q == k - 3
      <4>1. q \in 1 .. BlockBytes /\ 3 + q = k
        BY <1>5, <3>2
      <4> HIDE DEF q
      <4>2. data[q] = Other
        BY <1>12, <1>14, <4>1
      <4>3. ASSUME NEW j \in 1 .. BlockBytes, j # q PROVE data[j] = s[j]
        <5> DEFINE i == 3 + j
        <5>1. i \in 1 .. (BlockBytes + 4) /\ i # k
          BY <1>5, <4>1, <4>3
        <5>2. data[j] = m[i] /\ Message[i] = s[j]
          BY <1>10, <1>12
        <5> HIDE DEF i
        <5> QED BY <1>14, <5>1, <5>2
      <4>4. updcrc(data) # updcrc(s)
        <5> DEFINE d == data
        <5>1. d \in Seq(Int) /\ Len(d) = Len(s) /\ q \in 1 .. Len(s) /\ d[q] = Other
          BY <1>8, <1>12, <4>1, <4>2
        <5>2. \A t \in 1 .. Len(s) : t # q => d[t] = s[t]
          BY <1>8, <4>3
        <5>3. s \in Seq(Int) /\ s[q] \in Int /\ 0 <= s[q] /\ s[q] < 256 /\ M \in Nat
          BY <1>5, <1>8, <4>1
        <5> HIDE DEF d
        <5>4. updcrc(d) # updcrc(s)
          BY <5>1, <5>2, <5>3, CrcTells
        <5> QED BY <5>4 DEF d
      <4>5. BlockBytes + 4 \in 1 .. (BlockBytes + 4) /\ BlockBytes + 4 # k
        BY <1>5, <3>2
      <4>6. m[BlockBytes + 4] = updcrc(s)
        BY <1>10, <1>14, <4>5
      <4> QED BY <1>11, <2>2, <4>4, <4>6
    <3>3. CASE k = BlockBytes + 4
      <4>1. mybuf[BlockBytes + 3] = -1
        BY <1>11, <1>14, <3>3 DEF Other
      <4>2. updcrc(data) \in Int /\ updcrc(data) >= M
        BY <1>12, CrcIn
      <4> QED BY <1>5, <2>2, <4>1, <4>2
    <3>4. k \in 2 .. 3 \/ k \in 4 .. (BlockBytes + 3) \/ k = BlockBytes + 4
      BY <1>5
    <3> QED BY <3>1, <3>2, <3>3, <3>4
  <2> QED BY <2>1, <2>2
<1>15. CASE \E k \in 2 .. L : m[k] = Other /\ \A i \in 1 .. L : i # k => m[i] = Message[i]
  <2>1. \E k \in 2 .. (BlockBytes + 4) : m[k] = Other /\ \A i \in 1 .. (BlockBytes + 4) : i # k => m[i] = Message[i]
    BY <1>6, <1>15
  <2>2. /\ M - 1 - bNo = nBno => bNo = r
        /\ updcrc(data) = mybuf[BlockBytes + 3] => \A j \in 1 .. BlockBytes : data[j] = s[j]
    BY <1>14, <2>1
  <2> QED BY <1>1, <1>6, <1>7, <1>12, <2>2 DEF r, s
<1> QED BY <1>3, <1>13, <1>15 DEF L

-----------------------------------------------------------------------------
(* Types                                                                    *)

Answers == {"C", "ACK", "NAK"}

LEMMA Answered ==
    ASSUME toSend \in Seq(Answers), NEW b \in Seq(Answers), Answer(b)
    PROVE  toSend' \in Seq(Answers) /\ (toSend = <<>> => toSend' = b)
<1>1. toSend \o b \in Seq(Answers)
  BY ConcatProperties
<1>2. toSend = <<>> => toSend \o b = b
  BY ConcatEmptySeq
<1> QED BY <1>1, <1>2 DEF Answer

LEMMA AnswersOf ==
    /\ <<>> \in Seq(Answers) /\ <<"C">> \in Seq(Answers) /\ <<"ACK">> \in Seq(Answers)
    /\ <<"NAK">> \in Seq(Answers) /\ <<"ACK", "C">> \in Seq(Answers)
BY DEF Answers

LEMMA TypeInit == ASSUME ModemAssumption, ModemInit PROVE TypeOK
<1>1. file \in Seq(Contents) /\ Len(file) \in Nat /\ Len(file) > 0
  <2>1. PICK n \in FileLens : file \in [1 .. n -> Contents]
    BY DEF ModemInit
  <2>2. n \in Nat /\ n > 0
    BY DEF ModemAssumption
  <2> QED BY <2>1, <2>2
<1>2. /\ modemPc \in {"wait", "header", "block", "second eot", "last", "last block", "last eot", "returned"}
      /\ modemMode \in 1 .. 2 /\ mTimeoutCount \in 0 .. RETRY /\ bno \in Nat /\ length \in Nat
  BY Values DEF ModemInit
<1>3. mybuf \in Seq(Int) /\ Len(mybuf) <= BlockBytes + 3
  BY Values DEF ModemInit
<1>4. DOMAIN memory \subseteq Int /\ mode \in Modes
  BY DEF ModemInit
<1>5. sending \in {"C", "block", "eot", "null", "done"} /\ next \in 0 .. Len(file) /\ again \in BOOLEAN
  <2>1. sending = "C" /\ next \in {0, 1} /\ again = FALSE
    BY DEF ModemInit
  <2>2. next \in 0 .. Len(file)
    BY <1>1, <2>1
  <2> QED BY <2>1, <2>2
<1>6. toRecv \in Seq(Int) /\ toSend \in Seq({"C", "ACK", "NAK"})
  BY DEF ModemInit
<1>7. faults \in 0 .. MaxFaults /\ headHit \in BOOLEAN /\ lastTwice \in BOOLEAN
  <2>1. faults = 0 /\ 0 \in 0 .. MaxFaults
    BY Values DEF ModemInit
  <2>2. headHit = FALSE /\ lastTwice = FALSE
    BY DEF ModemInit
  <2> QED BY <2>1, <2>2
<1> QED BY <1>1, <1>2, <1>3, <1>4, <1>5, <1>6, <1>7 DEF TypeOK

\* The parts of TypeOK, by who changes them.
ReceiverType ==
    /\ modemPc \in {"wait", "header", "block", "second eot", "last", "last block", "last eot", "returned"}
    /\ modemMode \in 1 .. 2 /\ mTimeoutCount \in 0 .. RETRY /\ bno \in Nat /\ length \in Nat
    /\ mybuf \in Seq(Int) /\ Len(mybuf) <= BlockBytes + 3
    /\ DOMAIN memory \subseteq Int
SenderType ==
    /\ mode \in Modes /\ file \in Seq(Contents) /\ Len(file) > 0
    /\ sending \in {"C", "block", "eot", "null", "done"} /\ next \in 0 .. Len(file) /\ again \in BOOLEAN
LineType == toRecv \in Seq(Int) /\ toSend \in Seq(Answers)
FaultType == faults \in 0 .. MaxFaults /\ headHit \in BOOLEAN /\ lastTwice \in BOOLEAN
Types == ReceiverType /\ SenderType /\ LineType /\ FaultType

LEMMA TypeParts == (TypeOK <=> Types) /\ (TypeOK' <=> Types')
BY DEF TypeOK, Types, ReceiverType, SenderType, LineType, FaultType, Answers

LEMMA TailType ==
    ASSUME toRecv \in Seq(Int), toRecv # <<>>
    PROVE  /\ Head(toRecv) \in Int /\ Tail(toRecv) \in Seq(Int) /\ Len(Tail(toRecv)) = Len(toRecv) - 1
           /\ \A i \in 1 .. Len(Tail(toRecv)) : Tail(toRecv)[i] = toRecv[i + 1]
           /\ Head(toRecv) = toRecv[1]
<1>1. Head(toRecv) = toRecv[1]
  OBVIOUS
<1> QED BY <1>1, HeadTailProperties

LEMMA IdleType == ASSUME SenderType, FaultType, Idle PROVE SenderType' /\ FaultType'
BY DEF SenderType, FaultType, Idle, sender

LEMMA ReceiveType ==
    ASSUME ModemAssumption, Types, Receive
    PROVE  Types'
<1> SUFFICES ReceiverType' /\ LineType'
  <2>1. Idle
    BY DEF Receive, mStartTimeout, Header, SecondEot, TakeByte, StartBlock, DataBlock, WrongNumber
  <2> QED BY <2>1, IdleType DEF Types
<1> USE DEF Types
<1>0. BlockBytes \in Nat /\ RETRY \in Nat
  BY Values
<1>1. CASE mStartTimeout
  <2>1. ReceiverType'
    BY <1>0, <1>1 DEF mStartTimeout, ReceiverType
  <2>2. UNCHANGED toRecv /\ (UNCHANGED toSend \/ Answer(<<"C">>))
    BY <1>1 DEF mStartTimeout
  <2>3. toSend \in Seq(Answers) /\ toRecv \in Seq(Int)
    BY DEF LineType
  <2>4. toSend' \in Seq(Answers)
    BY <2>2, <2>3, Answered, AnswersOf
  <2> QED BY <2>1, <2>2, <2>3, <2>4 DEF LineType
<1>2. CASE Header
  <2>1. toRecv' \in Seq(Int)
    BY <1>2, TailType DEF Header, LineType
  <2>2. CASE Head(toRecv) = SOH
    <3>1. /\ modemPc' = (IF modemPc = "last" THEN "last block" ELSE "block") /\ mybuf' = <<>> /\ UNCHANGED toSend
          /\ UNCHANGED <<modemMode, mTimeoutCount, bno, length, memory>>
      <4>1. SOH \in {SOH, EOT} /\ SOH # EOT
        BY DEF SOH, EOT
      <4> QED BY <1>2, <2>2, <4>1, Zenon DEF Header
    <3>2. mybuf' \in Seq(Int) /\ Len(mybuf') <= BlockBytes + 3
      <4>1. <<>> \in Seq(Int) /\ Len(<<>>) = 0
        BY EmptySeq
      <4>2. mybuf' \in Seq(Int) /\ Len(mybuf') = 0
        BY <3>1, <4>1
      <4> QED BY <1>0, <4>2
    <3> QED BY <2>1, <3>1, <3>2 DEF ReceiverType, LineType
  <2>3. CASE Head(toRecv) # SOH
    <3>1. /\ modemPc' \in {"last eot", "second eot", "returned", "header"}
          /\ (Answer(<<"NAK">>) \/ Answer(<<"ACK">>))
          /\ UNCHANGED <<modemMode, mTimeoutCount, bno, length, mybuf, memory>>
      BY <1>2, <2>3 DEF Header
    <3>2. toSend' \in Seq(Answers)
      BY <3>1, Answered, AnswersOf DEF LineType
    <3> QED BY <2>1, <3>1, <3>2 DEF ReceiverType, LineType
  <2> QED BY <2>2, <2>3
<1>3. CASE SecondEot
  <2>1. toRecv' \in Seq(Int)
    BY <1>3, TailType DEF SecondEot, LineType
  <2>2. /\ modemPc' \in {"last", "returned"} /\ UNCHANGED <<modemMode, mTimeoutCount, bno, length, mybuf, memory>>
        /\ (Answer(<<"ACK", "C">>) \/ Answer(<<"ACK">>))
    BY <1>3 DEF SecondEot
  <2>3. toSend' \in Seq(Answers)
    BY <2>2, Answered, AnswersOf DEF LineType
  <2> QED BY <2>1, <2>2, <2>3 DEF ReceiverType, LineType
<1>4. CASE TakeByte
  <2>1. toRecv' \in Seq(Int) /\ Head(toRecv) \in Int
    BY <1>4, TailType DEF TakeByte, LineType
  <2>2. mybuf' \in Seq(Int) /\ Len(mybuf') = Len(mybuf) + 1
    BY <1>4, <2>1, AppendProperties DEF TakeByte, ReceiverType
  <2>3. Len(mybuf) < BlockBytes + 3 /\ Len(mybuf) \in Nat
    BY <1>4, LenProperties DEF TakeByte, ReceiverType
  <2>4. Len(mybuf') <= BlockBytes + 3
    BY <1>0, <2>2, <2>3
  <2>5. UNCHANGED <<modemPc, modemMode, mTimeoutCount, bno, length, memory, toSend>>
    BY <1>4 DEF TakeByte
  <2> QED BY <2>1, <2>2, <2>4, <2>5 DEF ReceiverType, LineType
<1>5. CASE StartBlock
  <2>1. /\ modemPc' \in {"header", "returned"} /\ modemMode' = 2 /\ Answer(<<"ACK", "C">>)
        /\ UNCHANGED <<mTimeoutCount, bno, length, mybuf, memory, toRecv>>
    BY <1>5 DEF StartBlock, Ends
  <2>2. toSend' \in Seq(Answers)
    BY <2>1, Answered, AnswersOf DEF LineType
  <2>3. 2 \in 1 .. 2
    OBVIOUS
  <2> QED BY <2>1, <2>2, <2>3 DEF ReceiverType, LineType
<1>6. CASE DataBlock
  <2>1. /\ modemPc' \in {"header", "returned"} /\ length' = length + BlockBytes
        /\ UNCHANGED <<modemMode, mTimeoutCount, mybuf, toRecv>>
        /\ DOMAIN memory' = DOMAIN memory \cup {Offset(j) : j \in 1 .. BlockBytes}
    BY <1>6 DEF DataBlock, Ends
  <2>2. bNo \in Int /\ bno \in Int /\ M \in Int
    <3>1. Len(mybuf) = BlockBytes + 3 /\ mybuf \in Seq(Int)
      BY <1>6 DEF DataBlock, ReceiverType
    <3>2. 1 \in 1 .. Len(mybuf)
      BY <1>0, <3>1
    <3>3. bNo \in Int
      BY <3>1, <3>2, ElementOfSeq DEF bNo
    <3>4. bno \in Nat
      BY DEF ReceiverType
    <3> QED BY <3>3, <3>4, Values
  <2>3. \A j \in 1 .. BlockBytes : Offset(j) \in Int
    BY <1>0, <2>2 DEF Offset
  <2>4. bno' \in Nat /\ toSend' \in Seq(Answers)
    <3>1. CASE Answer(<<"ACK">>) /\ bno' = NextRange
      <4>1. bno' = bno + 1 \/ bno' = bno
        BY <3>1 DEF NextRange
      <4>2. bno \in Nat
        BY DEF ReceiverType
      <4>3. bno' \in Nat
        BY <4>1, <4>2
      <4> QED BY <3>1, <4>3, Answered, AnswersOf DEF LineType
    <3>2. CASE Answer(<<"NAK">>) /\ bno' = bno
      BY <3>2, Answered, AnswersOf DEF LineType, ReceiverType
    <3> QED BY <1>6, <3>1, <3>2 DEF DataBlock
  <2>5. length' \in Nat
    <3>1. length \in Nat /\ length' = length + BlockBytes
      BY <2>1 DEF ReceiverType
    <3> QED BY <1>0, <3>1
  <2>6. DOMAIN memory' \subseteq Int
    BY <2>1, <2>3 DEF ReceiverType
  <2> QED BY <2>1, <2>4, <2>5, <2>6 DEF ReceiverType, LineType
<1>7. CASE WrongNumber
  <2>1. /\ modemPc' \in {"header", "returned"} /\ Answer(<<"NAK">>)
        /\ UNCHANGED <<modemMode, mTimeoutCount, bno, length, mybuf, memory, toRecv>>
    BY <1>7 DEF WrongNumber, Ends
  <2>2. toSend' \in Seq(Answers)
    BY <2>1, Answered, AnswersOf DEF LineType
  <2> QED BY <2>1, <2>2 DEF ReceiverType, LineType
<1> QED BY <1>1, <1>2, <1>3, <1>4, <1>5, <1>6, <1>7 DEF Receive

LEMMA SendType ==
    ASSUME ModemAssumption, Types, Send \/ Reply \/ AnswerLost
    PROVE  Types'
<1>0. MaxFaults \in Nat /\ TypeOK /\ Len(file) \in Nat
  BY Values, TypeParts, LenProperties DEF Types, SenderType
<1> USE DEF Types
<1>1. CASE Send
  <2>1. Message \in Seq(Int) /\ Len(Message) \in Nat
    BY <1>0, <1>1, MessageShape DEF Send
  <2>2. /\ UNCHANGED <<receiver, mode, file, sending, next, lastTwice>> /\ again' = FALSE /\ toSend' = <<>>
        /\ \/ toRecv' = Message /\ UNCHANGED <<faults, headHit>>
           \/ /\ faults < MaxFaults /\ faults' = faults + 1
              /\ \E g \in Garbled(Message) : toRecv' = g /\ headHit' = (headHit \/ g[1] # Message[1])
    BY <1>1 DEF Send
  <2>3. toRecv' \in Seq(Int)
    <3>1. ASSUME NEW g \in Garbled(Message) PROVE g \in Seq(Int)
      <4>1. PICK i \in 1 .. Len(Message) : g = [Message EXCEPT ![i] = Other]
        BY DEF Garbled
      <4>2. Other \in Int
        BY DEF Other
      <4> QED BY <2>1, <4>1, <4>2, ExceptSeq
    <3> QED BY <2>1, <2>2, <3>1
  <2>4. FaultType'
    <3>1. headHit' \in BOOLEAN /\ lastTwice' \in BOOLEAN
      BY <2>2 DEF FaultType
    <3>2. faults \in 0 .. MaxFaults /\ (faults' = faults \/ (faults < MaxFaults /\ faults' = faults + 1))
      BY <2>2 DEF FaultType
    <3>3. faults' \in 0 .. MaxFaults
      BY <1>0, <3>2
    <3> QED BY <3>1, <3>3 DEF FaultType
  <2>5. toSend' \in Seq(Answers)
    BY <2>2, AnswersOf
  <2> QED BY <2>2, <2>3, <2>4, <2>5 DEF ReceiverType, SenderType, LineType, receiver
<1>2. CASE Reply
  <2>1. toSend' \in Seq(Answers)
    BY <1>2, HeadTailProperties DEF Reply, LineType
  <2>2. UNCHANGED <<receiver, mode, file, toRecv, faults, headHit, lastTwice>>
    BY <1>2 DEF Reply
  <2>3. /\ sending' \in {"C", "block", "eot", "null", "done"} /\ next' \in 0 .. Len(file)
        /\ again' \in BOOLEAN
    <3>1. CASE Acked
      <4>1. next \in 0 .. Len(file) /\ Len(file) > 0 /\ again \in BOOLEAN
            /\ sending \in {"C", "block", "eot", "null", "done"}
        BY DEF SenderType
      <4>2. /\ sending' \in {"C", "block", "eot", "null", "done"}
            /\ again' = again \/ again' = TRUE \/ again' = FALSE
        BY <3>1, <4>1 DEF Acked, Sends
      <4>3. next' = next \/ (next = 0 /\ next' = 1) \/ (next < Len(file) /\ next' = next + 1)
        BY <3>1 DEF Acked, Sends
      <4>4. next' \in 0 .. Len(file)
        BY <1>0, <4>1, <4>3
      <4> QED BY <4>1, <4>2, <4>4
    <3>2. CASE UNCHANGED <<sending, next, again>> \/ Sends("block", next)
      BY <3>2 DEF SenderType, Sends
    <3>3. CASE again' = TRUE /\ UNCHANGED <<sending, next>>
      BY <3>3 DEF SenderType
    <3> QED BY <1>2, <3>1, <3>2, <3>3 DEF Reply
  <2> QED BY <2>1, <2>2, <2>3 DEF ReceiverType, SenderType, LineType, FaultType, receiver
<1>3. CASE AnswerLost
  <2>1. /\ faults < MaxFaults /\ faults' = faults + 1 /\ toSend' = <<>> /\ again' = TRUE
        /\ lastTwice' \in BOOLEAN
        /\ UNCHANGED <<receiver, mode, file, sending, next, toRecv, headHit>>
    BY <1>3 DEF AnswerLost, FaultType
  <2>2. FaultType'
    BY <1>0, <2>1 DEF FaultType
  <2> QED BY <2>1, <2>2, AnswersOf DEF ReceiverType, SenderType, LineType, receiver
<1> QED BY <1>1, <1>2, <1>3

LEMMA TypeStep == ASSUME ModemAssumption, TypeOK, [ModemNext]_modemVars PROVE TypeOK'
<1>1. Types
  BY TypeParts
<1>2. CASE Receive
  BY <1>1, <1>2, ReceiveType, TypeParts
<1>3. CASE Send \/ Reply \/ AnswerLost
  BY <1>1, <1>3, SendType, TypeParts
<1>4. CASE UNCHANGED modemVars
  BY <1>4 DEF TypeOK, modemVars, receiver, sender
<1> QED BY <1>2, <1>3, <1>4 DEF ModemNext

-----------------------------------------------------------------------------
(* What a step leaves as it is                                              *)

LEMMA SamePlaced ==
    ASSUME UNCHANGED <<memory, file>>
    PROVE  /\ \A n : Placed(n)' <=> Placed(n)
           /\ UNCHANGED bno => \A n : UpTo(n)' <=> UpTo(n)
BY DEF Placed, UpTo

LEMMA SameMessage ==
    ASSUME UNCHANGED <<sending, next, file>>
    PROVE  Message' = Message /\ Arriving' = Arriving
<1>1. FileBlock(next)' = FileBlock(next)
  BY DEF FileBlock
<1>2. Message' = Message
  BY <1>1 DEF Message
<1> QED BY <1>2 DEF Arriving

\* The receiver behind the end of the file.
Late == {"second eot", "last", "last block", "last eot", "returned"}
Ending == {"eot", "null", "done"}

LEMMA SameRange ==
    ASSUME InRange, UNCHANGED <<memory, file, sending, next, bno, mode>>,
           sending = "block" => (Acknowledged' <=> Acknowledged),
           modemPc' \in Late => modemPc \in Late \/ sending \in Ending
    PROVE  InRange'
<1>1. \A n : (Placed(n)' <=> Placed(n)) /\ (UpTo(n)' <=> UpTo(n))
  BY SamePlaced
<1>2. sending = "C" => next \in {0, 1} /\ UpTo(next)
  BY DEF InRange
<1>3. sending = "block" => UpTo(IF Acknowledged THEN next + 1 ELSE next)
  BY DEF InRange
<1>4. /\ sending \in {"eot", "null", "done"} => Placed(Len(file))
      /\ sending = "null" => mode = "ymodem"
  BY DEF InRange
<1>5. modemPc' \in {"second eot", "last", "last block", "last eot", "returned"} => sending \in {"eot", "null", "done"}
  BY DEF InRange, Late, Ending
<1>6. sending' = "C" => next' \in {0, 1} /\ UpTo(next)'
  <2> SUFFICES ASSUME sending' = "C" PROVE next' \in {0, 1} /\ UpTo(next)'
    OBVIOUS
  <2>1. bno = next \div M /\ Placed(next - 1) /\ next \in {0, 1}
    BY <1>2 DEF UpTo
  <2>2. Placed(next - 1)'
    BY <2>1 DEF Placed
  <2> QED BY <2>1, <2>2 DEF UpTo
<1>7. sending' = "block" => UpTo(IF Acknowledged THEN next + 1 ELSE next)'
  <2> SUFFICES ASSUME sending' = "block" PROVE UpTo(IF Acknowledged THEN next + 1 ELSE next)'
    OBVIOUS
  <2>1. CASE Acknowledged
    <3>1. Acknowledged' /\ UpTo(next + 1)
      BY <1>3, <2>1
    <3>2. UpTo(next + 1)'
      BY <3>1 DEF UpTo, Placed
    <3> QED BY <3>1, <3>2
  <2>2. CASE ~Acknowledged
    <3>1. ~Acknowledged' /\ UpTo(next)
      BY <1>3, <2>2
    <3>2. UpTo(next)'
      BY <3>1 DEF UpTo, Placed
    <3> QED BY <3>1, <3>2
  <2> QED BY <2>1, <2>2
<1>8. sending' \in {"eot", "null", "done"} => Placed(Len(file))'
  BY <1>4 DEF Placed
<1> QED BY <1>4, <1>5, <1>6, <1>7, <1>8 DEF InRange

LEMMA Starts ==
    ASSUME ModemAssumption
    PROVE  /\ 0 \div M = 0 /\ 1 \div M = 0 /\ 0 % M = 0
           /\ UpTo(0) <=> bno = 0
           /\ UpTo(1) <=> bno = 0
<1>1. M \in Nat \ {0} /\ M >= 3 /\ BlockBytes \in Nat
  BY Values
<1>2. (0 * M + 0) \div M = 0 /\ (0 * M + 0) % M = 0 /\ (0 * M + 1) \div M = 0
  <2>1. 0 \in Int /\ 0 \in 0 .. (M - 1) /\ 1 \in 0 .. (M - 1)
    BY <1>1
  <2> QED BY <1>1, <2>1, Division
<1>3. 0 * M + 0 = 0 /\ 0 * M + 1 = 1
  BY <1>1
<1>4. Placed(0 - 1) /\ Placed(1 - 1)
  <2>1. (0 - 1) * BlockBytes - 1 < 0 /\ (0 - 1) * BlockBytes - 1 \in Int /\ (1 - 1) * BlockBytes - 1 = -1
    BY <1>1
  <2>2. \A i \in 0 .. (0 - 1) * BlockBytes - 1 : FALSE
    BY <2>1
  <2>3. \A i \in 0 .. (1 - 1) * BlockBytes - 1 : FALSE
    BY <2>1
  <2> QED BY <2>2, <2>3 DEF Placed
<1> QED BY <1>2, <1>3, <1>4 DEF UpTo

LEMMA InvInit == ASSUME ModemAssumption, ModemInit PROVE InTurn /\ InRange
<1>1. modemPc = "wait" /\ toRecv = <<>> /\ sending = "C" /\ bno = 0 /\ next \in {0, 1}
  BY DEF ModemInit
<1>2. InTurn
  BY <1>1 DEF InTurn, UnderWay, InBlock
<1>3. UpTo(next)
  BY <1>1, Starts
<1> QED BY <1>1, <1>2, <1>3 DEF InRange

-----------------------------------------------------------------------------
(* The steps of the receiver                                                *)

\* The invariant before a step, and the provisos behind it.
BlocksBefore == TypeOK /\ InTurn /\ InRange /\ Clean /\ Clean'

LEMMA TimeoutStep ==
    ASSUME ModemAssumption, BlocksBefore, mStartTimeout
    PROVE  InTurn' /\ InRange'
<1>1. /\ modemPc = "wait" /\ toRecv = <<>>
      /\ UNCHANGED <<modemPc, bno, memory, toRecv, mode, file, sending, next, again>>
  BY DEF mStartTimeout, Idle, sender
<1>2. ~UnderWay /\ ~UnderWay'
  BY <1>1 DEF UnderWay, InBlock
<1>3. sending = "C" \/ again
  BY <1>1, <1>2 DEF BlocksBefore, InTurn
<1>4. InTurn'
  BY <1>1, <1>2, <1>3 DEF InTurn
<1>5. sending = "block" => ~Acknowledged /\ ~Acknowledged'
  BY <1>1, <1>3 DEF Acknowledged
<1>6. InRange'
  BY <1>1, <1>5, SameRange DEF BlocksBefore, Late
<1> QED BY <1>4, <1>6

\* The header is the message's own.
LEMMA HeaderStep ==
    ASSUME ModemAssumption, BlocksBefore, Header
    PROVE  InTurn' /\ InRange'
<1>1. /\ modemPc \in {"wait", "header", "last"} /\ toRecv # <<>> /\ toRecv' = Tail(toRecv)
      /\ UNCHANGED <<modemMode, bno, memory, mode, file, sending, next, again>>
  BY DEF Header, Idle, sender
<1>2. UnderWay /\ ~InBlock
  BY <1>1 DEF UnderWay, InBlock
<1>3. sending \in {"block", "eot", "null"} /\ ~again /\ toSend = <<>> /\ ~Acknowledged
  BY <1>2 DEF BlocksBefore, InTurn, Acknowledged
<1>4. PICK m \in Arriving : toRecv = m
  <2>1. PICK m \in Arriving : Carried(m)
    BY <1>2 DEF BlocksBefore, InTurn
  <2> QED BY <1>2, <2>1 DEF Carried
<1>5. toRecv \in Seq(Int) /\ Len(toRecv) = Len(Message) /\ toRecv[1] = Message[1]
  BY <1>3, <1>4, ArrivingShape DEF BlocksBefore
<1>6. /\ Head(toRecv) = toRecv[1] /\ toRecv' \in Seq(Int) /\ Len(toRecv') = Len(toRecv) - 1
      /\ \A i \in 1 .. Len(toRecv') : toRecv'[i] = toRecv[i + 1]
  BY <1>1, <1>5, TailType
<1>7. CASE SendsBlock
  <2>1. Head(toRecv) = SOH /\ sending # "eot"
    BY <1>3, <1>5, <1>6, <1>7, MessageShape DEF BlocksBefore, SendsBlock
  <2>2. /\ modemPc' = (IF modemPc = "last" THEN "last block" ELSE "block") /\ mybuf' = <<>> /\ UNCHANGED toSend
    <3>1. SOH \in {SOH, EOT} /\ SOH # EOT
      BY DEF SOH, EOT
    <3> QED BY <2>1, <3>1, Zenon DEF Header
  <2>3. InBlock'
    BY <2>2 DEF InBlock
  <2>4. Arriving' = Arriving
    BY <1>1, SameMessage
  <2>5. Carried(m)'
    <3>1. m[1] = SOH /\ Len(mybuf') = 0 /\ Len(m) = 1 + 0 + Len(toRecv')
      <4> DEFINE n == Len(toRecv)
                 k == Len(toRecv')
      <4>1. n \in Nat /\ k \in Int /\ k = n - 1
        BY <1>5, <1>6, LenProperties
      <4> HIDE DEF n, k
      <4>2. n = 1 + 0 + k
        BY <4>1
      <4> QED BY <1>4, <1>6, <2>1, <2>2, <4>2, EmptySeq DEF n, k
    <3>2. \A i \in 1 .. 0 : FALSE
      OBVIOUS
    <3>3. ASSUME NEW i \in 1 .. Len(toRecv') PROVE toRecv'[i] = m[1 + 0 + i]
      <4>1. i + 1 = 1 + 0 + i
        BY <1>6, LenProperties
      <4> QED BY <1>4, <1>6, <4>1
    <3> QED BY <2>3, <3>1, <3>2, <3>3 DEF Carried
  <2>6. modemPc' \notin {"wait", "second eot", "last eot"}
    BY <2>2
  <2>7. UnderWay' /\ sending' \in {"block", "eot", "null"} /\ ~again' /\ toSend' = <<>>
    BY <1>1, <1>3, <2>2, <2>3 DEF UnderWay
  <2>8. m \in Arriving'
    BY <1>4, <2>4
  <2>9. InTurn'
    <3> QED BY <2>5, <2>6, <2>7, <2>8 DEF InTurn
  <2>10. ~Acknowledged'
    BY <1>3, <2>2 DEF Acknowledged
  <2>11. modemPc' \in Late => modemPc \in Late
    BY <2>2 DEF Late
  <2> QED BY <1>1, <1>3, <2>9, <2>10, <2>11, SameRange DEF BlocksBefore
<1>8. CASE sending = "eot"
  <2>1. Head(toRecv) = EOT /\ Len(toRecv) = 1
    BY <1>3, <1>5, <1>6, <1>8, MessageShape DEF BlocksBefore
  <2>2. toRecv' = <<>>
    BY <1>6, <2>1, EmptySeq
  <2>3. /\ modemPc' = (IF modemMode = 1 THEN "returned" ELSE IF modemPc = "last" THEN "last eot" ELSE "second eot")
        /\ Answer(<<IF modemMode = 1 THEN "ACK" ELSE "NAK">>)
    <3>1. EOT \in {SOH, EOT} /\ SOH # EOT
      BY DEF SOH, EOT
    <3> QED BY <2>1, <3>1, Zenon DEF Header
  <2>4. toSend' = <<IF modemMode = 1 THEN "ACK" ELSE "NAK">>
    <3>1. <<IF modemMode = 1 THEN "ACK" ELSE "NAK">> \in Seq(Answers)
      BY AnswersOf
    <3>2. toSend \in Seq(Answers)
      BY TypeParts DEF BlocksBefore, Types, LineType
    <3> QED BY <1>3, <2>3, <3>1, <3>2, Answered
  <2>5. ~UnderWay'
    BY <2>2, <2>3 DEF UnderWay, InBlock
  <2>6. InTurn'
    BY <1>1, <1>8, <2>3, <2>4, <2>5 DEF InTurn
  <2>7. InRange'
    BY <1>1, <1>8, SameRange DEF BlocksBefore, Ending
  <2> QED BY <2>6, <2>7
<1> QED BY <1>3, <1>7, <1>8 DEF SendsBlock

\* Behind the end of the file nothing is on the way.
LEMMA SecondEotStep ==
    ASSUME ModemAssumption, BlocksBefore, SecondEot
    PROVE  InTurn' /\ InRange'
<1>1. /\ modemPc \in {"second eot", "last eot"} /\ toRecv # <<>> /\ toRecv' = Tail(toRecv)
      /\ modemPc' \in {"last", "returned"}
      /\ UNCHANGED <<bno, memory, mode, file, sending, next, again>>
  BY DEF SecondEot, Idle, sender
<1>2. UnderWay /\ ~InBlock
  BY <1>1 DEF UnderWay, InBlock
<1>3. sending = "eot" /\ ~again /\ toSend = <<>>
  BY <1>1, <1>2 DEF BlocksBefore, InTurn
<1>4. toRecv \in Arriving
  <2>1. PICK m \in Arriving : Carried(m)
    BY <1>2 DEF BlocksBefore, InTurn
  <2> QED BY <1>2, <2>1 DEF Carried
<1>5. toRecv \in Seq(Int) /\ Len(toRecv) = 1
  BY <1>3, <1>4, ArrivingShape, MessageShape DEF BlocksBefore
<1>6. toRecv' = <<>>
  <2>1. toRecv' \in Seq(Int) /\ Len(toRecv') = Len(toRecv) - 1
    BY <1>1, <1>5, TailType
  <2> QED BY <1>5, <2>1, EmptySeq
<1>7. ~UnderWay'
  BY <1>1, <1>6 DEF UnderWay, InBlock
<1>8. InTurn'
  BY <1>1, <1>3, <1>7 DEF InTurn
<1>9. InRange'
  BY <1>1, <1>3, SameRange DEF BlocksBefore, Ending
<1> QED BY <1>8, <1>9

\* A byte of the message moves from the line to the buffer.
LEMMA TakeStep ==
    ASSUME ModemAssumption, BlocksBefore, TakeByte
    PROVE  InTurn' /\ InRange'
<1>1. /\ InBlock /\ toRecv # <<>> /\ toRecv' = Tail(toRecv) /\ mybuf' = Append(mybuf, Head(toRecv))
      /\ UNCHANGED <<modemPc, bno, memory, toSend, mode, file, sending, next, again>>
  BY DEF TakeByte, Idle, sender
<1>2. sending \in {"block", "eot", "null"} /\ ~again /\ toSend = <<>>
  BY <1>1 DEF BlocksBefore, InTurn, UnderWay
<1>3. PICK m \in Arriving : Carried(m)
  BY <1>1 DEF BlocksBefore, InTurn, UnderWay
<1>4. /\ m[1] = SOH /\ Len(m) = 1 + Len(mybuf) + Len(toRecv)
      /\ \A i \in 1 .. Len(mybuf) : mybuf[i] = m[1 + i]
      /\ \A i \in 1 .. Len(toRecv) : toRecv[i] = m[1 + Len(mybuf) + i]
  BY <1>1, <1>3 DEF Carried
<1>5. /\ mybuf \in Seq(Int) /\ Len(mybuf) \in Nat /\ toRecv \in Seq(Int)
      /\ Len(toRecv) \in Nat \ {0}
  BY <1>1, LenProperties, EmptySeq DEF BlocksBefore, TypeOK
<1>6. /\ Head(toRecv) = toRecv[1] /\ Head(toRecv) \in Int /\ Len(toRecv') = Len(toRecv) - 1
      /\ \A i \in 1 .. Len(toRecv') : toRecv'[i] = toRecv[i + 1]
  BY <1>1, <1>5, TailType
<1>7. /\ Len(mybuf') = Len(mybuf) + 1 /\ mybuf'[Len(mybuf) + 1] = Head(toRecv)
      /\ \A i \in 1 .. Len(mybuf) : mybuf'[i] = mybuf[i]
  BY <1>1, <1>5, <1>6, AppendProperties
<1>8. Carried(m)'
  <2> DEFINE b == Len(mybuf)
             t == Len(toRecv)
  <2>1. InBlock'
    BY <1>1 DEF InBlock
  <2>2. b \in Nat /\ t \in Nat \ {0} /\ Len(mybuf') = b + 1 /\ Len(toRecv') = t - 1 /\ Len(m) = 1 + b + t
    BY <1>4, <1>5, <1>6, <1>7
  <2>3. \A i \in 1 .. b : mybuf'[i] = m[1 + i]
    BY <1>4, <1>7
  <2>4. mybuf'[b + 1] = m[1 + (b + 1)]
    <3>1. toRecv[1] = m[1 + b + 1]
      BY <1>4, <1>5
    <3> HIDE DEF b
    <3>2. 1 + b + 1 = 1 + (b + 1)
      BY <2>2
    <3> QED BY <1>6, <1>7, <3>1, <3>2 DEF b
  <2>5. ASSUME NEW i \in 1 .. (t - 1) PROVE toRecv'[i] = m[1 + (b + 1) + i]
    <3>1. toRecv'[i] = toRecv[i + 1] /\ i + 1 \in 1 .. t
      BY <1>6, <2>2
    <3> DEFINE j == i + 1
    <3> HIDE DEF j
    <3>2. toRecv[j] = m[1 + b + j]
      BY <1>4, <3>1 DEF j
    <3> HIDE DEF b, t
    <3>3. 1 + b + j = 1 + (b + 1) + i
      BY <2>2 DEF j
    <3> QED BY <3>1, <3>2, <3>3 DEF j
  <2> HIDE DEF b, t
  <2>6. \A i \in 1 .. (b + 1) : mybuf'[i] = m[1 + i]
    BY <2>2, <2>3, <2>4
  <2>7. Len(m) = 1 + Len(mybuf') + Len(toRecv')
    BY <2>2
  <2>8. \A i \in 1 .. Len(mybuf') : mybuf'[i] = m[1 + i]
    BY <2>2, <2>6
  <2>9. \A i \in 1 .. Len(toRecv') : toRecv'[i] = m[1 + Len(mybuf') + i]
    BY <2>2, <2>5
  <2> QED BY <1>4, <2>1, <2>7, <2>8, <2>9 DEF Carried
<1>9. InTurn'
  <2>1. m \in Arriving'
    BY <1>1, <1>3, SameMessage
  <2>2. modemPc' \notin {"wait", "second eot", "last eot"}
    BY <1>1 DEF InBlock
  <2>3. UnderWay'
    BY <1>1 DEF UnderWay, InBlock
  <2>4. sending' \in {"block", "eot", "null"} /\ ~again' /\ toSend' = <<>>
    BY <1>1, <1>2
  <2> QED BY <1>8, <2>1, <2>2, <2>3, <2>4 DEF InTurn
<1>10. InRange'
  BY <1>1, SameRange DEF BlocksBefore, Acknowledged, Late
<1> QED BY <1>9, <1>10

LEMMA NextIn ==
    ASSUME TypeOK
    PROVE  next \in Nat /\ Len(file) \in Nat \ {0} /\ next <= Len(file)
<1>1. file \in Seq(Contents) /\ Len(file) > 0 /\ next \in 0 .. Len(file)
  BY DEF TypeOK
<1> DEFINE n == Len(file)
<1>2. n \in Nat /\ n > 0 /\ next \in 0 .. n
  BY <1>1, LenProperties
<1> HIDE DEF n
<1> QED BY <1>2 DEF n

\* What follows a whole block, whatever it was: nothing is on the way but the answer.
LEMMA Ended ==
    ASSUME ModemAssumption, BlocksBefore, InBlock, Len(mybuf) = BlockBytes + 3, Ends, Idle, UNCHANGED toRecv,
           NEW b \in Seq(Answers), Answer(b),
           b \in {<<"ACK">>, <<"NAK">>} \/ (next = 0 /\ b = <<"ACK", "C">>) \/ sending = "null"
    PROVE  /\ toSend' = b /\ InTurn' /\ ~Acknowledged /\ SendsBlock
           /\ modemPc' \in Late => modemPc \in Late
<1>1. toRecv = <<>> /\ SendsBlock /\ ~again /\ toSend = <<>>
  BY WholeBlock DEF BlocksBefore
<1>2. toSend' = b
  <2>1. toSend \in Seq(Answers)
    BY TypeParts DEF BlocksBefore, Types, LineType
  <2> QED BY <1>1, <2>1, Answered
<1>3. modemPc' \in {"header", "returned"} /\ (modemPc' = "returned" => modemPc = "last block")
  BY DEF Ends, InBlock
<1>4. ~UnderWay'
  BY <1>1, <1>3 DEF UnderWay, InBlock
<1>5. UNCHANGED <<sending, next, again>>
  BY DEF Idle, sender
<1>6. InTurn'
  BY <1>1, <1>2, <1>3, <1>4, <1>5 DEF InTurn, SendsBlock
<1> QED BY <1>1, <1>2, <1>3, <1>6 DEF Acknowledged, Late

\* The start block comes to a receiver at the beginning of its ranges, or behind the file.
LEMMA StartStep ==
    ASSUME ModemAssumption, BlocksBefore, StartBlock
    PROVE  InTurn' /\ InRange'
<1>1. /\ InBlock /\ Len(mybuf) = BlockBytes + 3 /\ bNo = 0 /\ nBno = M - 1 /\ bno = 0 /\ Answer(<<"ACK", "C">>)
      /\ Ends /\ Idle /\ UNCHANGED <<bno, memory, toRecv, mode, file, sending, next, again>>
  BY DEF StartBlock, Idle, sender
<1>2. SendsBlock /\ Num % M = 0
  <2>1. M - 1 - bNo = nBno
    BY <1>1, Values
  <2> QED BY <1>1, <2>1, WholeBlock DEF BlocksBefore
<1>3. ~Acknowledged
  <2>1. toSend = <<>>
    BY <1>1, WholeBlock DEF BlocksBefore
  <2> QED BY <2>1 DEF Acknowledged
<1>4. sending = "block" => next = 0
  <2> SUFFICES ASSUME sending = "block" PROVE next = 0
    OBVIOUS
  <2>1. bno = next \div M
    BY <1>3 DEF BlocksBefore, InRange, UpTo
  <2>2. next \in Nat /\ M \in Nat \ {0}
    BY Values, NextIn DEF BlocksBefore
  <2>3. next = (next \div M) * M + (next % M)
    BY <2>2, DivMod
  <2>4. next % M = 0 /\ next \div M = 0
    BY <1>1, <1>2, <2>1 DEF Num
  <2> QED BY <2>2, <2>3, <2>4
<1>5. sending = "null" \/ (sending = "block" /\ next = 0)
  BY <1>2, <1>4 DEF SendsBlock
<1>6. toSend' = <<"ACK", "C">> /\ InTurn' /\ (modemPc' \in Late => modemPc \in Late)
  BY <1>1, <1>5, AnswersOf, Ended
<1>7. CASE sending = "null"
  <2>1. InRange'
    BY <1>1, <1>6, <1>7, SameRange DEF BlocksBefore
  <2> QED BY <1>6, <2>1
<1>8. CASE sending = "block" /\ next = 0
  <2>1. Acknowledged'
    BY <1>1, <1>3, <1>6, WholeBlock DEF Acknowledged, BlocksBefore
  <2>2. bno' = 1 \div M /\ Placed(1 - 1)
    BY <1>1, Starts DEF UpTo
  <2>3. UpTo(next + 1)'
    <3>1. next' = 0 /\ 0 + 1 = 1
      BY <1>1, <1>8
    <3>2. Placed(1 - 1)'
      BY <1>1, <2>2 DEF Placed
    <3> QED BY <2>2, <3>1, <3>2 DEF UpTo
  <2>4. modemPc' \notin Late
    BY <1>6, <1>8 DEF BlocksBefore, InRange, Late
  <2> QED BY <1>1, <1>6, <1>8, <2>1, <2>3, <2>4 DEF InRange, Late
<1> QED BY <1>5, <1>7, <1>8

LEMMA WrongStep ==
    ASSUME ModemAssumption, BlocksBefore, WrongNumber
    PROVE  InTurn' /\ InRange'
<1>1. /\ InBlock /\ Len(mybuf) = BlockBytes + 3 /\ Answer(<<"NAK">>)
      /\ Ends /\ Idle /\ UNCHANGED <<bno, memory, toRecv, mode, file, sending, next, again>>
  BY DEF WrongNumber, Idle, sender
<1>2. toSend' = <<"NAK">> /\ InTurn' /\ ~Acknowledged /\ (modemPc' \in Late => modemPc \in Late)
  BY <1>1, AnswersOf, Ended
<1>3. ~Acknowledged'
  BY <1>2 DEF Acknowledged
<1> QED BY <1>1, <1>2, <1>3, SameRange DEF BlocksBefore

\* A block's place in memory is its own, whatever the range of its number; the closing block of
\* YMODEM goes behind a file that is within one range.
LEMMA DataStep ==
    ASSUME ModemAssumption, BlocksBefore, DataBlock
    PROVE  InTurn' /\ InRange'
<1> DEFINE O == {Offset(j) : j \in 1 .. BlockBytes}
           good == updcrc(data) = mybuf[BlockBytes + 3]
           base == Offset(1)
           d == data
<1>1. /\ InBlock /\ Len(mybuf) = BlockBytes + 3 /\ Ends /\ Idle
      /\ UNCHANGED <<toRecv, mode, file, sending, next, again>>
      /\ ~(bNo = 0 /\ nBno = M - 1 /\ bno = 0) /\ M - 1 - bNo = nBno
  BY DEF DataBlock, Idle, sender
<1>2. memory' = [a \in DOMAIN memory \cup O |-> IF a \in O THEN d[a - base + 1] ELSE memory[a]]
  BY DEF DataBlock
<1>3. IF good THEN Answer(<<"ACK">>) /\ bno' = NextRange ELSE Answer(<<"NAK">>) /\ bno' = bno
  BY DEF DataBlock
<1>4. /\ toSend' = (IF good THEN <<"ACK">> ELSE <<"NAK">>) /\ InTurn' /\ ~Acknowledged
      /\ modemPc' \in Late => modemPc \in Late
  <2>1. CASE good
    <3>1. Answer(<<"ACK">>)
      BY <1>3, <2>1
    <3> QED BY <1>1, <2>1, <3>1, AnswersOf, Ended
  <2>2. CASE ~good
    <3>1. Answer(<<"NAK">>)
      BY <1>3, <2>2
    <3> QED BY <1>1, <2>2, <3>1, AnswersOf, Ended
  <2> QED BY <2>1, <2>2
<1>5. /\ SendsBlock /\ ~again /\ bNo = Num % M
      /\ good => \A j \in 1 .. BlockBytes : d[j] = Bytes[j]
  BY <1>1, WholeBlock DEF BlocksBefore
<1>6. /\ M \in Nat \ {0} /\ M >= 3 /\ BlockBytes \in Nat \ {0} /\ bno \in Nat
      /\ next \in Nat /\ Len(file) \in Nat \ {0} /\ next <= Len(file)
  BY Values, NextIn DEF BlocksBefore, TypeOK
<1> HIDE DEF O, good, base, d
<1>7. CASE sending = "null"
  <2>1. mode = "ymodem" /\ Len(file) < M /\ Placed(Len(file))
    BY <1>7 DEF BlocksBefore, InRange, Clean
  <2>2. bNo = 0 /\ bno # 0
    <3>1. bNo = 0
      BY <1>5, <1>7, Starts DEF Num
    <3> QED BY <1>1, <1>6, <3>1
  <2> DEFINE n == Len(file)
             x == bno * M - 1
  <2>3. x \in Nat /\ x >= n
    <3>1. bno * M >= M
      <4>1. bno >= 1
        BY <1>6, <2>2
      <4> QED BY <1>6, <4>1
    <3>2. bno * M \in Nat
      BY <1>6
    <3>3. n \in Nat /\ n < M
      BY <1>6, <2>1
    <3> HIDE DEF n
    <3> QED BY <1>6, <3>1, <3>2, <3>3
  <2>4. x * BlockBytes \in Nat /\ x * BlockBytes >= n * BlockBytes
    <3> HIDE DEF x
    <3>1. n \in Nat /\ x \in Nat /\ x >= n /\ BlockBytes \in Nat
      BY <1>6, <2>3
    <3> HIDE DEF n
    <3> QED BY <3>1
  <2>5. \A j \in 1 .. BlockBytes : Offset(j) = x * BlockBytes + j - 1
    <3>1. bno * M + bNo - 1 = x
      BY <1>6, <2>2
    <3> QED BY <3>1 DEF Offset
  <2>6. ASSUME NEW i \in 0 .. n * BlockBytes - 1 PROVE i \notin O
    <3> HIDE DEF x
    <3>1. SUFFICES ASSUME NEW j \in 1 .. BlockBytes, i = x * BlockBytes + j - 1 PROVE FALSE
      BY <2>5 DEF O
    <3> DEFINE p == x * BlockBytes
               q == n * BlockBytes
    <3>2. p \in Nat /\ q \in Nat /\ p >= q /\ i \in 0 .. q - 1 /\ i = p + j - 1
      BY <1>6, <2>4, <3>1
    <3> HIDE DEF p, q
    <3> QED BY <1>6, <3>2
  <2>7. \A i \in 0 .. n * BlockBytes - 1 : i \in DOMAIN memory' /\ memory'[i] = memory[i]
    <3> SUFFICES ASSUME NEW i \in 0 .. n * BlockBytes - 1
                 PROVE  i \in DOMAIN memory' /\ memory'[i] = memory[i]
      OBVIOUS
    <3>1. i \in DOMAIN memory /\ i \notin O
      BY <2>1, <2>6 DEF Placed
    <3> QED BY <1>2, <3>1
  <2>8. Placed(Len(file))'
    BY <1>1, <2>1, <2>7 DEF Placed
  <2>9. sending' = "null" /\ mode' = "ymodem"
    BY <1>1, <1>7, <2>1
  <2> QED BY <1>4, <2>8, <2>9 DEF InRange
<1>8. CASE sending = "block"
  <2>1. bno = next \div M /\ Placed(next - 1)
    BY <1>4, <1>8 DEF BlocksBefore, InRange, UpTo
  <2>2. bNo = next % M
    BY <1>5, <1>8 DEF Num
  <2>3. next # 0
    <3> SUFFICES ASSUME next = 0 PROVE FALSE
      OBVIOUS
    <3>1. bNo = 0 /\ bno = 0
      BY <2>1, <2>2, Starts
    <3>2. nBno = M - 1
      BY <1>1, <1>6, <3>1
    <3> QED BY <1>1, <3>1, <3>2
  <2> DEFINE x == next - 1
             p == x * BlockBytes
  <2>4. x \in Nat /\ x + 1 = next
    BY <1>6, <2>3
  <2>5. \A j \in 1 .. BlockBytes : Offset(j) = p + j - 1
    <3>1. next = (next \div M) * M + (next % M)
      BY <1>6, DivMod
    <3>2. bno * M + bNo - 1 = x
      <4> DEFINE k == next \div M
                 m == next % M
      <4>1. k \in Nat /\ m \in 0 .. (M - 1)
        BY <1>6, DivMod
      <4>2. bno = k /\ bNo = m /\ next = k * M + m
        BY <2>1, <2>2, <3>1
      <4> HIDE DEF k, m
      <4> QED BY <1>6, <4>1, <4>2
    <3> QED BY <3>2 DEF Offset
  <2>6. p \in Nat /\ base = p
    <3>1. Offset(1) = p + 1 - 1
      BY <1>6, <2>5
    <3>2. p \in Nat
      BY <1>6, <2>4
    <3> HIDE DEF p
    <3> QED BY <3>1, <3>2 DEF base
  <2>7. next * BlockBytes = p + BlockBytes
    BY <1>6
  <2> HIDE DEF p
  <2>8. O = {p + j - 1 : j \in 1 .. BlockBytes}
    BY <2>5 DEF O
  <2>9. ASSUME NEW i \in 0 .. p - 1
        PROVE  i \in DOMAIN memory' /\ memory'[i] = file[(i \div BlockBytes) + 1]
    <3>1. i \notin O
      BY <1>6, <2>6, <2>8
    <3>2. i \in DOMAIN memory /\ memory[i] = file[(i \div BlockBytes) + 1]
      BY <2>1 DEF Placed, p
    <3> QED BY <1>2, <3>1, <3>2
  <2>10. UNCHANGED file
    BY <1>1
  <2>11. Placed(next - 1)'
    <3>1. next' = next
      BY <1>1
    <3>2. \A i \in 0 .. (next - 1) * BlockBytes - 1 : i \in DOMAIN memory' /\ memory'[i] = file'[(i \div BlockBytes) + 1]
      BY <2>9, <2>10 DEF p
    <3> QED BY <3>1, <3>2 DEF Placed
  <2>12. CASE ~good
    <3>1. ~Acknowledged'
      BY <1>4, <2>12 DEF Acknowledged
    <3>2. bno' = bno
      BY <1>3, <2>12
    <3>3. UpTo(next)'
      BY <1>1, <2>1, <2>11, <3>2 DEF UpTo
    <3>4. modemPc' \notin Late
      BY <1>4, <1>8 DEF BlocksBefore, InRange, Late
    <3> QED BY <1>1, <1>4, <1>8, <3>1, <3>3, <3>4 DEF InRange, Late
  <2>13. CASE good
    <3>1. Acknowledged'
      BY <1>1, <1>4, <1>5, <2>13 DEF Acknowledged
    <3>2. bno' = (next + 1) \div M
      <4>1. bno' = IF bNo = M - 1 THEN bno + 1 ELSE bno
        BY <1>3, <2>13 DEF NextRange
      <4> QED BY <1>6, <2>1, <2>2, <4>1, NextDiv
    <3>3. ASSUME NEW i \in 0 .. next * BlockBytes - 1
          PROVE  i \in DOMAIN memory' /\ memory'[i] = file[(i \div BlockBytes) + 1]
      <4>1. CASE i < p
        <5>1. i \in 0 .. p - 1
          BY <2>6, <4>1
        <5> QED BY <2>9, <5>1
      <4>2. CASE i >= p
        <5> DEFINE j == i - p + 1
        <5>1. j \in 1 .. BlockBytes /\ i = p + j - 1 /\ j - 1 \in 0 .. (BlockBytes - 1) /\ i - base + 1 = j
          BY <1>6, <2>6, <2>7, <4>2
        <5> HIDE DEF j
        <5>2. i \in O
          BY <2>8, <5>1
        <5>3. i \in DOMAIN memory' /\ memory'[i] = d[j]
          BY <1>2, <5>1, <5>2
        <5>4. d[j] = file[next]
          <6>1. d[j] = Bytes[j]
            BY <1>5, <2>13, <5>1
          <6>2. Bytes[j] = file[next]
            BY <1>8, <2>3, <5>1, BytesShape DEF BlocksBefore
          <6> QED BY <6>1, <6>2
        <5>5. (i \div BlockBytes) + 1 = next
          <6> HIDE DEF x
          <6>1. i = x * BlockBytes + (j - 1) /\ x \in Int
            BY <2>4, <2>6, <5>1 DEF p
          <6>2. (x * BlockBytes + (j - 1)) \div BlockBytes = x
            <7> DEFINE r == j - 1
            <7>1. x \in Int /\ r \in 0 .. (BlockBytes - 1) /\ BlockBytes \in Nat \ {0}
              BY <1>6, <2>4, <5>1
            <7> HIDE DEF r
            <7>2. (x * BlockBytes + r) \div BlockBytes = x
              BY <7>1, Division
            <7> QED BY <7>2 DEF r
          <6> QED BY <2>4, <6>1, <6>2
        <5> QED BY <5>3, <5>4, <5>5
      <4> QED BY <2>6, <4>1, <4>2
    <3>4. Placed((next + 1) - 1)'
      <4>1. next' = next /\ (next + 1) - 1 = next
        BY <1>1, <1>6
      <4>2. \A i \in 0 .. next * BlockBytes - 1 : i \in DOMAIN memory' /\ memory'[i] = file'[(i \div BlockBytes) + 1]
        BY <2>10, <3>3
      <4> QED BY <4>1, <4>2 DEF Placed
    <3>5. UpTo(next + 1)'
      BY <1>1, <3>2, <3>4 DEF UpTo
    <3>6. modemPc' \notin Late
      BY <1>4, <1>8 DEF BlocksBefore, InRange, Late
    <3> QED BY <1>1, <1>4, <1>8, <3>1, <3>5, <3>6 DEF InRange, Late
  <2> QED BY <2>12, <2>13
<1> QED BY <1>5, <1>7, <1>8 DEF SendsBlock

-----------------------------------------------------------------------------
(* The steps of the sender and of the line                                  *)

\* What is sent arrives, but for one byte behind its header perhaps.
LEMMA SendStep ==
    ASSUME ModemAssumption, BlocksBefore, Send
    PROVE  InTurn' /\ InRange'
<1>1. /\ sending \in {"block", "eot", "null"} /\ again /\ toRecv = <<>> /\ toSend' = <<>> /\ again' = FALSE
      /\ UNCHANGED <<modemPc, bno, memory, mode, file, sending, next>>
  BY DEF Send, receiver
<1>2. ~InBlock /\ ~InBlock'
  BY <1>1 DEF BlocksBefore, InTurn, UnderWay, InBlock
<1>3. Message \in Seq(Int) /\ Len(Message) \in Nat \ {0} /\ Message[1] \in {SOH, EOT}
  BY <1>1, MessageShape DEF BlocksBefore, SendsBlock
<1>4. toRecv' \in Arriving
  <2>1. CASE toRecv' = Message
    BY <2>1 DEF Arriving
  <2>2. CASE toRecv' # Message
    <3>1. PICK g \in Garbled(Message) : toRecv' = g /\ headHit' = (headHit \/ g[1] # Message[1])
      BY <2>2 DEF Send
    <3> DEFINE c == Message
    <3> HIDE DEF c
    <3>2. PICK i \in 1 .. Len(c) : g = [c EXCEPT ![i] = Other]
      BY DEF Garbled, c
    <3>3. g[1] = c[1]
      BY <3>1 DEF BlocksBefore, Clean, c
    <3>4. i # 1
      <4> SUFFICES ASSUME i = 1 PROVE FALSE
        OBVIOUS
      <4>1. c \in Seq(Int) /\ Other \in Int /\ 1 \in 1 .. Len(c) /\ c[1] # Other
        BY <1>3 DEF c, Other, SOH, EOT
      <4>2. g[1] = Other
        BY <3>2, <4>1, ExceptSeq
      <4> QED BY <3>3, <4>1, <4>2
    <3>5. i \in 2 .. Len(c)
      BY <1>3, <3>4 DEF c
    <3> QED BY <3>1, <3>2, <3>5 DEF Arriving, c
  <2> QED BY <2>1, <2>2
<1>5. PICK m \in Arriving : toRecv' = m
  BY <1>4
<1>6. m # <<>>
  <2>1. Len(m) \in Nat \ {0}
    BY <1>1, <1>3, ArrivingShape DEF BlocksBefore
  <2> QED BY <2>1, EmptySeq
<1>7. UnderWay' /\ Carried(m)' /\ m \in Arriving'
  BY <1>1, <1>2, <1>5, <1>6, SameMessage DEF UnderWay, Carried
<1>8. InTurn'
  <2>1. modemPc \in {"second eot", "last eot"} => sending = "eot"
    BY DEF BlocksBefore, InTurn
  <2> QED BY <1>1, <1>7, <2>1 DEF InTurn
<1>9. InRange'
  <2>1. ~Acknowledged /\ ~Acknowledged'
    BY <1>1 DEF Acknowledged
  <2> QED BY <1>1, <2>1, SameRange DEF BlocksBefore
<1> QED BY <1>8, <1>9

LEMMA Heads == Head(<<"NAK">>) = "NAK" /\ Head(<<"ACK">>) = "ACK" /\ Head(<<"ACK", "C">>) = "ACK"
OBVIOUS

\* An answer moves the sender on, or makes it send again.
LEMMA ReplyStep ==
    ASSUME ModemAssumption, BlocksBefore, Reply
    PROVE  InTurn' /\ InRange'
<1>1. /\ toSend # <<>> /\ ~again /\ sending # "done" /\ toSend' = Tail(toSend)
      /\ UNCHANGED <<modemPc, modemMode, bno, mybuf, memory, mode, file, toRecv>>
  BY DEF Reply, receiver
<1>2. ~UnderWay /\ ~UnderWay'
  BY <1>1 DEF BlocksBefore, InTurn, UnderWay, InBlock
<1>3. modemPc = "wait" => sending = "C"
  BY <1>1, <1>2 DEF BlocksBefore, InTurn
<1>4. /\ modemPc \in {"second eot", "last eot"} => sending = "eot" /\ toSend = <<"NAK">>
      /\ sending = "block" => toSend \in {<<"ACK">>, <<"NAK">>} \/ (next = 0 /\ toSend = <<"ACK", "C">>)
  BY <1>1 DEF BlocksBefore, InTurn
<1>5. modemPc \in Late => sending \in Ending
  BY DEF BlocksBefore, InRange, Late, Ending
<1>6. /\ sending = "C" => next \in {0, 1} /\ UpTo(next)
      /\ sending = "block" => UpTo(IF Acknowledged THEN next + 1 ELSE next)
      /\ sending \in {"eot", "null", "done"} => Placed(Len(file))
      /\ sending = "null" => mode = "ymodem"
  BY DEF BlocksBefore, InRange
<1>7. Acknowledged <=> Head(toSend) = "ACK"
  BY <1>1 DEF Acknowledged
<1>8. CASE sending = "C" /\ Head(toSend) = "C"
  <2>1. sending' = "block" /\ next' = next /\ again' = TRUE
    BY <1>8 DEF Reply, Sends
  <2>2. ~Acknowledged' /\ modemPc \notin Late
    BY <1>5, <1>8, <2>1 DEF Acknowledged, Ending
  <2>3. InTurn'
    BY <1>1, <1>2, <2>1, <2>2 DEF InTurn, Late
  <2>4. UpTo(next)'
    BY <1>1, <1>6, <1>8, <2>1 DEF UpTo, Placed
  <2> QED BY <1>1, <2>1, <2>2, <2>3, <2>4 DEF InRange, Late
<1>9. CASE sending # "C" /\ Head(toSend) = "ACK"
  <2>1. Acked
    BY <1>9 DEF Reply
  <2>2. modemPc \notin {"second eot", "last eot", "wait"}
    <3>1. ~(sending = "eot" /\ toSend = <<"NAK">>)
      BY <1>9, Heads
    <3> QED BY <1>3, <1>4, <1>9, <3>1
  <2>3. CASE sending = "block"
    <3>1. UpTo(next + 1) /\ modemPc \notin Late
      BY <1>5, <1>6, <1>7, <1>9, <2>3 DEF Ending
    <3>2. CASE next = 0
      <4>1. sending' = "C" /\ next' = 1 /\ again' = FALSE
        <5>1. next # Len(file) /\ next \notin 1 .. Len(file) - 1
          BY <3>2, NextIn DEF BlocksBefore
        <5> QED BY <2>1, <2>3, <5>1 DEF Acked
      <4>2. UpTo(next)'
        BY <1>1, <3>1, <3>2, <4>1 DEF UpTo, Placed
      <4>3. InTurn'
        BY <1>1, <1>2, <2>2, <4>1 DEF InTurn
      <4> QED BY <1>1, <3>1, <4>1, <4>2, <4>3 DEF InRange, Late
    <3>3. CASE next # 0 /\ next < Len(file)
      <4>1. sending' = "block" /\ next' = next + 1 /\ again' = TRUE
        <5>1. next # Len(file)
          BY <3>3, NextIn DEF BlocksBefore
        <5> QED BY <2>1, <2>3, <3>3, <5>1 DEF Acked, Sends
      <4>2. UpTo(next)'
        BY <1>1, <3>1, <4>1 DEF UpTo, Placed
      <4>3. InTurn'
        BY <1>1, <1>2, <2>2, <4>1 DEF InTurn
      <4>4. ~Acknowledged'
        BY <4>1 DEF Acknowledged
      <4> QED BY <1>1, <3>1, <4>1, <4>2, <4>3, <4>4 DEF InRange, Late
    <3>4. CASE next # 0 /\ ~(next < Len(file))
      <4>1. sending' = "eot" /\ again' = TRUE
        <5>1. next \notin 1 .. Len(file) - 1
          BY <3>4, NextIn DEF BlocksBefore
        <5> QED BY <2>1, <2>3, <3>4, <5>1 DEF Acked, Sends
      <4>2. next = Len(file) /\ (next + 1) - 1 = Len(file)
        BY <3>4, NextIn DEF BlocksBefore
      <4>3. Placed(Len(file))
        BY <3>1, <4>2 DEF UpTo
      <4>4. Placed(Len(file))'
        BY <1>1, <4>3 DEF Placed
      <4>5. InTurn'
        BY <1>1, <1>2, <2>2, <4>1 DEF InTurn
      <4> QED BY <4>1, <4>4, <4>5 DEF InRange
    <3> QED BY <3>2, <3>3, <3>4
  <2>4. CASE sending \in {"eot", "null"}
    <3>1. /\ sending' \in {"done", "null"} /\ (sending' = "null" => mode = "ymodem")
          /\ again' = again \/ again' = TRUE
      <4> QED BY <2>1, <2>4 DEF Acked, Sends
    <3>2. Placed(Len(file))'
      BY <1>1, <1>6, <2>4 DEF Placed
    <3>3. InTurn'
      BY <1>1, <1>2, <2>2, <3>1 DEF InTurn
    <3> QED BY <1>1, <3>1, <3>2, <3>3 DEF InRange
  <2>5. sending \in {"C", "block", "eot", "null", "done"}
    BY DEF BlocksBefore, TypeOK
  <2> QED BY <1>1, <1>9, <2>3, <2>4, <2>5
<1>10. CASE sending # "C" /\ Head(toSend) = "NAK"
  <2>1. again' = TRUE /\ UNCHANGED <<sending, next>>
    BY <1>10 DEF Reply
  <2>2. ~Acknowledged /\ ~Acknowledged'
    BY <1>7, <1>10, <2>1 DEF Acknowledged
  <2>3. InTurn'
    BY <1>1, <1>2, <1>4, <2>1 DEF InTurn
  <2> QED BY <1>1, <2>1, <2>2, <2>3, SameRange DEF BlocksBefore
<1>11. CASE ~(sending = "C" /\ Head(toSend) = "C") /\ ~(sending # "C" /\ Head(toSend) \in {"ACK", "NAK"})
  <2>1. UNCHANGED <<sending, next, again>>
    BY <1>11 DEF Reply
  <2>2. sending # "block" /\ modemPc \notin {"second eot", "last eot"}
    <3>1. ~(sending = "eot" /\ toSend = <<"NAK">>)
      BY <1>11, Heads
    <3>2. sending = "block" => toSend \notin {<<"ACK">>, <<"NAK">>, <<"ACK", "C">>}
      BY <1>11, Heads
    <3> QED BY <1>4, <3>1, <3>2
  <2>3. InTurn'
    BY <1>1, <1>2, <1>3, <2>1, <2>2 DEF InTurn
  <2> QED BY <1>1, <2>1, <2>2, <2>3, SameRange DEF BlocksBefore
<1> QED BY <1>8, <1>9, <1>10, <1>11

\* What is sent again belongs to the range the receiver has.
LEMMA LostStep ==
    ASSUME ModemAssumption, BlocksBefore, AnswerLost
    PROVE  InTurn' /\ InRange'
<1>1. /\ toRecv = <<>> /\ toSend # <<>> /\ ~again /\ sending \in {"block", "eot", "null"}
      /\ modemPc \in {"header", "last", "second eot", "last eot"} /\ toSend' = <<>> /\ again' = TRUE
      /\ UNCHANGED <<modemPc, bno, memory, mode, file, sending, next, toRecv>>
  BY DEF AnswerLost, receiver
<1>2. ~UnderWay'
  BY <1>1 DEF UnderWay, InBlock
<1>3. modemPc \in {"second eot", "last eot"} => sending = "eot"
  BY DEF BlocksBefore, InTurn
<1>4. InTurn'
  BY <1>1, <1>2, <1>3 DEF InTurn
<1>5. ~Acknowledged'
  BY <1>1 DEF Acknowledged
<1>6. CASE sending = "block" /\ Acknowledged
  <2>1. next % M # M - 1
    <3>1. ~(lastTwice \/ (sending = "block" /\ Head(toSend) = "ACK" /\ next % M = M - 1))
      BY DEF AnswerLost, BlocksBefore, Clean
    <3> QED BY <1>6, <3>1 DEF Acknowledged
  <2>2. bno = (next + 1) \div M /\ Placed((next + 1) - 1)
    BY <1>6 DEF BlocksBefore, InRange, UpTo
  <2>3. next \in Nat /\ M \in Nat \ {0} /\ BlockBytes \in Nat
    BY Values, NextIn DEF BlocksBefore
  <2>4. bno = next \div M
    BY <2>1, <2>2, <2>3, NextDiv
  <2>5. Placed(next - 1)
    <3>1. (next + 1) - 1 = next
      BY <2>3
    <3>2. \A i \in 0 .. next * BlockBytes - 1 : i \in DOMAIN memory /\ memory[i] = file[(i \div BlockBytes) + 1]
      BY <2>2, <3>1 DEF Placed
    <3>3. (next - 1) * BlockBytes <= next * BlockBytes /\ (next - 1) * BlockBytes \in Int /\ next * BlockBytes \in Int
      BY <2>3
    <3> DEFINE a == (next - 1) * BlockBytes
               b == next * BlockBytes
    <3>4. a <= b /\ a \in Int /\ b \in Int
      BY <3>3
    <3> HIDE DEF a, b
    <3>5. \A i \in 0 .. a - 1 : i \in 0 .. b - 1
      BY <3>4
    <3> QED BY <3>2, <3>5 DEF Placed, a, b
  <2>6. UpTo(next)'
    BY <1>1, <2>4, <2>5 DEF UpTo, Placed
  <2>7. modemPc \notin Late
    BY <1>6 DEF BlocksBefore, InRange, Late
  <2> QED BY <1>1, <1>4, <1>5, <1>6, <2>6, <2>7 DEF InRange, Late
<1>7. CASE ~(sending = "block" /\ Acknowledged)
  BY <1>1, <1>4, <1>5, <1>7, SameRange DEF BlocksBefore
<1> QED BY <1>6, <1>7

-----------------------------------------------------------------------------
(* The invariant and the file                                               *)

LEMMA Provisos == ASSUME Clean', [ModemNext]_modemVars PROVE Clean
<1>1. CASE Receive
  <2>1. Idle
    BY <1>1 DEF Receive, mStartTimeout, Header, SecondEot, TakeByte, StartBlock, DataBlock, WrongNumber
  <2> QED BY <2>1 DEF Clean, Idle, sender
<1>2. CASE Send
  <2>1. UNCHANGED <<mode, file, lastTwice>>
    BY <1>2 DEF Send
  <2>2. ~headHit
    <3>1. CASE UNCHANGED headHit
      BY <3>1 DEF Clean
    <3>2. CASE \E g \in Garbled(Message) : toRecv' = g /\ headHit' = (headHit \/ g[1] # Message[1])
      BY <3>2 DEF Clean
    <3> QED BY <1>2, <3>1, <3>2 DEF Send
  <2> QED BY <2>1, <2>2 DEF Clean
<1>3. CASE Reply
  BY <1>3 DEF Reply, Clean
<1>4. CASE AnswerLost
  BY <1>4 DEF AnswerLost, Clean
<1>5. CASE UNCHANGED modemVars
  BY <1>5 DEF Clean, modemVars, sender
<1> QED BY <1>1, <1>2, <1>3, <1>4, <1>5 DEF ModemNext

LEMMA Stutter == ASSUME InTurn, InRange, UNCHANGED modemVars PROVE InTurn' /\ InRange'
<1>1. UNCHANGED <<modemPc, mybuf, bno, memory, mode, file, sending, next, again, toRecv, toSend>>
  BY DEF modemVars, receiver, sender
<1>2. Message' = Message /\ Arriving' = Arriving
  BY <1>1, SameMessage
<1>3. \A m : Carried(m)' <=> Carried(m)
  BY <1>1 DEF Carried, InBlock
<1>4. (UnderWay' <=> UnderWay) /\ (Acknowledged' <=> Acknowledged)
  BY <1>1 DEF UnderWay, InBlock, Acknowledged
<1>5. InTurn'
  BY <1>1, <1>2, <1>3, <1>4 DEF InTurn
<1>6. InRange'
  BY <1>1, <1>4, SameRange
<1> QED BY <1>5, <1>6

LEMMA InvStep ==
    ASSUME ModemAssumption, ModemInv, [ModemNext]_modemVars
    PROVE  ModemInv'
<1>1. TypeOK /\ TypeOK'
  BY TypeStep DEF ModemInv
<1>2. ASSUME Clean' PROVE InTurn' /\ InRange'
  <2>1. Clean /\ InTurn /\ InRange
    BY <1>2, Provisos DEF ModemInv
  <2>2. BlocksBefore
    BY <1>1, <1>2, <2>1 DEF BlocksBefore
  <2>3. CASE Receive
    BY <2>2, <2>3, TimeoutStep, HeaderStep, SecondEotStep, TakeStep, StartStep, DataStep, WrongStep
       DEF Receive
  <2>4. CASE Send \/ Reply \/ AnswerLost
    BY <2>2, <2>4, SendStep, ReplyStep, LostStep
  <2>5. CASE UNCHANGED modemVars
    BY <2>1, <2>5, Stutter
  <2> QED BY <2>3, <2>4, <2>5 DEF ModemNext
<1> QED BY <1>1, <1>2 DEF ModemInv

\* Type correctness: every register and what is on the line keep to their sets.
THEOREM ModemTypeCorrect ==
    ASSUME ModemAssumption
    PROVE  ModemSpec => []TypeOK
<1>1. ModemInit => TypeOK
  BY TypeInit
<1>2. TypeOK /\ [ModemNext]_modemVars => TypeOK'
  BY TypeStep
<1> QED BY <1>1, <1>2, PTL DEF ModemSpec

\* The sender and the receiver take turns, what the receiver has taken of a message is what was sent
\* of it, and it waits for the block that is being sent with every earlier one in place: as long as
\* no header was changed and no last number of a range came twice.
THEOREM ModemCorrect ==
    ASSUME ModemAssumption
    PROVE  ModemSpec => []ModemInv
<1>1. ModemInit => ModemInv
  BY TypeInit, InvInit DEF ModemInv
<1>2. ModemInv /\ [ModemNext]_modemVars => ModemInv'
  BY InvStep
<1> QED BY <1>1, <1>2, PTL DEF ModemSpec

\* When the load returns, the file is in memory, block after block (modem.c:93-241), under the provisos
\* of FileInPlace.
THEOREM FileLoaded ==
    ASSUME ModemAssumption
    PROVE  ModemSpec => []FileInPlace
<1>1. ModemInv => FileInPlace
  BY DEF ModemInv, InRange, FileInPlace
<1> QED BY <1>1, ModemCorrect, PTL
=============================================================================
