------------------------- MODULE RecordingFile_proofs -------------------------
(***************************************************************************)
(* Proofs about one recording and its sidecar, for any lengths of blocks and *)
(* batches, any limit of the index and any number of faults, and about the   *)
(* recorder that fills one recording after another.                          *)
(***************************************************************************)
EXTENDS RecordingFile, MCRecorder, FiniteSetTheorems, SequenceTheorems,
        WellFoundedInduction, TLAPS

-----------------------------------------------------------------------------
(* Where the blocks are *)

\* The media of n blocks ends at this offset.
MediaEnd(n) == HdrLen + n * BlkLen

LEMMA Ends ==
  /\ MediaEnd(0) = HdrLen /\ HdrLen = 1
  /\ \A n \in Nat : /\ MediaEnd(n) \in Nat /\ MediaEnd(n) >= 1
                    /\ MediaEnd(n + 1) = MediaEnd(n) + BlkLen
  /\ \A i, j \in Nat : MediaEnd(i) + j * BlkLen = MediaEnd(i + j)
  /\ \A i, j \in Nat : i < j => MediaEnd(i) + BlkLen <= MediaEnd(j)
<1>1. BlkLen \in Nat /\ BlkLen >= 1 /\ HdrLen = 1
  BY RecordingFileAssumption DEF HdrLen
<1>2. \A n \in Nat : n * BlkLen \in Nat /\ (n + 1) * BlkLen = n * BlkLen + BlkLen
  BY <1>1
<1>3. \A i, j \in Nat : (i + j) * BlkLen = i * BlkLen + j * BlkLen
  BY <1>1
<1>4. ASSUME NEW i \in Nat, NEW j \in Nat, i < j
      PROVE  MediaEnd(i) + BlkLen <= MediaEnd(j)
  <2>1. PICK k \in Nat : j = (i + 1) + k
    <3>1. j - (i + 1) \in Nat /\ j = (i + 1) + (j - (i + 1))
      BY <1>4
    <3> QED
      BY <3>1
  <2>2. j * BlkLen = (i + 1) * BlkLen + k * BlkLen
    BY <1>3, <2>1
  <2> QED
    BY <1>1, <1>2, <2>2 DEF MediaEnd
<1>5. MediaEnd(0) = HdrLen
  BY <1>1 DEF MediaEnd
<1>6. \A n \in Nat : /\ MediaEnd(n) \in Nat /\ MediaEnd(n) >= 1
                     /\ MediaEnd(n + 1) = MediaEnd(n) + BlkLen
  BY <1>1, <1>2 DEF MediaEnd
<1>7. \A i, j \in Nat : MediaEnd(i) + j * BlkLen = MediaEnd(i + j)
  BY <1>1, <1>2, <1>3 DEF MediaEnd
<1> QED
  BY <1>1, <1>4, <1>5, <1>6, <1>7

EntryType == [off : Nat, id : Nat]
FooterType == [blocks : Nat, ioff : Nat, count : Nat]
Cells == [k : {"HDR", "BLK", "VIDX", "VEOF"},
          of : Nat \cup Seq(EntryType) \cup FooterType, part : Nat \ {0}]

\* The index of n blocks.
Ix(n) == [j \in 1..n |-> Entry(MediaEnd(j - 1), j)]

LEMMA IxType ==
  ASSUME NEW n \in Nat
  PROVE  /\ Ix(n) \in Seq(EntryType) /\ Len(Ix(n)) = n
         /\ \A j \in 1..n : Ix(n)[j] = Entry(MediaEnd(j - 1), j)
<1>1. \A j \in 1..n : Entry(MediaEnd(j - 1), j) \in EntryType
  <2> SUFFICES ASSUME NEW j \in 1..n
               PROVE  Entry(MediaEnd(j - 1), j) \in EntryType
    OBVIOUS
  <2>1. j - 1 \in Nat /\ j \in Nat
    OBVIOUS
  <2>2. MediaEnd(j - 1) \in Nat
    BY <2>1, Ends
  <2> QED
    BY <2>1, <2>2 DEF Entry, EntryType
<1>2. Ix(n) \in [1..n -> EntryType]
  BY <1>1 DEF Ix
<1> QED
  BY <1>2 DEF Ix

\* The file starts with a header and n whole blocks.
Holds(file, n) ==
  /\ MediaEnd(n) <= Len(file)
  /\ file[1].k = "HDR"
  /\ \A j \in 1..n : \A p \in 1..BlkLen :
       file[MediaEnd(j - 1) + p] = Cell("BLK", j, p)

\* ... and no more of these.
HoldsJust(file, n) == Holds(file, n) /\ ~BlockAt(file, MediaEnd(n))

LEMMA BlockIsAt ==
  ASSUME NEW file \in Seq(Cells), NEW n \in Nat, Holds(file, n), NEW i \in Nat, i < n
  PROVE  BlockAt(file, MediaEnd(i)) /\ file[MediaEnd(i) + 1].of = i + 1
<1>1. i + 1 \in 1..n /\ 1 \in 1..BlkLen /\ (i + 1) - 1 = i
  BY RecordingFileAssumption
<1>2. file[MediaEnd(i) + 1] = Cell("BLK", i + 1, 1)
  BY <1>1 DEF Holds
<1>3. MediaEnd(i) + BlkLen <= MediaEnd(n)
  BY Ends
<1>4. MediaEnd(i) + BlkLen <= Len(file)
  <2>1. MediaEnd(i) \in Nat /\ MediaEnd(n) \in Nat
    BY Ends
  <2>2. Len(file) \in Nat
    OBVIOUS
  <2> QED
    BY <1>3, <2>1, <2>2, RecordingFileAssumption DEF Holds
<1> QED
  BY <1>2, <1>4 DEF BlockAt, BlockHead, Cell

\* A scan from the end of the first m blocks finds the others.
LEMMA ScanFinds ==
  ASSUME NEW file \in Seq(Cells), NEW n \in Nat, HoldsJust(file, n), NEW m \in 0..n
  PROVE  /\ ScanCount(file, MediaEnd(m)) = n - m
         /\ Scan(file, MediaEnd(m)) =
              [j \in 1..(n - m) |-> Entry(MediaEnd(m + j - 1), m + j)]
<1> DEFINE P(k) == /\ k \in 0..Len(file)
                   /\ \A j \in 0..(k - 1) : BlockAt(file, MediaEnd(m) + j * BlkLen)
                   /\ ~BlockAt(file, MediaEnd(m) + k * BlkLen)
<1>1. \A j \in Nat : MediaEnd(m) + j * BlkLen = MediaEnd(m + j)
  <2>1. m \in Nat
    OBVIOUS
  <2> QED
    BY <2>1, Ends
<1>2. ASSUME NEW k \in 0..Len(file)
      PROVE  P(k) <=> /\ \A j \in 0..(k - 1) : BlockAt(file, MediaEnd(m + j))
                      /\ ~BlockAt(file, MediaEnd(m + k))
  <2>1. k \in Nat /\ \A j \in 0..(k - 1) : j \in Nat
    OBVIOUS
  <2> QED
    BY <1>1, <2>1
<1>3. \A j \in Nat : j < n - m => BlockAt(file, MediaEnd(m + j))
  BY BlockIsAt DEF HoldsJust
<1>4. n - m \in 0..Len(file)
  <2>1. n <= MediaEnd(n)
    <3>1. BlkLen \in Nat /\ BlkLen >= 1
      BY RecordingFileAssumption
    <3>2. n * BlkLen >= n
      BY <3>1
    <3> QED
      BY <3>1, <3>2 DEF MediaEnd, HdrLen
  <2>2. MediaEnd(n) \in Nat /\ Len(file) \in Nat /\ MediaEnd(n) <= Len(file)
    BY Ends DEF HoldsJust, Holds
  <2> QED
    BY <2>1, <2>2
<1>5. P(n - m)
  <2>1. m + (n - m) = n /\ \A j \in 0..((n - m) - 1) : j \in Nat /\ j < n - m
    BY <1>4
  <2>2. /\ \A j \in 0..((n - m) - 1) : BlockAt(file, MediaEnd(m + j))
        /\ ~BlockAt(file, MediaEnd(m + (n - m)))
    BY <1>3, <2>1 DEF HoldsJust
  <2> HIDE DEF P
  <2> QED
    BY <1>2, <1>4, <2>2
<1>6. ASSUME NEW k, P(k)
      PROVE  k = n - m
  <2>1. k \in Nat
    BY <1>6
  <2>2. ~(k < n - m)
    <3>1. k \in 0..Len(file)
      BY <1>6
    <3>2. ~BlockAt(file, MediaEnd(m + k))
      BY <1>2, <1>6, <3>1
    <3> QED
      BY <1>3, <2>1, <3>2
  <2>3. ~(n - m < k)
    <3> SUFFICES ASSUME n - m < k
                 PROVE  FALSE
      OBVIOUS
    <3>1. n - m \in 0..(k - 1) /\ k \in 0..Len(file)
      BY <1>4, <1>6, <2>1
    <3>2. \A j \in 0..(k - 1) : BlockAt(file, MediaEnd(m + j))
      BY <1>2, <1>6, <3>1
    <3>3. m + (n - m) = n
      OBVIOUS
    <3> QED
      BY <3>1, <3>2, <3>3 DEF HoldsJust
  <2> QED
    BY <2>1, <2>2, <2>3
<1>7. ScanCount(file, MediaEnd(m)) = n - m
  <2>1. ScanCount(file, MediaEnd(m)) = CHOOSE k : P(k)
    BY DEF ScanCount
  <2> HIDE DEF P
  <2> QED
    BY <1>5, <1>6, <2>1
<1>8. ASSUME NEW j \in 1..(n - m)
      PROVE  /\ MediaEnd(m) + (j - 1) * BlkLen = MediaEnd(m + j - 1)
             /\ file[MediaEnd(m) + (j - 1) * BlkLen + 1].of = m + j
  <2>1. j - 1 \in Nat /\ m + (j - 1) < n /\ m + (j - 1) \in Nat
        /\ m + (j - 1) = m + j - 1 /\ (m + (j - 1)) + 1 = m + j
    OBVIOUS
  <2>2. MediaEnd(m) + (j - 1) * BlkLen = MediaEnd(m + (j - 1))
    BY <2>1, Ends
  <2>3. file[MediaEnd(m + (j - 1)) + 1].of = (m + (j - 1)) + 1
    BY <2>1, BlockIsAt DEF HoldsJust
  <2> QED
    BY <2>1, <2>2, <2>3
<1> QED
  BY <1>7, <1>8 DEF Scan, BlockMeta

-----------------------------------------------------------------------------
(* What a file may look like *)

\* The footer of n blocks, pointing at their index or at none.
FtrOf(n, x) == Footer(n, IF x THEN MediaEnd(n) ELSE 0, n)

\* n blocks, a cells of their index, b cells of their footer.
Laid(file, n, a, b, x) ==
  /\ a \in 0..IdxLen(n) /\ b \in 0..FtrLen /\ x \in BOOLEAN
  /\ Holds(file, n)
  /\ Len(file) = MediaEnd(n) + a + b
  /\ \A p \in 1..a : file[MediaEnd(n) + p] = Cell("VIDX", Ix(n), p)
  /\ \A p \in 1..b : file[MediaEnd(n) + a + p] = Cell("VEOF", FtrOf(n, x), p)
  /\ x => a = IdxLen(n) /\ n >= 1

\* n blocks and part of another.
Broken(file, n) ==
  \E c \in 0..(BlkLen - 1) :
    /\ Holds(file, n)
    /\ Len(file) = MediaEnd(n) + c
    /\ \A p \in 1..c : file[MediaEnd(n) + p] = Cell("BLK", n + 1, p)

LaidSomehow(file, n) ==
  \E a \in Nat, b \in Nat, x \in BOOLEAN : Laid(file, n, a, b, x)

Shaped(file, n) ==
  (file = <<>> /\ n = 0) \/ Broken(file, n) \/ LaidSomehow(file, n)

LEMMA Lengths ==
  ASSUME NEW n \in Nat
  PROVE  /\ MediaEnd(n) \in Nat /\ MediaEnd(n) >= 1
         /\ BlkLen \in Nat /\ BlkLen >= 1 /\ FtrLen \in Nat /\ FtrLen >= 1
         /\ IdxLen(n) = n + 1
BY Ends, RecordingFileAssumption DEF IdxLen

\* The last cell of the media is no footer's.
LEMMA MediaIsNoFooter ==
  ASSUME NEW file, NEW n \in Nat, Holds(file, n)
  PROVE  file[MediaEnd(n)].k # "VEOF"
<1>1. /\ MediaEnd(n) \in Nat /\ MediaEnd(n) >= 1
      /\ BlkLen \in Nat /\ BlkLen >= 1
  BY Lengths
<1>2. CASE n # 0
  <2>1. n \in 1..n /\ BlkLen \in 1..BlkLen /\ n - 1 \in Nat /\ (n - 1) + 1 = n
    BY <1>1, <1>2
  <2>2. file[MediaEnd(n - 1) + BlkLen] = Cell("BLK", n, BlkLen)
    BY <2>1 DEF Holds
  <2>3. MediaEnd((n - 1) + 1) = MediaEnd(n - 1) + BlkLen
    BY <2>1, Ends
  <2>4. file[MediaEnd(n)] = Cell("BLK", n, BlkLen)
    BY <2>1, <2>2, <2>3
  <2> QED
    BY <2>4 DEF Cell
<1>3. CASE n = 0
  <2>1. MediaEnd(0) = 1
    BY Ends
  <2> QED
    BY <1>3, <2>1 DEF Holds
<1> QED
  BY <1>2, <1>3

\* A file ends in a footer if its last cell is the end of one.
LEMMA FooterAtTheEnd ==
  ASSUME NEW file \in Seq(Cells), HasFooter(file)
  PROVE  file[Len(file)].k = "VEOF" /\ file[Len(file)].part = FtrLen
<1>1. FtrLen \in 1..FtrLen /\ Len(file) \in Nat /\ Len(file) >= FtrLen
  BY RecordingFileAssumption DEF HasFooter
<1>2. Len(file) - FtrLen + FtrLen = Len(file)
  BY <1>1
<1> QED
  BY <1>1, <1>2 DEF HasFooter

LEMMA BrokenHolds ==
  ASSUME NEW file \in Seq(Cells), NEW n \in Nat, Broken(file, n)
  PROVE  HoldsJust(file, n) /\ ~HasFooter(file) /\ HasHeader(file)
<1>1. PICK c \in 0..(BlkLen - 1) :
        /\ Holds(file, n)
        /\ Len(file) = MediaEnd(n) + c
        /\ \A p \in 1..c : file[MediaEnd(n) + p] = Cell("BLK", n + 1, p)
  BY DEF Broken
<1>2. /\ MediaEnd(n) \in Nat /\ MediaEnd(n) >= 1
      /\ BlkLen \in Nat /\ BlkLen >= 1 /\ FtrLen \in Nat /\ FtrLen >= 1
  BY Lengths
<1>3. ~BlockAt(file, MediaEnd(n))
  BY <1>1, <1>2 DEF BlockAt, BlockHead
<1>4. file[Len(file)].k # "VEOF"
  <2>1. CASE c # 0
    <3>1. c \in 1..c
      BY <2>1, <1>2
    <3>2. file[MediaEnd(n) + c] = Cell("BLK", n + 1, c)
      BY <1>1, <3>1
    <3> QED
      BY <1>1, <3>2 DEF Cell
  <2>2. CASE c = 0
    <3>1. Len(file) = MediaEnd(n)
      BY <1>1, <1>2, <2>2
    <3> QED
      BY <1>1, <3>1, MediaIsNoFooter
  <2> QED
    BY <2>1, <2>2
<1>5. ~HasFooter(file)
  BY <1>4, FooterAtTheEnd
<1>6. HasHeader(file)
  BY <1>1, <1>2 DEF HasHeader, HeaderWhole, HdrLen
<1> QED
  BY <1>1, <1>3, <1>5, <1>6 DEF HoldsJust

LEMMA LaidHolds ==
  ASSUME NEW file \in Seq(Cells), NEW n \in Nat, NEW a \in Nat, NEW b \in Nat,
         NEW x \in BOOLEAN, Laid(file, n, a, b, x)
  PROVE  /\ HoldsJust(file, n) /\ HasHeader(file)
         /\ HasFooter(file) <=> b = FtrLen
         /\ b = FtrLen => FooterOf(file) = FtrOf(n, x)
<1>1. /\ MediaEnd(n) \in Nat /\ MediaEnd(n) >= 1
      /\ BlkLen \in Nat /\ BlkLen >= 1 /\ FtrLen \in Nat /\ FtrLen >= 1
      /\ Len(file) = MediaEnd(n) + a + b /\ b <= FtrLen
  BY Lengths DEF Laid
<1>2. ~BlockAt(file, MediaEnd(n))
  <2>1. CASE a # 0
    <3>1. 1 \in 1..a
      BY <2>1
    <3>2. file[MediaEnd(n) + 1] = Cell("VIDX", Ix(n), 1)
      BY <3>1 DEF Laid
    <3> QED
      BY <3>2 DEF BlockAt, BlockHead, Cell
  <2>2. CASE a = 0 /\ b # 0
    <3>1. 1 \in 1..b /\ MediaEnd(n) + a + 1 = MediaEnd(n) + 1
      BY <2>2, <1>1
    <3>2. file[MediaEnd(n) + a + 1] = Cell("VEOF", FtrOf(n, x), 1)
      BY <3>1 DEF Laid
    <3> QED
      BY <3>1, <3>2 DEF BlockAt, BlockHead, Cell
  <2>3. CASE a = 0 /\ b = 0
    BY <1>1, <2>3 DEF BlockAt, BlockHead
  <2> QED
    BY <2>1, <2>2, <2>3
<1>3. HasHeader(file)
  BY <1>1 DEF HasHeader, HeaderWhole, HdrLen
<1>4. ASSUME b = FtrLen
      PROVE  HasFooter(file) /\ FooterOf(file) = FtrOf(n, x)
  <2>1. \A p \in 1..FtrLen : Len(file) - FtrLen + p = MediaEnd(n) + a + p
    BY <1>1, <1>4
  <2>2. ASSUME NEW p \in 1..FtrLen
        PROVE  /\ file[Len(file) - FtrLen + p].k = "VEOF"
               /\ file[Len(file) - FtrLen + p].part = p
               /\ file[Len(file) - FtrLen + p].of = FtrOf(n, x)
    <3>1. file[MediaEnd(n) + a + p] = Cell("VEOF", FtrOf(n, x), p)
      BY <1>4 DEF Laid
    <3> QED
      BY <2>1, <3>1 DEF Cell
  <2>3. FtrLen \in 1..FtrLen /\ Len(file) - FtrLen + FtrLen = Len(file)
        /\ Len(file) >= FtrLen
    BY <1>1, <1>4
  <2>4. FooterOf(file) = FtrOf(n, x)
    BY <2>2, <2>3 DEF FooterOf
  <2>5. HasFooter(file)
    BY <2>2, <2>3 DEF HasFooter
  <2> QED
    BY <2>4, <2>5
<1>5. ASSUME b # FtrLen
      PROVE  ~HasFooter(file)
  <2> SUFFICES ~(file[Len(file)].k = "VEOF" /\ file[Len(file)].part = FtrLen)
    BY FooterAtTheEnd
  <2>1. CASE b # 0
    <3>1. b \in 1..b /\ Len(file) = MediaEnd(n) + a + b
      BY <2>1, <1>1
    <3>2. file[MediaEnd(n) + a + b] = Cell("VEOF", FtrOf(n, x), b)
      BY <3>1 DEF Laid
    <3> QED
      BY <1>5, <3>1, <3>2 DEF Cell
  <2>2. CASE b = 0 /\ a # 0
    <3>1. a \in 1..a /\ Len(file) = MediaEnd(n) + a
      BY <2>2, <1>1
    <3>2. file[MediaEnd(n) + a] = Cell("VIDX", Ix(n), a)
      BY <3>1 DEF Laid
    <3> QED
      BY <3>1, <3>2 DEF Cell
  <2>3. CASE b = 0 /\ a = 0
    <3>1. Len(file) = MediaEnd(n) /\ Holds(file, n)
      BY <2>3, <1>1 DEF Laid
    <3> QED
      BY <3>1, MediaIsNoFooter
  <2> QED
    BY <2>1, <2>2, <2>3
<1> QED
  BY <1>2, <1>3, <1>4, <1>5 DEF HoldsJust, Laid

LEMMA NoFooterYet ==
  ASSUME NEW file \in Seq(Cells), NEW n \in Nat, NEW a \in Nat,
         Laid(file, n, a, 0, FALSE)
  PROVE  ~HasFooter(file)
<1>1. 0 \in Nat /\ FALSE \in BOOLEAN /\ 0 # FtrLen
  BY RecordingFileAssumption
<1>2. HasFooter(file) <=> 0 = FtrLen
  BY <1>1, LaidHolds
<1> QED
  BY <1>1, <1>2

-----------------------------------------------------------------------------
(* What a sidecar holds *)

BatchType == [entries : Seq(EntryType), valid : Nat]

\* The batch of the blocks after l, up to r.
Batch(l, r) ==
  [entries |-> [k \in 1..(r - l) |-> Entry(MediaEnd(l + k - 1), l + k)],
   valid   |-> MediaEnd(r)]

\* Batch i ends with block u[i]; the last one with block m.
BatchedAs(bs, u) ==
  /\ u \in [0..Len(bs) -> Nat]
  /\ u[0] = 0
  /\ \A i \in 1..Len(bs) : u[i - 1] < u[i] /\ bs[i] = Batch(u[i - 1], u[i])

Covers(bs, m) == \E u \in [0..Len(bs) -> Nat] : BatchedAs(bs, u) /\ u[Len(bs)] = m

LEMMA Least ==
  ASSUME NEW S, NEW x \in S, S \subseteq Nat
  PROVE  \E m \in S : \A y \in S : m <= y
<1>1. IsWellFoundedOn(OpToRel(<, Nat), Nat)
  BY NatLessThanWellFounded
<1>2. PICK m \in S : \A y \in S : ~(<<y, m>> \in OpToRel(<, Nat))
  <2> HIDE DEF OpToRel
  <2> QED
    BY <1>1, WFMin
<1>3. ASSUME NEW y \in S PROVE m <= y
  <2>1. ~(y < m)
    BY <1>2 DEF OpToRel
  <2> QED
    BY <2>1
<1> QED
  BY <1>3

LEMMA BatchEntries ==
  ASSUME NEW l \in Nat, NEW r \in Nat, l <= r
  PROVE  /\ Batch(l, r).entries \in Seq(EntryType)
         /\ Len(Batch(l, r).entries) = r - l
         /\ Ix(l) \o Batch(l, r).entries = Ix(r)
<1> DEFINE es == [k \in 1..(r - l) |-> Entry(MediaEnd(l + k - 1), l + k)]
<1>1. Batch(l, r).entries = es
  BY DEF Batch
<1>2. \A k \in 1..(r - l) : es[k] = Ix(r)[l + k]
  <2> SUFFICES ASSUME NEW k \in 1..(r - l)
               PROVE  es[k] = Ix(r)[l + k]
    OBVIOUS
  <2>1. l + k \in 1..r
    OBVIOUS
  <2>2. Ix(r)[l + k] = Entry(MediaEnd((l + k) - 1), l + k)
    BY <2>1, IxType
  <2> QED
    BY <2>2
<1>3. r - l \in Nat
  OBVIOUS
<1>4. \A k \in 1..(r - l) : es[k] \in EntryType
  <2> SUFFICES ASSUME NEW k \in 1..(r - l)
               PROVE  es[k] \in EntryType
    OBVIOUS
  <2>1. l + k \in 1..r /\ l + k - 1 \in Nat /\ l + k \in Nat
    OBVIOUS
  <2>2. MediaEnd(l + k - 1) \in Nat
    BY <2>1, Ends
  <2> QED
    BY <2>1, <2>2 DEF Entry, EntryType
<1>5. es \in Seq(EntryType) /\ Len(es) = r - l
  <2>1. es \in [1..(r - l) -> EntryType]
    BY <1>4
  <2> HIDE DEF es
  <2> QED
    BY <1>3, <2>1
<1>6. Ix(l) \in Seq(EntryType) /\ Len(Ix(l)) = l /\ Ix(r) \in Seq(EntryType)
      /\ Len(Ix(r)) = r
  BY IxType
<1>7. Ix(l) \o es = Ix(r)
  <2> HIDE DEF es
  <2>1. /\ Ix(l) \o es \in Seq(EntryType)
        /\ Len(Ix(l) \o es) = r
        /\ \A i \in 1..r : (Ix(l) \o es)[i] = IF i <= l THEN Ix(l)[i] ELSE es[i - l]
    BY <1>5, <1>6, ConcatProperties
  <2>2. ASSUME NEW i \in 1..r
        PROVE  (Ix(l) \o es)[i] = Ix(r)[i]
    <3>1. CASE i <= l
      <4>1. i \in 1..l
        BY <3>1
      <4>2. Ix(l)[i] = Entry(MediaEnd(i - 1), i)
        BY <4>1, IxType
      <4>3. Ix(r)[i] = Entry(MediaEnd(i - 1), i)
        BY IxType
      <4> QED
        BY <2>1, <3>1, <4>2, <4>3
    <3>2. CASE ~(i <= l)
      <4>1. i - l \in 1..(r - l) /\ l + (i - l) = i
        BY <3>2
      <4> QED
        BY <1>2, <2>1, <3>2, <4>1
    <3> QED
      BY <3>1, <3>2
  <2> QED
    BY <1>6, <2>1, <2>2, SeqEqual
<1> QED
  BY <1>1, <1>5, <1>7

\* Batch after batch, the entries are the index of the blocks they cover.
LEMMA EntriesAre ==
  ASSUME NEW bs, NEW m, Len(bs) \in Nat, Covers(bs, m)
  PROVE  m \in Nat /\ Entries(bs) = Ix(m)
<1>1. PICK u \in [0..Len(bs) -> Nat] : BatchedAs(bs, u) /\ u[Len(bs)] = m
  BY DEF Covers
<1> DEFINE k == Len(bs)
           s == [i \in 1..k |-> bs[i].entries]
           Flat(f) == f = [i \in 1..k |-> IF i = 1 THEN s[i] ELSE f[i - 1] \o s[i]]
           t == [i \in 1..k |-> Ix(u[i])]
<1>2. \A i \in 0..k : u[i] \in Nat
  BY <1>1
<1>3. m \in Nat
  BY <1>1, <1>2
<1>4. ASSUME NEW i \in 1..k
      PROVE  Ix(u[i - 1]) \o s[i] = Ix(u[i])
  <2>1. i - 1 \in 0..k /\ i \in 0..k
    OBVIOUS
  <2>2. u[i - 1] \in Nat /\ u[i] \in Nat /\ u[i - 1] < u[i]
    BY <1>1, <1>2, <2>1 DEF BatchedAs
  <2>3. s[i] = Batch(u[i - 1], u[i]).entries
    BY <1>1 DEF BatchedAs
  <2>4. u[i - 1] <= u[i]
    BY <2>2
  <2> QED
    BY <2>2, <2>3, <2>4, BatchEntries
<1>5. k >= 1 => Ix(u[1]) = s[1]
  <2> SUFFICES ASSUME k >= 1
               PROVE  Ix(u[1]) = s[1]
    OBVIOUS
  <2>1. 1 \in 1..k /\ 1 - 1 = 0 /\ 1 \in 0..k
    OBVIOUS
  <2>2. u[1] \in Nat /\ 0 \in Nat /\ 0 <= u[1] /\ u[0] = 0
    BY <1>1, <1>2, <2>1 DEF BatchedAs
  <2>3. s[1] = Batch(0, u[1]).entries
    BY <1>1, <2>1, <2>2 DEF BatchedAs
  <2>4. s[1] \in Seq(EntryType) /\ Ix(0) \o s[1] = Ix(u[1])
    BY <2>2, <2>3, BatchEntries
  <2>5. Ix(0) = <<>>
    BY DEF Ix
  <2>6. <<>> \o s[1] = s[1]
    BY <2>4, ConcatEmptySeq
  <2> QED
    BY <2>4, <2>5, <2>6
<1>6. Flat(t)
  <2>1. ASSUME NEW i \in 1..k
        PROVE  t[i] = IF i = 1 THEN s[i] ELSE t[i - 1] \o s[i]
    <3>1. CASE i = 1
      BY <1>5, <3>1
    <3>2. CASE i # 1
      <4>1. i - 1 \in 1..k
        BY <3>2
      <4>2. t[i - 1] = Ix(u[i - 1]) /\ t[i] = Ix(u[i])
        BY <4>1
      <4> QED
        BY <1>4, <3>2, <4>2
    <3> QED
      BY <3>1, <3>2
  <2> QED
    BY <2>1
<1>7. ASSUME NEW f, Flat(f), k # 0
      PROVE  f[k] = Ix(m)
  <2>1. /\ 1 \in 1..k => f[1] = s[1]
        /\ \A i \in 1..k : i # 1 => f[i] = f[i - 1] \o s[i]
    BY <1>7, Zenon
  <2> DEFINE Odd == {i \in 1..k : f[i] # Ix(u[i])}
  <2>2. Odd = {}
    <3> SUFFICES ASSUME NEW x \in Odd
                 PROVE  FALSE
      OBVIOUS
    <3>1. Odd \subseteq Nat
      OBVIOUS
    <3>2. PICK i \in Odd : \A y \in Odd : i <= y
      <4> HIDE DEF Odd
      <4> QED
        BY <3>1, Least
    <3>3. i \in 1..k /\ f[i] # Ix(u[i])
      OBVIOUS
    <3>4. i # 1
      BY <1>5, <2>1, <3>3
    <3>5. i - 1 \in 1..k /\ ~(i <= i - 1)
      BY <3>3, <3>4
    <3>6. f[i - 1] = Ix(u[i - 1])
      BY <3>2, <3>5
    <3>7. f[i] = f[i - 1] \o s[i]
      BY <2>1, <3>3, <3>4
    <3>8. Ix(u[i - 1]) \o s[i] = Ix(u[i])
      BY <1>4, <3>3
    <3> QED
      BY <3>3, <3>6, <3>7, <3>8
  <2>3. k \in 1..k
    BY <1>7
  <2> QED
    BY <1>1, <2>2, <2>3
<1>8. Len(s) = k
  OBVIOUS
<1>9. CASE k = 0
  <2>1. m = 0
    BY <1>1, <1>9 DEF BatchedAs
  <2>2. FlattenSeq(s) = s
    BY <1>8, <1>9 DEF FlattenSeq
  <2>3. s = Ix(0)
    BY <1>9 DEF Ix
  <2> QED
    BY <1>3, <2>1, <2>2, <2>3 DEF Entries
<1>10. CASE k # 0
  <2>1. PICK f : f = (CHOOSE g : Flat(g)) /\ FlattenSeq(s) = f[k]
    <3> HIDE DEF s, k
    <3> QED
      BY <1>8, <1>10 DEF FlattenSeq
  <2>2. Flat(f)
    <3> HIDE DEF Flat
    <3> QED
      BY <1>6, <2>1
  <2>3. f[k] = Ix(m)
    <3> HIDE DEF Flat, k
    <3> QED
      BY <1>7, <1>10, <2>2
  <2> QED
    BY <1>3, <2>1, <2>3 DEF Entries
<1> QED
  BY <1>9, <1>10

LEMMA CoversNothing == Covers(<<>>, 0)
<1> DEFINE u == [i \in 0..0 |-> 0]
<1>1. u \in [0..Len(<<>>) -> Nat] /\ u[0] = 0 /\ u[Len(<<>>)] = 0
  OBVIOUS
<1>2. \A i \in 1..Len(<<>>) : u[i - 1] < u[i] /\ <<>>[i] = Batch(u[i - 1], u[i])
  OBVIOUS
<1> QED
  BY <1>1, <1>2 DEF Covers, BatchedAs

LEMMA CoversMore ==
  ASSUME NEW bs \in Seq(BatchType), NEW l, NEW r \in Nat, Covers(bs, l), l < r
  PROVE  Covers(Append(bs, Batch(l, r)), r) /\ Append(bs, Batch(l, r)) \in Seq(BatchType)
<1>1. PICK u \in [0..Len(bs) -> Nat] : BatchedAs(bs, u) /\ u[Len(bs)] = l
  BY DEF Covers
<1> DEFINE k == Len(bs)
           v == [i \in 0..(k + 1) |-> IF i = k + 1 THEN r ELSE u[i]]
           cs == Append(bs, Batch(l, r))
<1>2. k \in Nat /\ l \in Nat
  BY <1>1
<1>3. Batch(l, r) \in BatchType
  <2>1. l <= r
    BY <1>2
  <2>2. Batch(l, r).entries \in Seq(EntryType)
    BY <1>2, <2>1, BatchEntries
  <2>3. MediaEnd(r) \in Nat
    BY Ends
  <2> QED
    BY <2>2, <2>3 DEF Batch, BatchType
<1>4. /\ cs \in Seq(BatchType) /\ Len(cs) = k + 1
      /\ \A i \in 1..k : cs[i] = bs[i]
      /\ cs[k + 1] = Batch(l, r)
  BY <1>3, AppendProperties
<1>5. v \in [0..Len(cs) -> Nat] /\ v[0] = 0 /\ v[Len(cs)] = r
  <2>1. \A i \in 0..(k + 1) : v[i] \in Nat
    BY <1>1, <1>2
  <2>2. v[0] = u[0] /\ u[0] = 0
    BY <1>1, <1>2 DEF BatchedAs
  <2> QED
    BY <1>2, <1>4, <2>1, <2>2
<1>6. ASSUME NEW i \in 1..Len(cs)
      PROVE  v[i - 1] < v[i] /\ cs[i] = Batch(v[i - 1], v[i])
  <2>1. CASE i = k + 1
    <3>1. v[i] = r /\ v[i - 1] = l
      BY <1>1, <1>2, <1>4, <2>1
    <3> QED
      BY <1>4, <2>1, <3>1
  <2>2. CASE i # k + 1
    <3>1. i \in 1..k /\ i - 1 \in 0..(k + 1) /\ i \in 0..(k + 1)
          /\ i - 1 # k + 1
      BY <1>2, <1>4, <2>2
    <3>2. v[i] = u[i] /\ v[i - 1] = u[i - 1]
      BY <2>2, <3>1
    <3> QED
      BY <1>1, <1>4, <3>1, <3>2 DEF BatchedAs
  <2> QED
    BY <2>1, <2>2
<1>7. BatchedAs(cs, v)
  <2> HIDE DEF v, cs
  <2> QED
    BY <1>5, <1>6 DEF BatchedAs
<1>8. Covers(cs, r)
  <2> HIDE DEF v, cs
  <2> QED
    BY <1>5, <1>7 DEF Covers
<1> QED
  BY <1>4, <1>8

\* A sidecar cut by a power loss covers no more than it did.
LEMMA CoversLess ==
  ASSUME NEW bs \in Seq(BatchType), NEW m, Covers(bs, m), NEW k \in 0..Len(bs)
  PROVE  /\ SubSeq(bs, 1, k) \in Seq(BatchType)
         /\ \E l \in Nat : l <= m /\ Covers(SubSeq(bs, 1, k), l)
<1>1. PICK u \in [0..Len(bs) -> Nat] : BatchedAs(bs, u) /\ u[Len(bs)] = m
  BY DEF Covers
<1> DEFINE cs == SubSeq(bs, 1, k)
           v == [i \in 0..k |-> u[i]]
<1>2. Len(bs) \in Nat /\ \A i \in 0..Len(bs) : u[i] \in Nat
  BY <1>1
<1>3. cs \in Seq(BatchType) /\ Len(cs) = k /\ \A i \in 1..k : cs[i] = bs[i]
  <2>1. \A i \in 1..k : bs[i] \in BatchType
    BY <1>2
  <2> QED
    BY <1>2, <2>1, SubSeqProperties
<1>4. BatchedAs(cs, v)
  <2>1. v \in [0..Len(cs) -> Nat] /\ v[0] = 0
    BY <1>1, <1>2, <1>3 DEF BatchedAs
  <2>2. \A i \in 1..Len(cs) : v[i - 1] = u[i - 1] /\ v[i] = u[i] /\ i \in 1..Len(bs)
    BY <1>2, <1>3
  <2> HIDE DEF cs, v
  <2> QED
    BY <1>1, <1>3, <2>1, <2>2 DEF BatchedAs
<1>5. u[k] <= m
  <2> DEFINE Far == {i \in Nat : k <= i /\ i <= Len(bs) /\ ~(u[k] <= u[i])}
  <2>1. Far = {}
    <3> SUFFICES ASSUME NEW x \in Far
                 PROVE  FALSE
      OBVIOUS
    <3>1. Far \subseteq Nat
      OBVIOUS
    <3>2. PICK i \in Far : \A y \in Far : i <= y
      <4> HIDE DEF Far
      <4> QED
        BY <3>1, Least
    <3>3. i \in Nat /\ k <= i /\ i <= Len(bs) /\ ~(u[k] <= u[i])
      OBVIOUS
    <3>4. k # i
      BY <1>2, <3>3
    <3>5. i - 1 \in Nat /\ k <= i - 1 /\ i - 1 <= Len(bs) /\ ~(i <= i - 1)
          /\ i \in 1..Len(bs)
      BY <1>2, <3>3, <3>4
    <3>6. u[k] <= u[i - 1]
      BY <3>2, <3>5
    <3>7. u[i - 1] < u[i]
      BY <1>1, <3>5 DEF BatchedAs
    <3>8. u[k] \in Nat /\ u[i - 1] \in Nat /\ u[i] \in Nat
      BY <1>2, <3>5
    <3> QED
      BY <3>3, <3>6, <3>7, <3>8
  <2>2. Len(bs) \in Nat /\ k <= Len(bs) /\ Len(bs) <= Len(bs)
    BY <1>2
  <2> QED
    BY <1>1, <2>1, <2>2
<1>6. v[Len(cs)] = u[k] /\ u[k] \in Nat
  BY <1>2, <1>3
<1>7. v \in [0..Len(cs) -> Nat]
  BY <1>4 DEF BatchedAs
<1>8. Covers(cs, u[k])
  <2> HIDE DEF cs, v
  <2> QED
    BY <1>4, <1>6, <1>7 DEF Covers
<1> QED
  BY <1>3, <1>5, <1>6, <1>8

LEMMA CoversSome ==
  ASSUME NEW bs \in Seq(BatchType), NEW m, Covers(bs, m)
  PROVE  /\ m \in Nat
         /\ bs = <<>> => m = 0
         /\ bs # <<>> => m >= 1 /\ Last(bs).valid = MediaEnd(m)
<1>1. PICK u \in [0..Len(bs) -> Nat] : BatchedAs(bs, u) /\ u[Len(bs)] = m
  BY DEF Covers
<1>2. Len(bs) \in Nat /\ m \in Nat
  BY <1>1
<1>3. ASSUME bs = <<>> PROVE m = 0
  BY <1>1, <1>3 DEF BatchedAs
<1>4. ASSUME bs # <<>> PROVE m >= 1 /\ Last(bs).valid = MediaEnd(m)
  <2>1. Len(bs) \in 1..Len(bs) /\ Len(bs) - 1 \in 0..Len(bs)
    BY <1>4, EmptySeq
  <2>2. u[Len(bs) - 1] < m /\ bs[Len(bs)] = Batch(u[Len(bs) - 1], m)
        /\ u[Len(bs) - 1] \in Nat
    BY <1>1, <2>1 DEF BatchedAs
  <2>3. bs[Len(bs)].valid = MediaEnd(m)
    BY <2>2 DEF Batch
  <2> QED
    BY <1>2, <2>2, <2>3 DEF Last
<1> QED
  BY <1>2, <1>3, <1>4

-----------------------------------------------------------------------------
(* What a reader makes of them *)

LEMMA IxPrefix ==
  ASSUME NEW n \in Nat, NEW k \in 0..n
  PROVE  SubSeq(Ix(n), 1, k) = Ix(k)
<1>1. /\ Ix(n) \in Seq(EntryType) /\ Len(Ix(n)) = n
      /\ Ix(k) \in Seq(EntryType) /\ Len(Ix(k)) = k
      /\ \A j \in 1..k : Ix(n)[j] = Ix(k)[j] /\ Ix(n)[j] \in EntryType
  <2>1. k \in Nat /\ \A j \in 1..k : j \in 1..n
    OBVIOUS
  <2>2. \A j \in 1..k : Ix(n)[j] = Entry(MediaEnd(j - 1), j)
    BY <2>1, IxType
  <2>3. \A j \in 1..k : Ix(k)[j] = Entry(MediaEnd(j - 1), j)
    BY <2>1, IxType
  <2>4. Ix(n) \in Seq(EntryType) /\ Len(Ix(n)) = n
    BY IxType
  <2>5. Ix(k) \in Seq(EntryType) /\ Len(Ix(k)) = k
    BY <2>1, IxType
  <2> QED
    BY <2>1, <2>2, <2>3, <2>4, <2>5, ElementOfSeq
<1> DEFINE s == SubSeq(Ix(n), 1, k)
<1>2. s \in Seq(EntryType) /\ Len(s) = k /\ \A j \in 1..k : s[j] = Ix(n)[j]
  BY <1>1, SubSeqProperties
<1> QED
  BY <1>1, <1>2, SeqEqual

\* No block the sidecar covers seems to be in the file that is not.
Within(file, n, m) == \A v \in 0..m : MediaEnd(v) <= Len(file) => v <= n

\* The sidecar is behind the media, or just cut the same.
LEMMA FromSidecarIs ==
  ASSUME NEW file \in Seq(Cells), NEW n \in Nat, HoldsJust(file, n),
         NEW sc, sc.batches \in Seq(BatchType),
         NEW m, Covers(sc.batches, m), Within(file, n, m)
  PROVE  \E r \in 0..n :
           FromSidecar(file, sc) = [index |-> Ix(r), upto |-> MediaEnd(r)]
<1> DEFINE none == [index |-> <<>>, upto |-> HdrLen]
           es == Entries(sc.batches)
           valid == Last(sc.batches).valid
           S == {j \in 1..Len(es) : es[j].off < Len(file)}
           cut == Cardinality(S) - 1
<1>1. none = [index |-> Ix(0), upto |-> MediaEnd(0)] /\ 0 \in 0..n
  BY Ends DEF Ix
<1>2. m \in Nat /\ es = Ix(m) /\ Len(es) = m
  <2>1. Len(sc.batches) \in Nat
    OBVIOUS
  <2>2. m \in Nat /\ es = Ix(m)
    BY <2>1, EntriesAre
  <2> QED
    BY <2>2, IxType
<1>3. Len(file) \in Nat
  OBVIOUS
<1>4. CASE \/ ~sc.exists \/ sc.batches = <<>> \/ valid <= HdrLen
  <2>1. FromSidecar(file, sc) = none
    BY <1>4 DEF FromSidecar
  <2> QED
    BY <1>1, <2>1
<1>5. CASE ~(\/ ~sc.exists \/ sc.batches = <<>> \/ valid <= HdrLen) /\ valid <= Len(file)
  <2>1. FromSidecar(file, sc) = [index |-> es, upto |-> valid]
    BY <1>5 DEF FromSidecar
  <2>2. valid = MediaEnd(m)
    BY <1>5, CoversSome
  <2>3. m \in 0..n
    BY <1>2, <1>5, <2>2 DEF Within
  <2> QED
    BY <1>2, <2>1, <2>2, <2>3
<1>6. CASE ~(\/ ~sc.exists \/ sc.batches = <<>> \/ valid <= HdrLen) /\ ~(valid <= Len(file))
  <2> DEFINE T == {c \in 0..m : c = m \/ Len(file) <= MediaEnd(c)}
  <2>1. PICK c \in T : \A d \in T : c <= d
    <3>1. m \in T /\ T \subseteq Nat
      BY <1>2
    <3> HIDE DEF T
    <3> QED
      BY <3>1, Least
  <2>2. c \in 0..m /\ (c = m \/ Len(file) <= MediaEnd(c))
    OBVIOUS
  <2>3. ASSUME NEW d \in 0..m, d < c
        PROVE  MediaEnd(d) < Len(file)
    <3>1. d \notin T
      <4>1. ~(c <= d)
        BY <1>2, <2>2, <2>3
      <4> QED
        BY <2>1, <4>1
    <3>2. ~(Len(file) <= MediaEnd(d))
      BY <3>1
    <3>3. d \in Nat
      BY <1>2
    <3>4. MediaEnd(d) \in Nat
      BY <3>3, Ends
    <3> QED
      BY <1>3, <3>2, <3>4
  <2>4. \A j \in 1..m : es[j].off = MediaEnd(j - 1)
    <3> SUFFICES ASSUME NEW j \in 1..m
                 PROVE  Ix(m)[j].off = MediaEnd(j - 1)
      BY <1>2
    <3>1. Ix(m)[j] = Entry(MediaEnd(j - 1), j)
      BY <1>2, IxType
    <3> QED
      BY <3>1 DEF Entry
  <2>5. S = 1..c
    <3>1. ASSUME NEW j \in 1..c PROVE j \in S
      <4>1. j \in 1..m /\ j - 1 \in 0..m /\ j - 1 < c
        BY <1>2, <2>2
      <4>2. MediaEnd(j - 1) < Len(file)
        BY <2>3, <4>1
      <4> QED
        BY <1>2, <2>4, <4>1, <4>2
    <3>2. ASSUME NEW j \in S, j \notin 1..c PROVE FALSE
      <4>1. j \in 1..m /\ MediaEnd(j - 1) < Len(file)
        BY <1>2, <2>4
      <4>2. c \in Nat /\ j - 1 \in Nat /\ c <= j - 1 /\ c # m
        BY <1>2, <2>2, <3>2, <4>1
      <4>3. Len(file) <= MediaEnd(c)
        BY <2>2, <4>2
      <4>4. MediaEnd(c) \in Nat /\ MediaEnd(j - 1) \in Nat
        BY <4>2, Ends
      <4>5. MediaEnd(c) <= MediaEnd(j - 1)
        <5>1. CASE c = j - 1
          BY <5>1, <4>4
        <5>2. CASE c < j - 1
          <6>1. MediaEnd(c) + BlkLen <= MediaEnd(j - 1)
            BY <4>2, <5>2, Ends
          <6> QED
            BY <4>4, <6>1, RecordingFileAssumption
        <5> QED
          BY <4>2, <5>1, <5>2
      <4> QED
        BY <1>3, <4>1, <4>3, <4>4, <4>5
    <3> QED
      BY <3>1, <3>2
  <2>6. Cardinality(S) = c
    <3>1. 1 \in Int /\ c \in Int
      BY <1>2, <2>2
    <3>2. Cardinality(1..c) = IF 1 > c THEN 0 ELSE c - 1 + 1
      BY <3>1, FS_Interval
    <3>3. Cardinality(1..c) = c
      BY <1>2, <2>2, <3>2
    <3> QED
      BY <2>5, <3>3
  <2>7. FromSidecar(file, sc) =
          IF c - 1 <= 0 THEN none
          ELSE [index |-> SubSeq(es, 1, c - 1), upto |-> es[(c - 1) + 1].off]
    BY <1>6, <2>6 DEF FromSidecar
  <2>8. CASE c - 1 <= 0
    BY <1>1, <2>7, <2>8
  <2>9. CASE ~(c - 1 <= 0)
    <3>1. c - 1 \in 0..m /\ c - 1 < c /\ (c - 1) + 1 = c /\ c \in 1..m
      BY <1>2, <2>2, <2>9
    <3>2. SubSeq(es, 1, c - 1) = Ix(c - 1)
      BY <1>2, <3>1, IxPrefix
    <3>3. es[(c - 1) + 1].off = MediaEnd(c - 1)
      BY <2>4, <3>1
    <3>4. MediaEnd(c - 1) < Len(file)
      BY <2>3, <3>1
    <3>5. MediaEnd(c - 1) \in Nat
      <4>1. c - 1 \in Nat
        BY <3>1
      <4> QED
        BY <4>1, Ends
    <3>6. MediaEnd(c - 1) <= Len(file)
      BY <1>3, <3>4, <3>5
    <3>7. c - 1 <= n
      BY <3>1, <3>6 DEF Within
    <3>8. c - 1 \in 0..n
      BY <3>1, <3>7
    <3> QED
      BY <2>7, <2>9, <3>2, <3>3, <3>8
  <2> QED
    BY <2>8, <2>9
<1> QED
  BY <1>4, <1>5, <1>6

LEMMA EnsureByScan ==
  ASSUME NEW file \in Seq(Cells), NEW n \in Nat, HoldsJust(file, n),
         NEW sc, sc.batches \in Seq(BatchType),
         NEW m, Covers(sc.batches, m), Within(file, n, m), ~IndexInFooter(file)
  PROVE  EnsureIndex(file, sc) = [index |-> Ix(n), upto |-> MediaEnd(n)]
<1>1. PICK r \in 0..n : FromSidecar(file, sc) = [index |-> Ix(r), upto |-> MediaEnd(r)]
  BY FromSidecarIs
<1>2. /\ ScanCount(file, MediaEnd(r)) = n - r
      /\ Scan(file, MediaEnd(r)) =
           [j \in 1..(n - r) |-> Entry(MediaEnd(r + j - 1), r + j)]
  BY ScanFinds
<1>3. EnsureIndex(file, sc) =
        [index |-> Ix(r) \o Scan(file, MediaEnd(r)),
         upto  |-> MediaEnd(r) + BlkLen * ScanCount(file, MediaEnd(r))]
  BY <1>1 DEF EnsureIndex
<1>4. r \in Nat /\ r <= n /\ n - r \in Nat /\ r + (n - r) = n
  OBVIOUS
<1>5. Ix(r) \o Scan(file, MediaEnd(r)) = Ix(n)
  <2>1. Scan(file, MediaEnd(r)) = Batch(r, n).entries
    BY <1>2 DEF Batch
  <2> QED
    BY <1>4, <2>1, BatchEntries
<1>6. MediaEnd(r) + BlkLen * (n - r) = MediaEnd(n)
  <2>1. MediaEnd(r) + (n - r) * BlkLen = MediaEnd(r + (n - r))
    BY <1>4, Ends
  <2>2. BlkLen * (n - r) = (n - r) * BlkLen
    BY <1>4, RecordingFileAssumption
  <2> QED
    BY <1>4, <2>1, <2>2
<1> QED
  BY <1>2, <1>3, <1>5, <1>6

LEMMA EnsureByFooter ==
  ASSUME NEW file \in Seq(Cells), NEW n \in Nat, NEW a \in Nat,
         Laid(file, n, a, FtrLen, TRUE), NEW sc
  PROVE  /\ IndexInFooter(file)
         /\ EnsureIndex(file, sc) = [index |-> Ix(n), upto |-> MediaEnd(n)]
<1>1. /\ MediaEnd(n) \in Nat /\ MediaEnd(n) >= 1
      /\ FtrLen \in Nat /\ FtrLen >= 1 /\ IdxLen(n) = n + 1
  BY Lengths
<1>2. a = IdxLen(n) /\ n >= 1 /\ Len(file) = MediaEnd(n) + a + FtrLen
  BY DEF Laid
<1>3. HasFooter(file) /\ FooterOf(file) = FtrOf(n, TRUE)
  BY <1>1, LaidHolds
<1>4. FooterOf(file).ioff = MediaEnd(n) /\ FooterOf(file).count = n
  BY <1>1, <1>3 DEF FtrOf, Footer
<1>5. \A p \in 1..(n + 1) : file[MediaEnd(n) + p] = Cell("VIDX", Ix(n), p)
  BY <1>1, <1>2 DEF Laid
<1>6. /\ file[MediaEnd(n) + 1].k = "VIDX" /\ file[MediaEnd(n) + 1].of = Ix(n)
      /\ \A p \in 1..(n + 1) :
           file[MediaEnd(n) + p].k = "VIDX" /\ file[MediaEnd(n) + p].part = p
  <2>1. ASSUME NEW p \in 1..(n + 1)
        PROVE  /\ file[MediaEnd(n) + p].k = "VIDX" /\ file[MediaEnd(n) + p].part = p
               /\ file[MediaEnd(n) + p].of = Ix(n)
    <3>1. file[MediaEnd(n) + p] = Cell("VIDX", Ix(n), p)
      BY <1>5
    <3> QED
      BY <3>1 DEF Cell
  <2>2. 1 \in 1..(n + 1)
    OBVIOUS
  <2>3. file[MediaEnd(n) + 1].k = "VIDX" /\ file[MediaEnd(n) + 1].of = Ix(n)
    BY <2>1, <2>2
  <2> QED
    BY <2>1, <2>3
<1>7. Len(Ix(n)) = n
  BY IxType
<1>8. /\ MediaEnd(n) + 1 <= Len(file) /\ MediaEnd(n) + IdxLen(n) <= Len(file)
      /\ MediaEnd(n) # 0 /\ n # 0
  BY <1>1, <1>2
<1>9. IndexInFooter(file)
  <2> DEFINE at == FooterOf(file).ioff
             ix == file[at + 1].of
  <2>1. at = MediaEnd(n) /\ ix = Ix(n) /\ Len(ix) = n /\ FooterOf(file).count = n
        /\ IdxLen(Len(ix)) = n + 1
    BY <1>1, <1>4, <1>6, <1>7
  <2>2. /\ HasFooter(file) /\ at # 0 /\ FooterOf(file).count # 0
        /\ at + 1 <= Len(file) /\ file[at + 1].k = "VIDX"
        /\ Len(ix) = FooterOf(file).count
        /\ at + IdxLen(Len(ix)) <= Len(file)
        /\ \A p \in 1..IdxLen(Len(ix)) : file[at + p].k = "VIDX" /\ file[at + p].part = p
    <3> HIDE DEF at, ix
    <3> QED
      BY <1>1, <1>3, <1>6, <1>8, <2>1
  <2> QED
    BY <2>2 DEF IndexInFooter, IndexChunk
<1> QED
  BY <1>4, <1>6, <1>9 DEF EnsureIndex

LEMMA NoIndexInFooter ==
  ASSUME NEW file \in Seq(Cells), NEW n \in Nat, NEW a \in Nat, NEW b \in Nat,
         NEW x \in BOOLEAN, Laid(file, n, a, b, x), ~(b = FtrLen /\ x)
  PROVE  ~IndexInFooter(file)
<1>1. CASE b # FtrLen
  BY <1>1, LaidHolds DEF IndexInFooter, IndexChunk
<1>2. CASE b = FtrLen /\ x = FALSE
  <2>1. FooterOf(file) = FtrOf(n, FALSE)
    BY <1>2, LaidHolds
  <2>2. FooterOf(file).ioff = 0
    BY <2>1 DEF FtrOf, Footer
  <2> QED
    BY <2>2 DEF IndexInFooter, IndexChunk
<1> QED
  BY <1>1, <1>2

LEMMA BlocksAre ==
  ASSUME NEW file \in Seq(Cells), NEW n \in Nat, HoldsJust(file, n), HasHeader(file)
  PROVE  Blocks(file) = Ix(n)
<1>1. 0 \in 0..n /\ n - 0 = n /\ MediaEnd(0) = HdrLen
  BY Ends
<1>2. Scan(file, HdrLen) = [j \in 1..n |-> Entry(MediaEnd(0 + j - 1), 0 + j)]
  BY <1>1, ScanFinds
<1>3. \A j \in 1..n : 0 + j - 1 = j - 1 /\ 0 + j = j
  OBVIOUS
<1> QED
  BY <1>2, <1>3 DEF Blocks, Ix

LEMMA NothingIsThere ==
  ASSUME NEW sc, sc.batches \in Seq(BatchType), NEW m, Covers(sc.batches, m)
  PROVE  /\ ~HasHeader(<<>>) /\ ~HasFooter(<<>>) /\ Blocks(<<>>) = <<>>
         /\ EnsureIndex(<<>>, sc).index = <<>>
<1> DEFINE none == [index |-> <<>>, upto |-> HdrLen]
           es == Entries(sc.batches)
           valid == Last(sc.batches).valid
           S == {j \in 1..Len(es) : es[j].off < Len(<<>>)}
<1>1. ~HasHeader(<<>>) /\ ~HasFooter(<<>>)
  BY RecordingFileAssumption DEF HasHeader, HeaderWhole, HdrLen, HasFooter
<1>2. m \in Nat /\ es = Ix(m) /\ Len(es) = m
  <2>1. Len(sc.batches) \in Nat
    OBVIOUS
  <2>2. m \in Nat /\ es = Ix(m)
    BY <2>1, EntriesAre
  <2> QED
    BY <2>2, IxType
<1>3. S = {}
  <2> SUFFICES ASSUME NEW j \in 1..m
               PROVE  ~(Ix(m)[j].off < 0)
    BY <1>2
  <2>1. j - 1 \in Nat
    BY <1>2
  <2>2. Ix(m)[j] = Entry(MediaEnd(j - 1), j) /\ MediaEnd(j - 1) \in Nat
    BY <1>2, <2>1, IxType, Ends
  <2>3. Ix(m)[j].off = MediaEnd(j - 1)
    BY <2>2 DEF Entry
  <2> QED
    BY <2>2, <2>3
<1>4. Cardinality(S) = 0
  BY <1>3, FS_EmptySet
<1>5. FromSidecar(<<>>, sc) = none
  <2>1. CASE \/ ~sc.exists \/ sc.batches = <<>> \/ valid <= HdrLen
    BY <2>1 DEF FromSidecar
  <2>2. CASE ~(\/ ~sc.exists \/ sc.batches = <<>> \/ valid <= HdrLen)
    <3>1. valid = MediaEnd(m) /\ MediaEnd(m) \in Nat /\ MediaEnd(m) >= 1
      BY <1>2, <2>2, CoversSome, Ends
    <3>2. ~(valid <= Len(<<>>))
      BY <3>1
    <3>3. Cardinality(S) - 1 <= 0
      BY <1>4
    <3> QED
      BY <2>2, <3>2, <3>3 DEF FromSidecar
  <2> QED
    BY <2>1, <2>2
<1>6. ScanCount(<<>>, HdrLen) = 0
  <2>1. ScanCount(<<>>, HdrLen) \in 0..Len(<<>>)
    <3>1. \E n \in 0..Len(<<>>) :
            /\ \A j \in 0..(n - 1) : BlockAt(<<>>, HdrLen + j * BlkLen)
            /\ ~BlockAt(<<>>, HdrLen + n * BlkLen)
      <4>1. 0 \in 0..Len(<<>>) /\ 0..(0 - 1) = {}
        OBVIOUS
      <4>2. ~BlockAt(<<>>, HdrLen + 0 * BlkLen)
        BY RecordingFileAssumption DEF BlockAt, BlockHead, HdrLen
      <4> QED
        BY <4>1, <4>2
    <3> QED
      BY <3>1 DEF ScanCount
  <2> QED
    BY <2>1
<1>7. Scan(<<>>, HdrLen) = <<>>
  BY <1>6 DEF Scan, BlockMeta
<1>8. EnsureIndex(<<>>, sc).index = <<>>
  BY <1>1, <1>5, <1>7 DEF EnsureIndex, IndexInFooter, IndexChunk
<1> QED
  BY <1>1, <1>8 DEF Blocks

-----------------------------------------------------------------------------
(* What a write, a truncation and a power loss make of a file *)

LEMMA MediaGrows ==
  ASSUME NEW i \in Nat, NEW j \in Nat, i <= j
  PROVE  MediaEnd(i) <= MediaEnd(j)
<1>1. MediaEnd(i) \in Nat
  BY Ends
<1>2. MediaEnd(j) \in Nat
  BY Ends
<1>3. CASE i = j
  BY <1>2, <1>3
<1>4. CASE i < j
  <2>1. MediaEnd(i) + BlkLen <= MediaEnd(j)
    BY <1>4, Ends
  <2> QED
    BY <1>1, <1>2, <2>1, RecordingFileAssumption
<1> QED
  BY <1>3, <1>4

\* The file, and c cells of a chunk.
Grown(old, new, c, k, of) ==
  /\ new \in Seq(Cells)
  /\ Len(new) = Len(old) + c
  /\ \A i \in 1..Len(old) : new[i] = old[i]
  /\ \A p \in 1..c : new[Len(old) + p] = Cell(k, of, p)

LEMMA Prefix ==
  ASSUME NEW file \in Seq(Cells), NEW l \in 0..Len(file)
  PROVE  /\ SubSeq(file, 1, l) \in Seq(Cells) /\ Len(SubSeq(file, 1, l)) = l
         /\ \A i \in 1..l : SubSeq(file, 1, l)[i] = file[i]
<1>1. \A i \in 1..l : file[i] \in Cells
  OBVIOUS
<1>2. l \in Nat
  OBVIOUS
<1> QED
  BY <1>1, <1>2, SubSeqProperties

LEMMA Writes ==
  ASSUME NEW old \in Seq(Cells), NEW k \in {"BLK", "VIDX", "VEOF"},
         NEW of \in Nat \cup Seq(EntryType) \cup FooterType, NEW len \in Nat,
         NEW chunk, chunk = [p \in 1..len |-> Cell(k, of, p)]
  PROVE  /\ Grown(old, old \o chunk, len, k, of)
         /\ \A part \in Torn(chunk) :
              \E c \in 0..(len - 1) : Grown(old, old \o part, c, k, of)
<1>1. \A p \in 1..len : chunk[p] = Cell(k, of, p) /\ chunk[p] \in Cells
  BY DEF Cell, Cells
<1>2. chunk \in Seq(Cells) /\ Len(chunk) = len
  BY <1>1
<1>3. ASSUME NEW c \in 0..len, NEW part \in Seq(Cells), Len(part) = c,
             \A p \in 1..c : part[p] = chunk[p]
      PROVE  Grown(old, old \o part, c, k, of)
  <2>1. /\ old \o part \in Seq(Cells) /\ Len(old \o part) = Len(old) + c
        /\ \A i \in 1..(Len(old) + c) :
             (old \o part)[i] = IF i <= Len(old) THEN old[i] ELSE part[i - Len(old)]
    BY <1>3, ConcatProperties
  <2>2. Len(old) \in Nat /\ c \in Nat
    OBVIOUS
  <2>3. ASSUME NEW p \in 1..c PROVE (old \o part)[Len(old) + p] = Cell(k, of, p)
    <3>1. Len(old) + p \in 1..(Len(old) + c) /\ ~(Len(old) + p <= Len(old))
          /\ (Len(old) + p) - Len(old) = p /\ p \in 1..len
      BY <2>2
    <3> QED
      BY <1>1, <1>3, <2>1, <3>1
  <2>4. ASSUME NEW i \in 1..Len(old) PROVE (old \o part)[i] = old[i]
    <3>1. i \in 1..(Len(old) + c) /\ i <= Len(old)
      BY <2>2
    <3> QED
      BY <2>1, <3>1
  <2> QED
    BY <2>1, <2>3, <2>4 DEF Grown
<1>4. Grown(old, old \o chunk, len, k, of)
  <2>1. len \in 0..len
    OBVIOUS
  <2> QED
    BY <1>2, <1>3, <2>1
<1>5. ASSUME NEW part \in Torn(chunk)
      PROVE  \E c \in 0..(len - 1) : Grown(old, old \o part, c, k, of)
  <2>1. PICK c \in 0..(len - 1) : part = SubSeq(chunk, 1, c)
    BY <1>2 DEF Torn
  <2>2. /\ SubSeq(chunk, 1, c) \in Seq(Cells) /\ Len(SubSeq(chunk, 1, c)) = c
        /\ \A p \in 1..c : SubSeq(chunk, 1, c)[p] = chunk[p]
    <3>1. c \in 0..Len(chunk)
      BY <1>2
    <3> QED
      BY <1>2, <3>1, Prefix
  <2>3. c \in 0..len
    OBVIOUS
  <2> QED
    BY <1>3, <2>1, <2>2, <2>3
<1> QED
  BY <1>4, <1>5

LEMMA WritesPart ==
  ASSUME NEW old \in Seq(Cells), NEW k \in {"BLK", "VIDX", "VEOF"},
         NEW of \in Nat \cup Seq(EntryType) \cup FooterType, NEW len \in Nat,
         NEW chunk, chunk = [p \in 1..len |-> Cell(k, of, p)],
         NEW part \in Torn(chunk)
  PROVE  \E c \in 0..(len - 1) : Grown(old, old \o part, c, k, of)
<1>1. \A t \in Torn(chunk) :
        \E c \in 0..(len - 1) : Grown(old, old \o t, c, k, of)
  BY Writes
<1> QED
  BY <1>1

LEMMA WritesFooter ==
  ASSUME NEW old \in Seq(Cells), NEW f \in FooterType
  PROVE  /\ Grown(old, old \o FooterCells(f), FtrLen, "VEOF", f)
         /\ \A part \in Torn(FooterCells(f)) :
              \E c \in 0..(FtrLen - 1) : Grown(old, old \o part, c, "VEOF", f)
<1>1. PICK k, of, len, chunk :
        /\ k = "VEOF" /\ of = f /\ len = FtrLen /\ chunk = FooterCells(f)
        /\ k \in {"BLK", "VIDX", "VEOF"} /\ len \in Nat
        /\ of \in Nat \cup Seq(EntryType) \cup FooterType
  BY RecordingFileAssumption
<1>2. chunk = [p \in 1..len |-> Cell(k, of, p)]
  BY <1>1 DEF FooterCells
<1>3. Grown(old, old \o chunk, len, k, of)
  BY <1>1, <1>2, Writes, Zenon
<1>4. ASSUME NEW part \in Torn(chunk)
      PROVE  \E c \in 0..(len - 1) : Grown(old, old \o part, c, k, of)
  BY <1>1, <1>2, WritesPart, Zenon
<1> QED
  BY <1>1, <1>3, <1>4

LEMMA WritesIndex ==
  ASSUME NEW old \in Seq(Cells), NEW n \in Nat
  PROVE  /\ Grown(old, old \o IndexCells(Ix(n)), n + 1, "VIDX", Ix(n))
         /\ \A part \in Torn(IndexCells(Ix(n))) :
              \E c \in 0..n : Grown(old, old \o part, c, "VIDX", Ix(n))
<1>0. Ix(n) \in Seq(EntryType) /\ Len(Ix(n)) = n
  BY IxType
<1>1. PICK k, of, len, chunk :
        /\ k = "VIDX" /\ of = Ix(n) /\ len = n + 1 /\ chunk = IndexCells(Ix(n))
        /\ k \in {"BLK", "VIDX", "VEOF"} /\ len \in Nat
        /\ of \in Nat \cup Seq(EntryType) \cup FooterType
  BY <1>0
<1>2. chunk = [p \in 1..len |-> Cell(k, of, p)]
  BY <1>0, <1>1 DEF IndexCells, IdxLen
<1>3. Grown(old, old \o chunk, len, k, of)
  BY <1>1, <1>2, Writes, Zenon
<1>4. ASSUME NEW part \in Torn(chunk)
      PROVE  \E c \in 0..(len - 1) : Grown(old, old \o part, c, k, of)
  BY <1>1, <1>2, WritesPart, Zenon
<1>5. len - 1 = n
  BY <1>1
<1> QED
  BY <1>1, <1>3, <1>4, <1>5

LEMMA HoldsOn ==
  ASSUME NEW old, NEW new, NEW n \in Nat, NEW v \in 0..n, Holds(old, n),
         Len(new) \in Nat, MediaEnd(v) <= Len(new),
         \A i \in 1..MediaEnd(v) : new[i] = old[i]
  PROVE  Holds(new, v)
<1>1. v \in Nat /\ MediaEnd(v) \in Nat /\ MediaEnd(v) >= 1
      /\ BlkLen \in Nat /\ BlkLen >= 1
  <2>1. v \in Nat
    OBVIOUS
  <2> QED
    BY <2>1, Lengths
<1>2. new[1] = old[1]
  BY <1>1
<1>3. ASSUME NEW j \in 1..v, NEW p \in 1..BlkLen
      PROVE  new[MediaEnd(j - 1) + p] = Cell("BLK", j, p)
  <2>1. j - 1 \in Nat /\ j \in Nat /\ (j - 1) + 1 = j /\ j <= v /\ j \in 1..n
    BY <1>1
  <2>2. MediaEnd((j - 1) + 1) = MediaEnd(j - 1) + BlkLen /\ MediaEnd(j - 1) \in Nat
    BY <2>1, Ends
  <2>3. MediaEnd(j) <= MediaEnd(v)
    BY <1>1, <2>1, MediaGrows
  <2>4. MediaEnd(j) = MediaEnd(j - 1) + BlkLen
    BY <2>1, <2>2
  <2>5. MediaEnd(j - 1) + p \in 1..MediaEnd(v)
    BY <1>1, <2>2, <2>3, <2>4
  <2>6. old[MediaEnd(j - 1) + p] = Cell("BLK", j, p)
    BY <2>1 DEF Holds
  <2> QED
    BY <2>5, <2>6
<1> QED
  BY <1>2, <1>3 DEF Holds

LEMMA GrownHolds ==
  ASSUME NEW old \in Seq(Cells), NEW new, NEW n \in Nat, NEW c \in Nat, NEW k, NEW of,
         Holds(old, n), Grown(old, new, c, k, of)
  PROVE  Holds(new, n) /\ new \in Seq(Cells)
<1>1. n \in 0..n /\ MediaEnd(n) \in Nat /\ Len(old) \in Nat /\ MediaEnd(n) <= Len(old)
  BY Ends DEF Holds
<1>2. Len(new) = Len(old) + c /\ \A i \in 1..Len(old) : new[i] = old[i]
  BY DEF Grown
<1>3. \A i \in 1..MediaEnd(n) : new[i] = old[i]
  BY <1>1, <1>2
<1>4. Len(new) \in Nat /\ MediaEnd(n) <= Len(new)
  BY <1>1, <1>2
<1> QED
  BY <1>1, <1>3, <1>4, HoldsOn DEF Grown

LEMMA GrownByBlock ==
  ASSUME NEW old \in Seq(Cells), NEW new, NEW n \in Nat, NEW c \in Nat,
         Laid(old, n, 0, 0, FALSE), Grown(old, new, c, "BLK", n + 1)
  PROVE  /\ c = BlkLen => Laid(new, n + 1, 0, 0, FALSE)
         /\ c < BlkLen => Broken(new, n)
<1>1. /\ MediaEnd(n) \in Nat /\ MediaEnd(n) >= 1 /\ BlkLen \in Nat
      /\ Len(old) = MediaEnd(n) /\ Holds(old, n)
      /\ MediaEnd(n + 1) = MediaEnd(n) + BlkLen
  BY Lengths, Ends DEF Laid
<1>2. Holds(new, n) /\ Len(new) = MediaEnd(n) + c
      /\ \A p \in 1..c : new[MediaEnd(n) + p] = Cell("BLK", n + 1, p)
  <2>1. Holds(new, n)
    BY <1>1, GrownHolds
  <2> QED
    BY <1>1, <2>1 DEF Grown
<1>3. ASSUME c = BlkLen PROVE Laid(new, n + 1, 0, 0, FALSE)
  <2>1. ASSUME NEW j \in 1..(n + 1), NEW p \in 1..BlkLen
        PROVE  new[MediaEnd(j - 1) + p] = Cell("BLK", j, p)
    <3>1. CASE j = n + 1
      <4>1. j - 1 = n
        BY <3>1
      <4> QED
        BY <1>2, <1>3, <3>1, <4>1
    <3>2. CASE j # n + 1
      <4>1. j \in 1..n
        BY <3>2
      <4> QED
        BY <1>2, <4>1 DEF Holds
    <3> QED
      BY <3>1, <3>2
  <2>2. Holds(new, n + 1)
    BY <1>1, <1>2, <1>3, <2>1 DEF Holds
  <2>3. 0 \in 0..IdxLen(n + 1) /\ 0 \in 0..FtrLen /\ Len(new) = MediaEnd(n + 1) + 0 + 0
    BY <1>1, <1>2, <1>3, RecordingFileAssumption DEF IdxLen
  <2> QED
    BY <2>2, <2>3 DEF Laid
<1>4. ASSUME c < BlkLen PROVE Broken(new, n)
  <2>1. c \in 0..(BlkLen - 1)
    BY <1>1, <1>4
  <2> QED
    BY <1>2, <2>1 DEF Broken
<1> QED
  BY <1>3, <1>4

LEMMA GrownByIndex ==
  ASSUME NEW old \in Seq(Cells), NEW new, NEW n \in Nat, NEW c \in 0..IdxLen(n),
         Laid(old, n, 0, 0, FALSE), Grown(old, new, c, "VIDX", Ix(n))
  PROVE  Laid(new, n, c, 0, FALSE)
<1>1. /\ MediaEnd(n) \in Nat /\ Len(old) = MediaEnd(n) /\ Holds(old, n)
  BY Ends DEF Laid
<1>2. c \in Nat
  BY DEF IdxLen
<1>3. Holds(new, n) /\ Len(new) = MediaEnd(n) + c + 0
      /\ \A p \in 1..c : new[MediaEnd(n) + p] = Cell("VIDX", Ix(n), p)
  <2>1. Holds(new, n)
    BY <1>1, <1>2, GrownHolds
  <2> QED
    BY <1>1, <2>1 DEF Grown
<1>4. 0 \in 0..FtrLen /\ 1..0 = {}
  BY RecordingFileAssumption
<1> QED
  BY <1>3, <1>4 DEF Laid

LEMMA GrownByFooter ==
  ASSUME NEW old \in Seq(Cells), NEW new, NEW n \in Nat, NEW a \in Nat,
         NEW c \in 0..FtrLen, NEW x \in BOOLEAN, x => a = IdxLen(n) /\ n >= 1,
         Laid(old, n, a, 0, FALSE), Grown(old, new, c, "VEOF", FtrOf(n, x))
  PROVE  Laid(new, n, a, c, x)
<1>1. MediaEnd(n) \in Nat /\ Len(old) = MediaEnd(n) + a /\ Holds(old, n)
      /\ a \in 0..IdxLen(n)
  <2>1. MediaEnd(n) \in Nat
    BY Lengths
  <2> QED
    BY <2>1 DEF Laid
<1>2. c \in Nat
  BY RecordingFileAssumption
<1>3. Holds(new, n) /\ Len(new) = MediaEnd(n) + a + c
      /\ \A p \in 1..c : new[MediaEnd(n) + a + p] = Cell("VEOF", FtrOf(n, x), p)
  <2>1. Holds(new, n)
    BY <1>1, <1>2, GrownHolds
  <2> QED
    BY <1>1, <2>1 DEF Grown
<1>4. ASSUME NEW p \in 1..a
      PROVE  new[MediaEnd(n) + p] = Cell("VIDX", Ix(n), p)
  <2>1. MediaEnd(n) + p \in 1..Len(old)
    BY <1>1
  <2>2. old[MediaEnd(n) + p] = Cell("VIDX", Ix(n), p)
    BY DEF Laid
  <2> QED
    BY <2>1, <2>2 DEF Grown
<1> QED
  BY <1>1, <1>3, <1>4 DEF Laid

LEMMA ShapedHolds ==
  ASSUME NEW file \in Seq(Cells), NEW n \in Nat, Shaped(file, n), file # <<>>
  PROVE  HoldsJust(file, n) /\ HasHeader(file) /\ Holds(file, n)
BY BrokenHolds, LaidHolds DEF Shaped, LaidSomehow, HoldsJust

LEMMA Truncates ==
  ASSUME NEW file \in Seq(Cells), NEW n \in Nat, Holds(file, n)
  PROVE  /\ SubSeq(file, 1, MediaEnd(n)) \in Seq(Cells)
         /\ Laid(SubSeq(file, 1, MediaEnd(n)), n, 0, 0, FALSE)
<1>1. MediaEnd(n) \in 0..Len(file) /\ MediaEnd(n) \in Nat /\ n \in 0..n
  <2>1. MediaEnd(n) \in Nat
    BY Lengths
  <2> QED
    BY <2>1 DEF Holds
<1> DEFINE new == SubSeq(file, 1, MediaEnd(n))
<1>2. /\ new \in Seq(Cells) /\ Len(new) = MediaEnd(n)
      /\ \A i \in 1..MediaEnd(n) : new[i] = file[i]
  BY <1>1, Prefix
<1>3. Holds(new, n)
  <2> HIDE DEF new
  <2>1. Len(new) \in Nat /\ MediaEnd(n) <= Len(new)
    BY <1>1, <1>2
  <2> QED
    BY <1>1, <1>2, <2>1, HoldsOn
<1>4. 0 \in 0..IdxLen(n) /\ 0 \in 0..FtrLen /\ 1..0 = {} /\ Len(new) = MediaEnd(n) + 0 + 0
  BY <1>1, <1>2, RecordingFileAssumption DEF IdxLen
<1> QED
  BY <1>2, <1>3, <1>4 DEF Laid

\* A power loss inside the media: the last block is torn, the others stay.
LEMMA CutInMedia ==
  ASSUME NEW file \in Seq(Cells), NEW n \in Nat, Holds(file, n),
         NEW l \in 1..Len(file), l < MediaEnd(n)
  PROVE  \E v \in 0..n : /\ Broken(SubSeq(file, 1, l), v)
                         /\ \A m \in 0..n : Within(SubSeq(file, 1, l), v, m)
<1> DEFINE new == SubSeq(file, 1, l)
           T == {v \in Nat : l < MediaEnd(v)}
<1>1. PICK u \in T : \A v \in T : u <= v
  <2>1. n \in T /\ T \subseteq Nat
    OBVIOUS
  <2> HIDE DEF T
  <2> QED
    BY <2>1, Least
<1>2. u \in Nat /\ l < MediaEnd(u)
  OBVIOUS
<1>3. u # 0
  <2>1. MediaEnd(0) = 1
    BY Ends
  <2> QED
    BY <1>2, <2>1
<1>4. u <= n
  <2>1. n \in T
    OBVIOUS
  <2> QED
    BY <1>1, <2>1
<1>5. u - 1 \in Nat /\ (u - 1) + 1 = u /\ u - 1 \in 0..n /\ u \in 1..n
  BY <1>2, <1>3, <1>4
<1> DEFINE v == u - 1
           c == l - MediaEnd(v)
<1>6. MediaEnd(v) \in Nat
  BY <1>5, Lengths
<1>7. MediaEnd(u) = MediaEnd(v) + BlkLen
  <2>1. MediaEnd((u - 1) + 1) = MediaEnd(u - 1) + BlkLen
    BY <1>5, Ends
  <2> QED
    BY <1>5, <2>1
<1>8. MediaEnd(v) <= l
  <2>1. v \notin T
    <3>1. ~(u <= v)
      BY <1>2
    <3> QED
      BY <1>1, <3>1
  <2>2. ~(l < MediaEnd(v))
    BY <1>5, <2>1
  <2> QED
    BY <1>6, <2>2
<1>9. c \in 0..(BlkLen - 1) /\ l = MediaEnd(v) + c
  BY <1>2, <1>6, <1>7, <1>8, RecordingFileAssumption
<1>10. /\ new \in Seq(Cells) /\ Len(new) = l
       /\ \A i \in 1..l : new[i] = file[i]
  <2>1. l \in 0..Len(file)
    OBVIOUS
  <2> QED
    BY <2>1, Prefix
<1>11. Holds(new, v)
  <2>1. \A i \in 1..MediaEnd(v) : new[i] = file[i]
    BY <1>6, <1>8, <1>10
  <2>2. Len(new) \in Nat /\ MediaEnd(v) <= Len(new)
    BY <1>8, <1>10
  <2> HIDE DEF new, v
  <2> QED
    BY <1>5, <2>1, <2>2, HoldsOn DEF v
<1>12. ASSUME NEW p \in 1..c
       PROVE  new[MediaEnd(v) + p] = Cell("BLK", v + 1, p)
  <2>1. p \in 1..BlkLen /\ MediaEnd(v) + p \in 1..l
    <3> HIDE DEF c, v
    <3> QED
      BY <1>6, <1>9, RecordingFileAssumption
  <2>2. file[MediaEnd(u - 1) + p] = Cell("BLK", u, p)
    BY <1>5, <2>1 DEF Holds
  <2> QED
    BY <1>5, <1>10, <2>1, <2>2
<1>13. Broken(new, v)
  <2> HIDE DEF new, v, c
  <2> QED
    BY <1>9, <1>10, <1>11, <1>12 DEF Broken
<1>14. ASSUME NEW m \in 0..n, NEW y \in 0..m, MediaEnd(y) <= Len(new)
       PROVE  y <= v
  <2>1. y \in Nat /\ MediaEnd(y) <= l
    BY <1>10, <1>14
  <2>2. y \notin T
    <3>1. MediaEnd(y) \in Nat
      BY <2>1, Lengths
    <3>2. ~(l < MediaEnd(y))
      BY <2>1, <3>1
    <3> QED
      BY <3>2
  <2>3. ASSUME u <= y PROVE FALSE
    <3>1. MediaEnd(u) <= MediaEnd(y)
      BY <1>2, <2>1, <2>3, MediaGrows
    <3>2. MediaEnd(u) \in Nat
      BY <1>2, Lengths
    <3>3. MediaEnd(y) \in Nat
      BY <2>1, Lengths
    <3> QED
      BY <1>2, <2>1, <3>1, <3>2, <3>3
  <2> QED
    BY <1>2, <2>1, <2>3
<1>15. \A m \in 0..n : Within(new, v, m)
  <2> HIDE DEF new, v
  <2> QED
    BY <1>14 DEF Within
<1> QED
  BY <1>5, <1>13, <1>15

\* A power loss past the media takes some of the index or the footer.
LEMMA CutPastMedia ==
  ASSUME NEW file \in Seq(Cells), NEW n \in Nat, Shaped(file, n), file # <<>>,
         NEW l \in 0..Len(file), MediaEnd(n) <= l
  PROVE  /\ Shaped(SubSeq(file, 1, l), n)
         /\ HasFooter(SubSeq(file, 1, l)) => SubSeq(file, 1, l) = file
<1> DEFINE new == SubSeq(file, 1, l)
<1>1. MediaEnd(n) \in Nat /\ l \in Nat /\ n \in 0..n /\ Len(file) \in Nat
  <2>1. MediaEnd(n) \in Nat
    BY Lengths
  <2> QED
    BY <2>1
<1>2. /\ new \in Seq(Cells) /\ Len(new) = l
      /\ \A i \in 1..l : new[i] = file[i]
  BY Prefix
<1>3. Holds(new, n)
  <2>1. Holds(file, n)
    BY ShapedHolds
  <2>2. Len(new) \in Nat /\ MediaEnd(n) <= Len(new)
        /\ \A i \in 1..MediaEnd(n) : new[i] = file[i]
    BY <1>1, <1>2
  <2> HIDE DEF new
  <2> QED
    BY <1>1, <2>1, <2>2, HoldsOn
<1>4. CASE Broken(file, n)
  <2>1. PICK c \in 0..(BlkLen - 1) :
          /\ Len(file) = MediaEnd(n) + c
          /\ \A p \in 1..c : file[MediaEnd(n) + p] = Cell("BLK", n + 1, p)
    BY <1>4 DEF Broken
  <2>2. l - MediaEnd(n) \in 0..(BlkLen - 1) /\ Len(new) = MediaEnd(n) + (l - MediaEnd(n))
        /\ \A p \in 1..(l - MediaEnd(n)) : p \in 1..c /\ MediaEnd(n) + p \in 1..l
    BY <1>1, <1>2, <2>1, RecordingFileAssumption
  <2>3. \A p \in 1..(l - MediaEnd(n)) : new[MediaEnd(n) + p] = Cell("BLK", n + 1, p)
    BY <1>2, <2>1, <2>2
  <2>4. Broken(new, n)
    <3> HIDE DEF new
    <3> QED
      BY <1>3, <2>2, <2>3 DEF Broken
  <2>5. ~HasFooter(new)
    <3> HIDE DEF new
    <3> QED
      BY <1>2, <2>4, BrokenHolds
  <2> QED
    BY <2>4, <2>5 DEF Shaped
<1>5. CASE LaidSomehow(file, n)
  <2>1. PICK a \in Nat, b \in Nat, x \in BOOLEAN : Laid(file, n, a, b, x)
    BY <1>5 DEF LaidSomehow
  <2>2. /\ a \in 0..IdxLen(n) /\ b \in 0..FtrLen
        /\ Len(file) = MediaEnd(n) + a + b
        /\ \A p \in 1..a : file[MediaEnd(n) + p] = Cell("VIDX", Ix(n), p)
        /\ \A p \in 1..b : file[MediaEnd(n) + a + p] = Cell("VEOF", FtrOf(n, x), p)
        /\ x => a = IdxLen(n) /\ n >= 1
    BY <2>1 DEF Laid
  <2>3. FtrLen \in Nat /\ FtrLen >= 1 /\ IdxLen(n) = n + 1
    BY Lengths
  <2>4. CASE l <= MediaEnd(n) + a
    <3> DEFINE c == l - MediaEnd(n)
    <3>1. c \in 0..IdxLen(n) /\ c \in Nat /\ 0 \in 0..FtrLen /\ 1..0 = {}
          /\ Len(new) = MediaEnd(n) + c + 0
          /\ \A p \in 1..c : p \in 1..a /\ MediaEnd(n) + p \in 1..l
      BY <1>1, <1>2, <2>2, <2>3, <2>4
    <3>2. \A p \in 1..c : new[MediaEnd(n) + p] = Cell("VIDX", Ix(n), p)
      BY <1>2, <2>2, <3>1
    <3>3. Laid(new, n, c, 0, FALSE)
      <4> HIDE DEF new, c
      <4> QED
        BY <1>3, <3>1, <3>2 DEF Laid
    <3>4. ~HasFooter(new)
      <4>1. new \in Seq(Cells) /\ c \in Nat
        BY <1>2, <3>1
      <4> HIDE DEF new, c
      <4> QED
        BY <3>3, <4>1, NoFooterYet
    <3>5. LaidSomehow(new, n)
      <4> HIDE DEF new, c
      <4> QED
        BY <3>1, <3>3 DEF LaidSomehow
    <3> QED
      BY <3>4, <3>5 DEF Shaped
  <2>5. CASE ~(l <= MediaEnd(n) + a)
    <3> DEFINE c == l - (MediaEnd(n) + a)
    <3>1. c \in 0..FtrLen /\ c \in Nat /\ Len(new) = MediaEnd(n) + a + c /\ c <= b
          /\ \A p \in 1..c : p \in 1..b /\ MediaEnd(n) + a + p \in 1..l
      BY SMTT(30), <1>1, <1>2, <2>2, <2>3, <2>5
    <3>2. \A p \in 1..a : MediaEnd(n) + p \in 1..l
      BY <1>1, <2>5
    <3>3. \A p \in 1..a : new[MediaEnd(n) + p] = Cell("VIDX", Ix(n), p)
      BY <1>2, <2>2, <3>2
    <3>4. \A p \in 1..c : new[MediaEnd(n) + a + p] = Cell("VEOF", FtrOf(n, x), p)
      BY <1>2, <2>2, <3>1
    <3>5. Laid(new, n, a, c, x)
      <4> HIDE DEF new, c
      <4> QED
        BY <1>3, <2>2, <3>1, <3>3, <3>4 DEF Laid
    <3>6. ASSUME HasFooter(new) PROVE new = file
      <4>1. c = FtrLen
        <5> HIDE DEF new, c
        <5> QED
          BY <1>2, <3>1, <3>5, <3>6, LaidHolds
      <4>2. l = Len(file)
        BY <1>1, <2>2, <2>3, <3>1, <4>1
      <4> QED
        BY <4>2, SubSeqFull
    <3>7. LaidSomehow(new, n)
      <4> HIDE DEF new, c
      <4> QED
        BY <3>1, <3>5 DEF LaidSomehow
    <3> QED
      BY <3>6, <3>7 DEF Shaped
  <2> QED
    BY <2>4, <2>5
<1> QED
  BY <1>4, <1>5 DEF Shaped

LEMMA PowerCut ==
  ASSUME NEW file \in Seq(Cells), NEW n \in Nat, Shaped(file, n),
         NEW l \in 0..Len(file)
  PROVE  /\ SubSeq(file, 1, l) \in Seq(Cells)
         /\ HasFooter(SubSeq(file, 1, l)) => SubSeq(file, 1, l) = file
         /\ \E v \in 0..n : /\ Shaped(SubSeq(file, 1, l), v)
                            /\ \A m \in 0..n : Within(SubSeq(file, 1, l), v, m)
<1> DEFINE new == SubSeq(file, 1, l)
<1>1. new \in Seq(Cells) /\ Len(new) = l
  BY Prefix
<1>2. CASE l = 0
  <2>1. new = <<>> /\ 0 \in 0..n
    BY <1>1, <1>2, EmptySeq
  <2>2. \A v \in Nat : ~(MediaEnd(v) <= Len(<<>>))
    <3> SUFFICES ASSUME NEW v \in Nat
                 PROVE  ~(MediaEnd(v) <= 0)
      OBVIOUS
    <3>1. MediaEnd(v) \in Nat /\ MediaEnd(v) >= 1
      BY Lengths
    <3> QED
      BY <3>1
  <2>3. \A m \in 0..n : Within(<<>>, 0, m)
    BY <2>2 DEF Within
  <2>4. Shaped(<<>>, 0)
    BY DEF Shaped
  <2>5. ~HasFooter(<<>>)
    BY RecordingFileAssumption DEF HasFooter
  <2> QED
    BY <1>1, <2>1, <2>3, <2>4, <2>5
<1>3. CASE l # 0
  <2>1. file # <<>> /\ l \in 1..Len(file)
    BY <1>3
  <2>2. Holds(file, n)
    BY <2>1, ShapedHolds
  <2>3. MediaEnd(n) \in Nat
    BY Lengths
  <2>4. CASE l < MediaEnd(n)
    <3>1. PICK v \in 0..n : Broken(new, v) /\ \A m \in 0..n : Within(new, v, m)
      BY <2>1, <2>2, <2>4, CutInMedia
    <3>2. v \in Nat
      OBVIOUS
    <3>3. ~HasFooter(new)
      <4> HIDE DEF new
      <4> QED
        BY <1>1, <3>1, <3>2, BrokenHolds
    <3>4. Shaped(new, v)
      BY <3>1 DEF Shaped
    <3> QED
      BY <1>1, <3>1, <3>3, <3>4
  <2>5. CASE MediaEnd(n) <= l
    <3>1. Shaped(new, n) /\ (HasFooter(new) => new = file)
      BY <2>1, <2>5, CutPastMedia
    <3>2. n \in 0..n /\ \A m \in 0..n : Within(new, n, m)
      BY DEF Within
    <3> QED
      BY <1>1, <3>1, <3>2
  <2> QED
    BY <2>3, <2>4, <2>5
<1> QED
  BY <1>2, <1>3

\* A reader of a file so shaped, with a sidecar that is not ahead of it.
LEMMA Reads ==
  ASSUME NEW file \in Seq(Cells), NEW n \in Nat, Shaped(file, n)
  PROVE  /\ Blocks(file) = Ix(n)
         /\ HasFooter(file) =>
              /\ FooterOf(file).blocks = n
              /\ FooterOf(file).ioff # 0 => FooterOf(file).ioff = MediaEnd(n)
<1>1. CASE file = <<>> /\ n = 0
  <2>1. Blocks(<<>>) = <<>> /\ ~HasFooter(<<>>)
    BY RecordingFileAssumption DEF Blocks, HasHeader, HeaderWhole, HdrLen, HasFooter
  <2>2. Ix(0) = <<>>
    BY DEF Ix
  <2> QED
    BY <1>1, <2>1, <2>2
<1>2. CASE Broken(file, n)
  BY <1>2, BrokenHolds, BlocksAre
<1>3. CASE LaidSomehow(file, n)
  <2>1. PICK a \in Nat, b \in Nat, x \in BOOLEAN : Laid(file, n, a, b, x)
    BY <1>3 DEF LaidSomehow
  <2>2. Blocks(file) = Ix(n)
    BY <2>1, LaidHolds, BlocksAre
  <2>3. ASSUME HasFooter(file)
        PROVE  /\ FooterOf(file).blocks = n
               /\ FooterOf(file).ioff # 0 => FooterOf(file).ioff = MediaEnd(n)
    <3>1. FooterOf(file) = FtrOf(n, x)
      BY <2>1, <2>3, LaidHolds
    <3> QED
      BY <3>1 DEF FtrOf, Footer
  <2> QED
    BY <2>2, <2>3
<1> QED
  BY <1>1, <1>2, <1>3 DEF Shaped

LEMMA Ensures ==
  ASSUME NEW file \in Seq(Cells), NEW n \in Nat, Shaped(file, n),
         NEW sc, sc.batches \in Seq(BatchType),
         NEW m, Covers(sc.batches, m), Within(file, n, m)
  PROVE  /\ EnsureIndex(file, sc).index = Ix(n)
         /\ file # <<>> => EnsureIndex(file, sc).upto = MediaEnd(n)
<1>1. CASE file = <<>> /\ n = 0
  <2>1. EnsureIndex(<<>>, sc).index = <<>>
    BY NothingIsThere
  <2>2. Ix(0) = <<>>
    BY DEF Ix
  <2> QED
    BY <1>1, <2>1, <2>2
<1>2. CASE file # <<>> /\ ~IndexInFooter(file)
  <2>1. HoldsJust(file, n)
    BY <1>2, ShapedHolds
  <2>2. EnsureIndex(file, sc) = [index |-> Ix(n), upto |-> MediaEnd(n)]
    BY <1>2, <2>1, EnsureByScan
  <2> QED
    BY <2>2
<1>3. CASE file # <<>> /\ IndexInFooter(file)
  <2>1. LaidSomehow(file, n)
    <3>1. HasFooter(file)
      BY <1>3 DEF IndexInFooter, IndexChunk
    <3> QED
      BY <1>3, <3>1, BrokenHolds DEF Shaped
  <2>2. PICK a \in Nat, b \in Nat, x \in BOOLEAN : Laid(file, n, a, b, x)
    BY <2>1 DEF LaidSomehow
  <2>3. b = FtrLen /\ x = TRUE
    BY <1>3, <2>2, NoIndexInFooter
  <2>4. EnsureIndex(file, sc) = [index |-> Ix(n), upto |-> MediaEnd(n)]
    BY <2>2, <2>3, EnsureByFooter
  <2> QED
    BY <2>4
<1>4. file = <<>> => ~HasHeader(file)
  BY DEF HasHeader, HeaderWhole, HdrLen
<1>5. file = <<>> => n = 0
  <2>1. Broken(file, n) => HasHeader(file)
    BY BrokenHolds
  <2>2. LaidSomehow(file, n) => HasHeader(file)
    <3> SUFFICES ASSUME NEW a \in Nat, NEW b \in Nat, NEW x \in BOOLEAN,
                        Laid(file, n, a, b, x)
                 PROVE  HasHeader(file)
      BY DEF LaidSomehow
    <3> QED
      BY LaidHolds
  <2> QED
    BY <1>4, <2>1, <2>2 DEF Shaped
<1> QED
  BY <1>1, <1>2, <1>3, <1>5

-----------------------------------------------------------------------------
(* The inductive invariant *)

WriterType == [index : Seq(EntryType), bytes : Nat, blocks : 0..MaxBlocks,
               overflow : BOOLEAN, scOpen : BOOLEAN, written : 0..MaxBlocks]
JobType == [ioff : Nat, ftr : BOOLEAN, index : Seq(EntryType), end : Nat]
Place == {"header", "rec", "batch", "c_index", "c_footer", "c_sync",
          "c_sidecar", "closed", "dropped", "down", "r_trunc", "r_index",
          "r_footer", "r_sync", "r_delete", "ready"}

Typed ==
  /\ vms \in Seq(Cells)
  /\ synced \in 0..Len(vms)
  /\ sidecar \in [exists : BOOLEAN, batches : Seq(BatchType)]
  /\ sidecar.batches # <<>> => sidecar.exists
  /\ pc \in Place
  /\ w \in WriterType /\ Len(w.index) <= MaxIndex
  /\ w.overflow => w.index = <<>>
  /\ job \in JobType
  /\ faults \in [Fault -> Nat]

\* The writer's fields are those of n blocks, of which the sidecar holds m.
Writing(n, m) ==
  /\ w.blocks = n /\ w.bytes = MediaEnd(n)
  /\ w.written = m
  /\ ~w.overflow => w.index = Ix(n)
  /\ w.scOpen => sidecar.exists

\* What the file is, n blocks long, at each step.
At(n, m) ==
  /\ pc = "header" => vms = <<>> /\ w = NoWriter /\ n = 0
  /\ pc \in {"rec", "batch", "c_index"} =>
       Laid(vms, n, 0, 0, FALSE) /\ Writing(n, m)
  /\ pc = "c_footer" =>
       \E a \in Nat : /\ Laid(vms, n, a, 0, FALSE) /\ Writing(n, m)
                      /\ job.ioff # 0 => /\ a = IdxLen(n) /\ n >= 1 /\ ~w.overflow
                                         /\ job.ioff = MediaEnd(n)
  /\ pc \in {"c_sync", "c_sidecar"} =>
       \E a, b \in Nat : Laid(vms, n, a, b, job.ioff # 0) /\ (job.ftr => b = FtrLen)
  /\ pc = "dropped" => Broken(vms, n)
  /\ pc = "closed" => LaidSomehow(vms, n)
  /\ pc \in {"down", "ready"} => Shaped(vms, n)
  /\ pc = "r_trunc" => Shaped(vms, n) /\ vms # <<>> /\ ~HasFooter(vms)
  /\ pc = "r_index" => Laid(vms, n, 0, 0, FALSE)
  /\ pc = "r_footer" => Laid(vms, n, IdxLen(n), 0, FALSE)
  /\ pc \in {"r_sync", "r_delete"} => Laid(vms, n, IdxLen(n), FtrLen, TRUE)
  /\ Repairing => n >= 1 /\ job.index = Ix(n) /\ job.end = MediaEnd(n)
  /\ pc \in {"header", "rec", "batch", "c_index"} => job = NoJob
  /\ pc = "c_footer" => ~job.ftr
  /\ ~Repairing => job.end = 0

\* After a power loss the sidecar may hold blocks the file lost, until the
\* repair is over: none of them seems to be in the file while it matters.
Ahead(n, m) ==
  /\ faults["power"] # 0
  /\ Repairing \/ (pc = "down" /\ Within(vms, n, m))

Good(n, m) ==
  At(n, m) /\ Covers(sidecar.batches, m) /\ (m <= n \/ Ahead(n, m))

IInv == Typed /\ \E n, m \in Nat : Good(n, m)

\* What a step may do to the n blocks of a file, and to its footer.
Goes(n, v) ==
  \/ /\ faults'["power"] = faults["power"]
     /\ v = n
     /\ HasFooter(vms) => HasFooter(vms')
  \/ /\ faults'["power"] = faults["power"]
     /\ v = n + 1
     /\ ~HasFooter(vms) /\ ~HasFooter(vms')
  \/ /\ faults'["power"] = faults["power"] + 1
     /\ v <= n
     /\ HasFooter(vms') => v = n /\ HasFooter(vms)

\* The steps of the model keep the invariant.
Steps(n) == Typed' /\ \E v, m \in Nat : Good(v, m)' /\ Goes(n, v)

LEMMA HitAlone ==
  ASSUME PowerAlone, faults \in [Fault -> Nat], NEW kind \in Fault, Hit(kind)
  PROVE  /\ faults["power"] = 0 /\ faults' \in [Fault -> Nat]
         /\ kind = "power" => faults'["power"] = 1
         /\ kind # "power" => faults'["power"] = 0
<1> DEFINE more == [faults EXCEPT ![kind] = @ + 1]
<1>1. PICK s \in Scenarios : \A k \in Fault : more[k] <= s[k]
  BY DEF Hit
<1>2. s \in [Fault -> Nat] /\ "power" \in Fault
  BY RecordingFileAssumption DEF Fault
<1>3. faults' = more
  BY DEF Hit
<1>4. \A k \in Fault : faults[k] \in Nat /\ s[k] \in Nat
  BY <1>2
<1>5. faults' \in [Fault -> Nat]
  BY <1>3
<1>6. more[kind] = faults[kind] + 1 /\ \A k \in Fault : k # kind => more[k] = faults[k]
  OBVIOUS
<1>7. \/ s["power"] = 0
      \/ s["power"] = 1 /\ s["kill"] = 0 /\ s["io"] = 0 /\ s["open"] = 0
  BY DEF PowerAlone
<1>8. faults["power"] = 0
  <2>1. CASE kind = "power"
    <3>1. faults["power"] + 1 <= s["power"]
      BY <1>1, <1>2, <1>6, <2>1
    <3> QED
      BY <1>2, <1>4, <1>7, <3>1
  <2>2. CASE kind # "power"
    <3>1. faults[kind] + 1 <= s[kind] /\ faults["power"] <= s["power"]
      BY <1>1, <1>2, <1>6, <2>2
    <3>2. s[kind] # 0
      BY <1>4, <3>1
    <3>3. s["power"] = 0
      BY <1>7, <2>2, <3>2 DEF Fault
    <3> QED
      BY <1>2, <1>4, <3>1, <3>3
  <2> QED
    BY <2>1, <2>2
<1>9. kind = "power" => faults'["power"] = 1
  BY <1>3, <1>6, <1>8
<1>10. kind # "power" => faults'["power"] = 0
  BY <1>2, <1>3, <1>6, <1>8
<1> QED
  BY <1>5, <1>8, <1>9, <1>10

LEMMA AlwaysShaped ==
  ASSUME Typed, NEW n \in Nat, NEW m \in Nat, At(n, m)
  PROVE  Shaped(vms, n)
<1>1. 0 \in Nat /\ FALSE \in BOOLEAN /\ TRUE \in BOOLEAN /\ FtrLen \in Nat
      /\ IdxLen(n) \in Nat
  BY Lengths DEF IdxLen
<1>2. CASE pc \in {"header", "dropped", "closed", "down", "ready", "r_trunc"}
  BY <1>2 DEF At, Shaped
<1>3. CASE pc \in {"rec", "batch", "c_index", "r_index"}
  BY <1>1, <1>3 DEF At, Shaped, LaidSomehow
<1>4. CASE pc = "c_footer"
  BY <1>1, <1>4 DEF At, Shaped, LaidSomehow
<1>5. CASE pc \in {"c_sync", "c_sidecar"}
  <2>1. PICK a, b \in Nat : Laid(vms, n, a, b, job.ioff # 0)
    BY <1>5 DEF At
  <2>2. (job.ioff # 0) \in BOOLEAN
    OBVIOUS
  <2> QED
    BY <2>1, <2>2 DEF Shaped, LaidSomehow
<1>6. CASE pc \in {"r_footer", "r_sync", "r_delete"}
  BY <1>1, <1>6 DEF At, Shaped, LaidSomehow
<1> QED
  BY <1>2, <1>3, <1>4, <1>5, <1>6 DEF Typed, Place

\* What a reader finds, in any state of the invariant.
LEMMA Found ==
  ASSUME Typed, NEW n \in Nat, NEW m \in Nat, Good(n, m)
  PROVE  /\ Shaped(vms, n) /\ Blocks(vms) = Ix(n)
         /\ ~Repairing => EnsureIndex(vms, sidecar).index = Ix(n)
         /\ ~Repairing /\ vms # <<>> => EnsureIndex(vms, sidecar).upto = MediaEnd(n)
<1>1. Shaped(vms, n) /\ vms \in Seq(Cells) /\ sidecar.batches \in Seq(BatchType)
      /\ Covers(sidecar.batches, m)
  BY AlwaysShaped DEF Good, Typed
<1>2. ~Repairing => Within(vms, n, m)
  BY DEF Good, Ahead, Within
<1> QED
  BY <1>1, <1>2, Reads, Ensures

-----------------------------------------------------------------------------
(* The recorder's steps *)

LEMMA IxAppend ==
  ASSUME NEW n \in Nat
  PROVE  Append(Ix(n), Entry(MediaEnd(n), n + 1)) = Ix(n + 1)
<1>1. Ix(n) \in Seq(EntryType) /\ Len(Ix(n)) = n
  BY IxType
<1>2. n + 1 \in Nat /\ (n + 1) - 1 = n
  OBVIOUS
<1>3. /\ Ix(n + 1) \in Seq(EntryType) /\ Len(Ix(n + 1)) = n + 1
      /\ \A j \in 1..(n + 1) : Ix(n + 1)[j] = Entry(MediaEnd(j - 1), j)
  BY <1>2, IxType
<1>4. Entry(MediaEnd(n), n + 1) \in EntryType
  <2>1. MediaEnd(n) \in Nat
    BY Lengths
  <2> QED
    BY <2>1 DEF Entry, EntryType
<1> DEFINE a == Append(Ix(n), Entry(MediaEnd(n), n + 1))
<1>5. /\ a \in Seq(EntryType) /\ Len(a) = n + 1
      /\ \A j \in 1..n : a[j] = Ix(n)[j]
      /\ a[n + 1] = Entry(MediaEnd(n), n + 1)
  BY <1>1, <1>4, AppendProperties
<1>6. ASSUME NEW j \in 1..(n + 1)
      PROVE  a[j] = Ix(n + 1)[j]
  <2>1. CASE j = n + 1
    BY <1>2, <1>3, <1>5, <2>1
  <2>2. CASE j # n + 1
    <3>1. j \in 1..n
      BY <2>2
    <3>2. Ix(n)[j] = Entry(MediaEnd(j - 1), j)
      BY <3>1, IxType
    <3> QED
      BY <1>3, <1>5, <3>1, <3>2
  <2> QED
    BY <2>1, <2>2
<1> QED
  <2> HIDE DEF a
  <2>1. a = Ix(n + 1)
    BY <1>3, <1>5, <1>6, SeqEqual
  <2> QED
    BY <2>1 DEF a

LEMMA IxBatch ==
  ASSUME NEW n \in Nat, NEW m \in 0..n
  PROVE  [entries |-> SubSeq(Ix(n), m + 1, n), valid |-> MediaEnd(n)] = Batch(m, n)
<1> DEFINE s == SubSeq(Ix(n), m + 1, n)
           es == Batch(m, n).entries
<1>1. Ix(n) \in Seq(EntryType) /\ Len(Ix(n)) = n
      /\ \A j \in 1..n : Ix(n)[j] = Entry(MediaEnd(j - 1), j)
  BY IxType
<1>2. es = [k \in 1..(n - m) |-> Entry(MediaEnd(m + k - 1), m + k)]
  BY DEF Batch
<1>3. es \in Seq(EntryType) /\ Len(es) = n - m
  <2>1. m \in Nat /\ m <= n
    OBVIOUS
  <2> QED
    BY <2>1, BatchEntries
<1>4. s \in Seq(EntryType) /\ Len(s) = n - m
      /\ \A k \in 1..(n - m) : s[k] = Ix(n)[m + k]
  <2>1. m + 1 \in Int /\ n \in Int /\ \A i \in (m + 1)..n : i \in 1..n
    OBVIOUS
  <2>2. \A i \in (m + 1)..n : Ix(n)[i] \in EntryType
    BY <1>1, <2>1, ElementOfSeq
  <2>3. /\ s \in Seq(EntryType)
        /\ Len(s) = IF m + 1 <= n THEN n - (m + 1) + 1 ELSE 0
        /\ \A i \in 1..(n - (m + 1) + 1) : s[i] = Ix(n)[(m + 1) + i - 1]
    BY <2>1, <2>2, SubSeqProperties
  <2>4. (IF m + 1 <= n THEN n - (m + 1) + 1 ELSE 0) = n - m
        /\ n - (m + 1) + 1 = n - m
        /\ \A i \in 1..(n - m) : (m + 1) + i - 1 = m + i
    OBVIOUS
  <2> HIDE DEF s
  <2> QED
    BY <2>3, <2>4
<1>5. \A k \in 1..(n - m) : s[k] = es[k]
  <2> SUFFICES ASSUME NEW k \in 1..(n - m)
               PROVE  s[k] = es[k]
    OBVIOUS
  <2>1. m + k \in 1..n
    OBVIOUS
  <2>2. Ix(n)[m + k] = Entry(MediaEnd((m + k) - 1), m + k)
    BY <1>1, <2>1
  <2>3. s[k] = Ix(n)[m + k]
    BY <1>4
  <2>4. es[k] = Entry(MediaEnd(m + k - 1), m + k)
    BY <1>2
  <2> QED
    BY <2>2, <2>3, <2>4
<1>6. s = es
  <2> HIDE DEF s, es
  <2> QED
    BY <1>3, <1>4, <1>5, SeqEqual
<1> QED
  BY <1>6 DEF Batch

LEMMA HeaderSteps ==
  ASSUME PowerAlone, Typed, NEW n \in Nat, NEW m \in Nat, Good(n, m), WriteHeader
  PROVE  Steps(n)
<1>1. pc = "header" /\ pc' = "rec" /\ n = 0 /\ m = 0 /\ vms = <<>> /\ w = NoWriter
      /\ job' = job /\ synced' = synced /\ job = NoJob /\ Covers(sidecar.batches, 0)
  BY DEF WriteHeader, Good, At, Ahead, Repairing
<1>2. vms' = HeaderCells
  BY <1>1 DEF WriteHeader, HeaderCells
<1>3. /\ vms' \in Seq(Cells) /\ Len(vms') = 1 /\ vms'[1].k = "HDR"
  BY <1>2 DEF HeaderCells, Cell, Cells
<1>4. Laid(vms', 0, 0, 0, FALSE)
  <2>1. MediaEnd(0) = 1 /\ 0 \in 0..IdxLen(0) /\ 0 \in 0..FtrLen /\ 1..0 = {}
    BY Ends, RecordingFileAssumption DEF IdxLen
  <2>2. Holds(vms', 0)
    BY <1>3, <2>1 DEF Holds
  <2> QED
    BY <1>3, <2>1, <2>2 DEF Laid
<1>5. /\ w'.blocks = 0 /\ w'.bytes = MediaEnd(0) /\ w'.written = 0
      /\ w'.index = <<>> /\ w'.overflow = FALSE
      /\ w' \in WriterType
  <2>1. HdrLen \in Nat /\ MediaEnd(0) = HdrLen /\ <<>> \in Seq(EntryType)
        /\ 0 \in 0..MaxBlocks
    BY Ends, RecordingFileAssumption DEF HdrLen
  <2>2. \/ w' = [w EXCEPT !.bytes = HdrLen, !.scOpen = TRUE]
        \/ w' = [w EXCEPT !.bytes = HdrLen]
    BY DEF WriteHeader
  <2> QED
    BY <1>1, <2>1, <2>2 DEF NoWriter, WriterType
<1>6. /\ sidecar' \in [exists : BOOLEAN, batches : Seq(BatchType)]
      /\ sidecar'.batches # <<>> => sidecar'.exists
      /\ w'.scOpen => sidecar'.exists
      /\ Covers(sidecar'.batches, 0)
  <2>1. CASE sidecar' = [exists |-> TRUE, batches |-> <<>>]
    BY <2>1, CoversNothing
  <2>2. CASE w' = [w EXCEPT !.bytes = HdrLen] /\ sidecar' = sidecar
    BY <1>1, <2>2 DEF Typed, NoWriter
  <2> QED
    BY <2>1, <2>2 DEF WriteHeader
<1>7. faults' \in [Fault -> Nat] /\ faults'["power"] = faults["power"]
  <2>1. CASE faults' = faults
    BY <2>1 DEF Typed
  <2>2. CASE Hit("io")
    BY <2>2, HitAlone DEF Typed, Fault
  <2> QED
    BY <2>1, <2>2 DEF WriteHeader
<1>8. Typed'
  <2>1. synced' \in 0..Len(vms')
    BY <1>1, <1>3 DEF Typed
  <2>2. Len(w'.index) <= MaxIndex
    BY <1>5, RecordingFileAssumption
  <2>3. job' \in JobType
    BY <1>1 DEF Typed
  <2> QED
    BY <1>1, <1>3, <1>5, <1>6, <1>7, <2>1, <2>2, <2>3 DEF Typed, Place
<1>9. Writing(0, 0)'
  BY <1>5, <1>6 DEF Writing, Ix
<1>10. At(0, 0)'
  BY <1>1, <1>4, <1>9 DEF At, Repairing, NoJob
<1>11. Good(0, 0)'
  BY <1>6, <1>10 DEF Good
<1>12. Goes(n, 0)
  <2>1. ~HasFooter(vms)
    BY <1>1, RecordingFileAssumption DEF HasFooter
  <2> QED
    BY <1>1, <1>7, <2>1 DEF Goes
<1> QED
  BY <1>8, <1>11, <1>12 DEF Steps

LEMMA BlockSteps ==
  ASSUME PowerAlone, Typed, NEW n \in Nat, NEW m \in Nat, Good(n, m), WriteBlock
  PROVE  Steps(n)
<1> DEFINE w0 == [w EXCEPT !.bytes = @ + BlkLen, !.blocks = w.blocks + 1]
           w1 == NoteBlock(w0, Entry(w.bytes, w.blocks + 1))
<1>1. /\ pc = "rec" /\ Laid(vms, n, 0, 0, FALSE) /\ Writing(n, m) /\ job = NoJob
      /\ m <= n /\ w.blocks < MaxBlocks /\ Covers(sidecar.batches, m)
      /\ synced' = synced /\ sidecar' = sidecar /\ job' = job /\ faults' = faults
  BY DEF WriteBlock, Good, At, Ahead, Repairing
<1>2. /\ vms' = vms \o BlockCells(n + 1) /\ w' = w1 /\ pc' \in {"rec", "batch"}
  BY <1>1 DEF WriteBlock, Writing
<1>3. Grown(vms, vms', BlkLen, "BLK", n + 1)
  <2>1. n + 1 \in Nat /\ BlkLen \in Nat /\ vms \in Seq(Cells)
        /\ BlockCells(n + 1) = [p \in 1..BlkLen |-> Cell("BLK", n + 1, p)]
    BY RecordingFileAssumption DEF BlockCells, Typed
  <2> QED
    BY <1>2, <2>1, Writes
<1>4. Laid(vms', n + 1, 0, 0, FALSE) /\ vms' \in Seq(Cells)
      /\ Len(vms') = Len(vms) + BlkLen
  <2>1. BlkLen \in Nat /\ vms \in Seq(Cells)
    BY RecordingFileAssumption DEF Typed
  <2> QED
    BY <1>1, <1>3, <2>1, GrownByBlock DEF Grown
<1>5. /\ MediaEnd(n) \in Nat /\ MediaEnd(n + 1) = MediaEnd(n) + BlkLen
      /\ BlkLen \in Nat
  BY Ends, Lengths
<1>6. /\ w.blocks = n /\ w.bytes = MediaEnd(n) /\ w \in WriterType
      /\ (~w.overflow => w.index = Ix(n)) /\ w.overflow \in BOOLEAN
      /\ Len(w.index) <= MaxIndex /\ w.written = m /\ w.index \in Seq(EntryType)
  BY <1>1 DEF Typed, WriterType, Writing
<1>7. /\ w0 = [w EXCEPT !.bytes = MediaEnd(n + 1), !.blocks = n + 1]
      /\ w0 \in WriterType /\ w0.blocks = n + 1 /\ w0.bytes = MediaEnd(n + 1)
      /\ w0.written = m /\ w0.index = w.index /\ w0.overflow = w.overflow
      /\ w0.scOpen = w.scOpen
  <2>1. n + 1 \in 0..MaxBlocks /\ MediaEnd(n + 1) \in Nat
    BY <1>1, <1>5, <1>6, RecordingFileAssumption
  <2>2. w0 = [w EXCEPT !.bytes = MediaEnd(n + 1), !.blocks = n + 1]
    BY <1>5, <1>6
  <2> HIDE DEF w0
  <2> QED
    BY <1>6, <2>1, <2>2 DEF WriterType
<1>8. /\ w1 \in WriterType /\ w1.blocks = n + 1 /\ w1.bytes = MediaEnd(n + 1)
      /\ w1.written = m /\ (~w1.overflow => w1.index = Ix(n + 1))
      /\ w1.scOpen = w.scOpen /\ Len(w1.index) <= MaxIndex
      /\ w1.overflow => w1.index = <<>>
  <2>1. CASE w0.overflow
    <3>1. w1 = w0
      BY <2>1 DEF NoteBlock
    <3> QED
      BY <1>6, <1>7, <2>1, <3>1 DEF Typed
  <2>2. CASE ~w0.overflow /\ Len(w0.index) >= MaxIndex
    <3>1. w1 = [w0 EXCEPT !.overflow = TRUE, !.index = <<>>]
      BY <2>2 DEF NoteBlock
    <3>2. <<>> \in Seq(EntryType) /\ Len(<<>>) <= MaxIndex
      BY RecordingFileAssumption
    <3> HIDE DEF w0, w1
    <3> QED
      BY <1>7, <3>1, <3>2 DEF WriterType
  <2>3. CASE ~w0.overflow /\ ~(Len(w0.index) >= MaxIndex)
    <3>1. w1 = [w0 EXCEPT !.index = Append(w0.index, Entry(MediaEnd(n), n + 1))]
      BY <1>6, <2>3 DEF NoteBlock
    <3>2. w0.index = Ix(n) /\ Len(Ix(n)) = n
      BY <1>6, <1>7, <2>3, IxType
    <3>3. Append(w0.index, Entry(MediaEnd(n), n + 1)) = Ix(n + 1)
      BY <3>2, IxAppend
    <3>4. Ix(n + 1) \in Seq(EntryType) /\ Len(Ix(n + 1)) = n + 1 /\ n + 1 <= MaxIndex
      <4>1. n + 1 \in Nat
        OBVIOUS
      <4>2. Ix(n + 1) \in Seq(EntryType) /\ Len(Ix(n + 1)) = n + 1
        BY <4>1, IxType
      <4>3. n + 1 <= MaxIndex
        BY <2>3, <3>2, RecordingFileAssumption
      <4> QED
        BY <4>2, <4>3
    <3> HIDE DEF w0, w1
    <3> QED
      BY <1>7, <2>3, <3>1, <3>3, <3>4 DEF WriterType
  <2> QED
    BY <2>1, <2>2, <2>3
<1>9. Typed'
  <2>1. synced' \in 0..Len(vms')
    BY <1>1, <1>4, <1>5 DEF Typed
  <2> HIDE DEF w1
  <2> QED
    BY <1>1, <1>2, <1>4, <1>8, <2>1 DEF Typed, Place
<1>10. Writing(n + 1, m)'
  <2> HIDE DEF w1
  <2> QED
    BY <1>1, <1>2, <1>8 DEF Writing
<1>11. At(n + 1, m)'
  BY <1>1, <1>2, <1>4, <1>10 DEF At, Repairing, NoJob
<1>12. Good(n + 1, m)'
  <2>1. m <= n + 1
    BY <1>1
  <2> QED
    BY <1>1, <1>11, <2>1 DEF Good
<1>13. Goes(n, n + 1)
  <2>1. ~HasFooter(vms) /\ ~HasFooter(vms')
    <3>1. 0 \in Nat /\ n + 1 \in Nat /\ vms \in Seq(Cells)
      BY DEF Typed
    <3>2. ~HasFooter(vms)
      BY <1>1, <3>1, NoFooterYet
    <3>3. ~HasFooter(vms')
      BY <1>4, <3>1, NoFooterYet
    <3> QED
      BY <3>2, <3>3
  <2> QED
    BY <1>1, <2>1 DEF Goes
<1> QED
  <2>1. n + 1 \in Nat
    OBVIOUS
  <2> QED
    BY <1>9, <1>12, <1>13, <2>1 DEF Steps

LEMMA Nones ==
  /\ NoWriter \in WriterType /\ NoWriter.index = <<>> /\ Len(NoWriter.index) <= MaxIndex
  /\ NoJob \in JobType /\ NoJob.end = 0
  /\ NoSidecar \in [exists : BOOLEAN, batches : Seq(BatchType)]
  /\ NoSidecar.batches = <<>>
BY RecordingFileAssumption
   DEF NoWriter, NoJob, NoSidecar, WriterType, JobType

LEMMA BlockFailsSteps ==
  ASSUME PowerAlone, Typed, NEW n \in Nat, NEW m \in Nat, Good(n, m), WriteBlockFails
  PROVE  Steps(n)
<1>1. /\ pc = "rec" /\ Laid(vms, n, 0, 0, FALSE) /\ Writing(n, m) /\ job = NoJob
      /\ m <= n /\ Covers(sidecar.batches, m) /\ Hit("io") /\ pc' = "dropped"
      /\ synced' = synced /\ sidecar' = sidecar /\ job' = job /\ w' = NoWriter
      /\ vms \in Seq(Cells)
  BY DEF WriteBlockFails, Good, At, Ahead, Repairing, Typed
<1>2. PICK part \in Torn(BlockCells(n + 1)) : vms' = vms \o part
  BY <1>1 DEF WriteBlockFails, Writing
<1>3. n + 1 \in Nat /\ BlkLen \in Nat
      /\ BlockCells(n + 1) = [p \in 1..BlkLen |-> Cell("BLK", n + 1, p)]
  BY RecordingFileAssumption DEF BlockCells
<1>4. PICK c \in 0..(BlkLen - 1) : Grown(vms, vms', c, "BLK", n + 1)
  BY <1>1, <1>2, <1>3, Writes
<1>5. c \in Nat /\ c < BlkLen
  BY <1>3
<1>6. Broken(vms', n) /\ vms' \in Seq(Cells) /\ Len(vms') = Len(vms) + c
  BY <1>1, <1>4, <1>5, GrownByBlock DEF Grown
<1>7. faults' \in [Fault -> Nat] /\ faults'["power"] = faults["power"]
  BY <1>1, HitAlone DEF Typed, Fault
<1>8. Typed'
  <2>1. synced' \in 0..Len(vms')
    BY <1>1, <1>5, <1>6 DEF Typed
  <2> QED
    BY <1>1, <1>6, <1>7, <2>1, Nones DEF Typed, Place
<1>9. At(n, m)'
  BY <1>1, <1>6 DEF At, Repairing, NoJob
<1>10. Good(n, m)'
  BY <1>1, <1>9 DEF Good
<1>11. ~HasFooter(vms)
  BY <1>1, NoFooterYet
<1> QED
  BY <1>7, <1>8, <1>10, <1>11 DEF Steps, Goes

\* A batch goes to the sidecar, or not.
LEMMA Flushes ==
  ASSUME PowerAlone, Typed, NEW n \in Nat, NEW m \in 0..n,
         Covers(sidecar.batches, m), Writing(n, m), FlushSidecar
  PROVE  /\ sidecar' \in [exists : BOOLEAN, batches : Seq(BatchType)]
         /\ sidecar'.batches # <<>> => sidecar'.exists
         /\ w' \in WriterType /\ Len(w'.index) <= MaxIndex
         /\ w'.overflow => w'.index = <<>>
         /\ faults' \in [Fault -> Nat] /\ faults'["power"] = faults["power"]
         /\ \E v \in 0..n : Covers(sidecar'.batches, v) /\ Writing(n, v)'
<1>1. /\ w.blocks = n /\ w.bytes = MediaEnd(n) /\ w \in WriterType
      /\ (~w.overflow => w.index = Ix(n))
      /\ (w.overflow => w.index = <<>>)
      /\ Len(w.index) <= MaxIndex /\ w.written = m /\ (w.scOpen => sidecar.exists)
      /\ sidecar \in [exists : BOOLEAN, batches : Seq(BatchType)]
      /\ sidecar.batches # <<>> => sidecar.exists
      /\ faults \in [Fault -> Nat]
  BY DEF Typed, Writing
<1>2. CASE ~(w.scOpen /\ Len(w.index) > w.written)
  <2>1. sidecar' = sidecar /\ w' = w /\ faults' = faults
    BY <1>2 DEF FlushSidecar
  <2>2. Writing(n, m)'
    BY <1>1, <2>1 DEF Writing
  <2> QED
    BY <1>1, <2>1, <2>2
<1>3. CASE w.scOpen /\ Len(w.index) > w.written
  <2>1. w.index = Ix(n) /\ Len(w.index) = n /\ m < n /\ ~w.overflow
    <3>1. w.index # <<>>
      BY <1>1, <1>3
    <3>2. Len(Ix(n)) = n
      BY IxType
    <3> QED
      BY <1>1, <1>3, <3>1, <3>2
  <2>2. CASE Hit("io") /\ w' = [w EXCEPT !.scOpen = FALSE] /\ sidecar' = sidecar
    <3>1. /\ w'.blocks = n /\ w'.bytes = MediaEnd(n) /\ w'.index = w.index
          /\ w'.overflow = w.overflow /\ w'.written = m /\ w'.scOpen = FALSE
          /\ w' \in WriterType
      BY <1>1, <2>2 DEF WriterType
    <3>2. Writing(n, m)'
      BY <1>1, <3>1 DEF Writing
    <3>3. faults' \in [Fault -> Nat] /\ faults'["power"] = faults["power"]
      BY <1>1, <2>2, HitAlone DEF Fault
    <3> QED
      BY <1>1, <2>1, <2>2, <3>1, <3>2, <3>3
  <2>3. CASE /\ sidecar' = [sidecar EXCEPT !.batches =
                  Append(@, [entries |-> SubSeq(w.index, w.written + 1, Len(w.index)),
                             valid |-> w.bytes])]
             /\ w' = [w EXCEPT !.written = Len(w.index)]
             /\ UNCHANGED faults
    <3>1. sidecar' = [sidecar EXCEPT !.batches = Append(sidecar.batches, Batch(m, n))]
      <4>1. [entries |-> SubSeq(w.index, w.written + 1, Len(w.index)),
             valid |-> w.bytes] = Batch(m, n)
        BY <1>1, <2>1, IxBatch
      <4> QED
        BY <2>3, <4>1
    <3>2. /\ Covers(Append(sidecar.batches, Batch(m, n)), n)
          /\ Append(sidecar.batches, Batch(m, n)) \in Seq(BatchType)
      BY <1>1, <2>1, CoversMore
    <3>3. /\ sidecar' \in [exists : BOOLEAN, batches : Seq(BatchType)]
          /\ sidecar'.exists = sidecar.exists
          /\ sidecar'.batches = Append(sidecar.batches, Batch(m, n))
      <4> DEFINE more == Append(sidecar.batches, Batch(m, n))
      <4> HIDE DEF more
      <4>1. sidecar' = [sidecar EXCEPT !.batches = more] /\ more \in Seq(BatchType)
        BY <3>1, <3>2 DEF more
      <4>2. sidecar' \in [exists : BOOLEAN, batches : Seq(BatchType)]
            /\ sidecar'.exists = sidecar.exists /\ sidecar'.batches = more
        BY <1>1, <4>1
      <4> QED
        BY <4>2 DEF more
    <3>4. /\ w'.blocks = n /\ w'.bytes = MediaEnd(n) /\ w'.index = w.index
          /\ w'.overflow = w.overflow /\ w'.written = n /\ w'.scOpen = w.scOpen
          /\ w' \in WriterType
      <4>1. n \in 0..MaxBlocks
        BY <1>1 DEF WriterType
      <4> QED
        BY <1>1, <2>1, <2>3, <4>1 DEF WriterType
    <3>5. Writing(n, n)'
      BY <1>1, <3>3, <3>4 DEF Writing
    <3>6. faults' \in [Fault -> Nat] /\ faults'["power"] = faults["power"]
      BY <1>1, <2>3
    <3>7. \E v \in 0..n : Covers(sidecar'.batches, v) /\ Writing(n, v)'
      <4>1. n \in 0..n /\ Covers(sidecar'.batches, n)
        BY <3>2, <3>3
      <4> QED
        BY <3>5, <4>1
    <3>8. sidecar'.batches # <<>> => sidecar'.exists
      BY <1>1, <1>3, <3>3
    <3>9. Len(w'.index) <= MaxIndex /\ (w'.overflow => w'.index = <<>>)
      BY <1>1, <3>4
    <3> QED
      BY <3>3, <3>4, <3>6, <3>7, <3>8, <3>9
  <2> QED
    BY <1>3, <2>2, <2>3 DEF FlushSidecar
<1> QED
  BY <1>2, <1>3

LEMMA FlushSteps ==
  ASSUME PowerAlone, Typed, NEW n \in Nat, NEW m \in Nat, Good(n, m),
         WriteBatch \/ CloseFlush
  PROVE  Steps(n)
<1>1. /\ pc \in {"rec", "batch"} /\ pc' \in {"rec", "c_index"}
      /\ Laid(vms, n, 0, 0, FALSE) /\ Writing(n, m) /\ job = NoJob
      /\ m \in 0..n /\ Covers(sidecar.batches, m) /\ FlushSidecar
      /\ synced' = synced /\ vms' = vms /\ job' = job
  <2>1. /\ pc \in {"rec", "batch"} /\ pc' \in {"rec", "c_index"} /\ FlushSidecar
        /\ synced' = synced /\ vms' = vms /\ job' = job
    BY DEF WriteBatch, CloseFlush
  <2>2. m <= n
    BY <2>1 DEF Good, Ahead, Repairing
  <2>3. Laid(vms, n, 0, 0, FALSE) /\ Writing(n, m) /\ job = NoJob
        /\ Covers(sidecar.batches, m)
    BY <2>1 DEF Good, At
  <2>4. m \in 0..n
    BY <2>2
  <2> QED
    BY <2>1, <2>3, <2>4
<1>2. /\ sidecar' \in [exists : BOOLEAN, batches : Seq(BatchType)]
      /\ sidecar'.batches # <<>> => sidecar'.exists
      /\ w' \in WriterType /\ Len(w'.index) <= MaxIndex
      /\ w'.overflow => w'.index = <<>>
      /\ faults' \in [Fault -> Nat] /\ faults'["power"] = faults["power"]
      /\ \E v \in 0..n : Covers(sidecar'.batches, v) /\ Writing(n, v)'
  BY <1>1, Flushes
<1>3. PICK v \in 0..n : Covers(sidecar'.batches, v) /\ Writing(n, v)'
  BY <1>2
<1>4. Typed'
  BY <1>1, <1>2 DEF Typed, Place
<1>5. At(n, v)'
  BY <1>1, <1>3 DEF At, Repairing, NoJob
<1>6. Good(n, v)'
  BY <1>3, <1>5 DEF Good
<1>7. Goes(n, n)
  BY <1>1, <1>2 DEF Goes
<1> QED
  BY <1>4, <1>6, <1>7 DEF Steps

LEMMA IndexSteps ==
  ASSUME PowerAlone, Typed, NEW n \in Nat, NEW m \in Nat, Good(n, m), CloseIndex
  PROVE  Steps(n)
<1>1. /\ pc = "c_index" /\ pc' = "c_footer"
      /\ Laid(vms, n, 0, 0, FALSE) /\ Writing(n, m) /\ job = NoJob
      /\ m <= n /\ Covers(sidecar.batches, m) /\ vms \in Seq(Cells)
      /\ synced' = synced /\ sidecar' = sidecar /\ w' = w
  BY DEF CloseIndex, Good, At, Ahead, Repairing, Typed
<1>2. Writing(n, m)'
  BY <1>1 DEF Writing
<1>3. MediaEnd(n) \in Nat /\ IdxLen(n) = n + 1 /\ ~HasFooter(vms)
  <2>1. ~HasFooter(vms)
    BY <1>1, NoFooterYet
  <2> QED
    BY <2>1, Lengths
<1>4. ASSUME faults' \in [Fault -> Nat], faults'["power"] = faults["power"],
             NEW a \in Nat, Laid(vms', n, a, 0, FALSE), vms' \in Seq(Cells),
             Len(vms) <= Len(vms'), job' \in JobType, ~job'.ftr, job'.end = 0,
             job'.ioff # 0 => /\ a = IdxLen(n) /\ n >= 1 /\ ~w.overflow
                              /\ job'.ioff = MediaEnd(n)
      PROVE  Steps(n)
  <2>1. Typed'
    <3>1. synced' \in 0..Len(vms')
      BY <1>1, <1>4 DEF Typed
    <3> QED
      BY <1>1, <1>4, <3>1 DEF Typed, Place
  <2>2. At(n, m)'
    BY <1>1, <1>2, <1>4 DEF At, Repairing
  <2>3. Good(n, m)'
    BY <1>1, <2>2 DEF Good
  <2> QED
    BY <1>3, <1>4, <2>1, <2>3 DEF Steps, Goes
<1>5. CASE w.index # <<>> /\ ~w.overflow
  <2>1. w.index = Ix(n) /\ n >= 1
    <3>1. w.index = Ix(n)
      BY <1>1, <1>5 DEF Writing
    <3>2. n # 0
      BY <1>5, <3>1 DEF Ix
    <3> QED
      BY <3>1, <3>2
  <2>2. Ix(n) \in Seq(EntryType) /\ Len(Ix(n)) = n
    BY IxType
  <2>3. IndexCells(w.index) = [p \in 1..(n + 1) |-> Cell("VIDX", Ix(n), p)]
        /\ n + 1 \in Nat
    BY <1>3, <2>1, <2>2 DEF IndexCells
  <2>4. CASE /\ vms' = vms \o IndexCells(w.index)
             /\ job' = [job EXCEPT !.ioff = w.bytes]
             /\ UNCHANGED faults
    <3>1. Grown(vms, vms', n + 1, "VIDX", Ix(n))
      BY <1>1, <2>2, <2>3, <2>4, Writes
    <3>2. n + 1 \in 0..IdxLen(n) /\ n + 1 \in Nat
      BY <1>3
    <3>3. Laid(vms', n, n + 1, 0, FALSE) /\ vms' \in Seq(Cells)
          /\ Len(vms') = Len(vms) + (n + 1)
      BY <1>1, <3>1, <3>2, GrownByIndex DEF Grown
    <3>4. Len(vms) <= Len(vms')
      BY <1>1, <3>3
    <3>5. job' \in JobType /\ ~job'.ftr /\ job'.end = 0 /\ job'.ioff = MediaEnd(n)
      BY <1>1, <1>3, <2>4, Nones DEF Writing, NoJob, JobType
    <3>6. faults' \in [Fault -> Nat] /\ faults'["power"] = faults["power"]
      BY <2>4 DEF Typed
    <3> QED
      BY <1>3, <1>4, <1>5, <2>1, <3>2, <3>3, <3>4, <3>5, <3>6
  <2>5. CASE /\ Hit("io")
             /\ \E part \in Torn(IndexCells(w.index)) : vms' = vms \o part
             /\ UNCHANGED job
    <3>1. PICK c \in 0..((n + 1) - 1) : Grown(vms, vms', c, "VIDX", Ix(n))
      BY <1>1, <2>2, <2>3, <2>5, Writes
    <3>2. c \in 0..IdxLen(n) /\ c \in Nat
      BY <1>3
    <3>3. Laid(vms', n, c, 0, FALSE) /\ vms' \in Seq(Cells)
          /\ Len(vms') = Len(vms) + c
      BY <1>1, <3>1, <3>2, GrownByIndex DEF Grown
    <3>4. Len(vms) <= Len(vms')
      BY <1>1, <3>2, <3>3
    <3>5. job' \in JobType /\ ~job'.ftr /\ job'.end = 0 /\ job'.ioff = 0
      BY <1>1, <2>5, Nones DEF NoJob
    <3>6. faults' \in [Fault -> Nat] /\ faults'["power"] = faults["power"]
      BY <2>5, HitAlone DEF Typed, Fault
    <3> QED
      BY <1>4, <3>2, <3>3, <3>4, <3>5, <3>6
  <2> QED
    BY <1>5, <2>4, <2>5 DEF CloseIndex
<1>6. CASE w.index = <<>> \/ w.overflow
  <2>1. vms' = vms /\ job' = job /\ faults' = faults
    BY <1>6 DEF CloseIndex
  <2>2. job' \in JobType /\ ~job'.ftr /\ job'.end = 0 /\ job'.ioff = 0
    BY <1>1, <2>1, Nones DEF NoJob
  <2>3. 0 \in Nat /\ Len(vms) <= Len(vms') /\ faults' \in [Fault -> Nat]
    BY <1>1, <2>1 DEF Typed
  <2> QED
    BY <1>1, <1>4, <2>1, <2>2, <2>3
<1> QED
  BY <1>5, <1>6

LEMMA FooterSteps ==
  ASSUME PowerAlone, Typed, NEW n \in Nat, NEW m \in Nat, Good(n, m), CloseFooter
  PROVE  Steps(n)
<1>1. /\ pc = "c_footer" /\ pc' = "c_sync" /\ ~job.ftr /\ job.end = 0
      /\ m <= n /\ Covers(sidecar.batches, m) /\ vms \in Seq(Cells)
      /\ synced' = synced /\ sidecar' = sidecar /\ w' = w /\ job \in JobType
  BY DEF CloseFooter, Good, At, Ahead, Repairing, Typed
<1>2. PICK a \in Nat :
        /\ Laid(vms, n, a, 0, FALSE) /\ Writing(n, m)
        /\ job.ioff # 0 => /\ a = IdxLen(n) /\ n >= 1 /\ ~w.overflow
                           /\ job.ioff = MediaEnd(n)
  BY <1>1 DEF Good, At
<1> DEFINE x == job.ioff # 0
           chunk == FooterCells(Footer(w.blocks, job.ioff, Len(w.index)))
<1>3. x \in BOOLEAN /\ MediaEnd(n) \in Nat /\ MediaEnd(n) >= 1 /\ FtrLen \in Nat
      /\ FtrLen >= 1
  BY Lengths
<1>4. Footer(w.blocks, job.ioff, Len(w.index)) = FtrOf(n, x)
  <2>1. CASE job.ioff = 0
    BY <1>2, <2>1 DEF Writing, Footer, FtrOf
  <2>2. CASE job.ioff # 0
    <3>1. w.index = Ix(n) /\ Len(Ix(n)) = n
      BY <1>2, <2>2, IxType DEF Writing
    <3> QED
      BY <1>2, <1>3, <2>2, <3>1 DEF Writing, Footer, FtrOf
  <2> QED
    BY <2>1, <2>2
<1>5. FtrOf(n, x) \in FooterType
  BY <1>3 DEF FtrOf, Footer, FooterType
<1>7. ~HasFooter(vms)
  BY <1>1, <1>2, NoFooterYet
<1>8. ASSUME faults' \in [Fault -> Nat], faults'["power"] = faults["power"],
             NEW c \in 0..FtrLen, Grown(vms, vms', c, "VEOF", FtrOf(n, x)),
             job' \in JobType, job'.end = 0, job'.ioff = job.ioff,
             job'.ftr => c = FtrLen
      PROVE  Steps(n)
  <2>1. Laid(vms', n, a, c, x)
    <3> HIDE DEF x
    <3>1. x => a = IdxLen(n) /\ n >= 1
      BY <1>2 DEF x
    <3>2. vms \in Seq(Cells) /\ n \in Nat /\ a \in Nat /\ Laid(vms, n, a, 0, FALSE)
      BY <1>1, <1>2
    <3>3. c \in 0..FtrLen /\ Grown(vms, vms', c, "VEOF", FtrOf(n, x)) /\ x \in BOOLEAN
      BY <1>3, <1>8
    <3> QED
      BY <3>1, <3>2, <3>3, GrownByFooter
  <2>2. vms' \in Seq(Cells) /\ Len(vms') = Len(vms) + c /\ c \in Nat
    BY <1>3, <1>8 DEF Grown
  <2>3. Typed'
    <3>1. synced' \in 0..Len(vms')
      BY <1>1, <2>2 DEF Typed
    <3> QED
      BY <1>1, <1>8, <2>2, <3>1 DEF Typed, Place
  <2>4. Laid(vms', n, a, c, job'.ioff # 0)
    BY <1>8, <2>1
  <2>5. At(n, m)'
    BY <1>1, <1>8, <2>2, <2>4 DEF At, Repairing
  <2>6. Good(n, m)'
    BY <1>1, <2>5 DEF Good
  <2> QED
    BY <1>7, <1>8, <2>3, <2>6 DEF Steps, Goes
<1>9. CASE vms' = vms \o chunk /\ job' = [job EXCEPT !.ftr = TRUE] /\ UNCHANGED faults
  <2>1. Grown(vms, vms', FtrLen, "VEOF", FtrOf(n, x))
    <3> HIDE DEF x
    <3> QED
      BY <1>1, <1>4, <1>5, <1>9, WritesFooter
  <2>2. job' \in JobType /\ job'.end = 0 /\ job'.ioff = job.ioff
    BY <1>1, <1>9 DEF JobType
  <2>3. faults' \in [Fault -> Nat] /\ faults'["power"] = faults["power"]
        /\ FtrLen \in 0..FtrLen
    BY <1>3, <1>9 DEF Typed
  <2> HIDE DEF x
  <2> QED
    BY <1>8, <2>1, <2>2, <2>3
<1>10. CASE /\ Hit("io") /\ UNCHANGED job
            /\ \E part \in Torn(chunk) : vms' = vms \o part
  <2>1. PICK c \in 0..(FtrLen - 1) : Grown(vms, vms', c, "VEOF", FtrOf(n, x))
    <3> HIDE DEF x
    <3> QED
      BY <1>1, <1>4, <1>5, <1>10, WritesFooter
  <2>2. faults' \in [Fault -> Nat] /\ faults'["power"] = faults["power"]
    BY <1>10, HitAlone DEF Typed, Fault
  <2>3. c \in 0..FtrLen
    BY <1>3
  <2> HIDE DEF x
  <2> QED
    BY <1>1, <1>8, <1>10, <2>1, <2>2, <2>3
<1> QED
  BY <1>9, <1>10 DEF CloseFooter

LEMMA SyncSteps ==
  ASSUME PowerAlone, Typed, NEW n \in Nat, NEW m \in Nat, Good(n, m),
         CloseSync \/ CloseSidecar
  PROVE  Steps(n)
<1>1. /\ pc \in {"c_sync", "c_sidecar"} /\ pc' \in {"c_sidecar", "closed"}
      /\ m <= n /\ Covers(sidecar.batches, m) /\ vms' = vms
  BY DEF CloseSync, CloseSidecar, Good, Ahead, Repairing
<1>2. PICK a, b \in Nat : Laid(vms, n, a, b, job.ioff # 0) /\ (job.ftr => b = FtrLen)
  BY <1>1 DEF Good, At
<1>3. faults' \in [Fault -> Nat] /\ faults'["power"] = faults["power"]
  <2>1. CASE faults' = faults
    BY <2>1 DEF Typed
  <2>2. CASE Hit("io")
    BY <2>2, HitAlone DEF Typed, Fault
  <2> QED
    BY <2>1, <2>2 DEF CloseSync, CloseSidecar
<1>4. synced' \in 0..Len(vms')
  BY <1>1 DEF CloseSync, CloseSidecar, Typed
<1>5. CASE CloseSync
  <2>1. pc' = "c_sidecar" /\ sidecar' = sidecar /\ w' = w /\ job' = job /\ job.end = 0
    BY <1>5 DEF CloseSync, Good, At, Repairing
  <2>2. Typed'
    BY <1>1, <1>3, <1>4, <2>1 DEF Typed, Place
  <2>3. At(n, m)'
    BY <1>1, <1>2, <2>1 DEF At, Repairing
  <2>4. Good(n, m)'
    BY <1>1, <2>1, <2>3 DEF Good
  <2> QED
    BY <1>1, <1>3, <2>2, <2>4 DEF Steps, Goes
<1>6. CASE CloseSidecar
  <2>1. pc' = "closed" /\ sidecar' \in {NoSidecar, sidecar} /\ w' = NoWriter /\ job' = NoJob
    BY <1>6 DEF CloseSidecar
  <2>2. Typed'
    BY <1>1, <1>3, <1>4, <2>1, Nones DEF Typed, Place
  <2>3. LaidSomehow(vms, n)
    <3>1. (job.ioff # 0) \in BOOLEAN
      OBVIOUS
    <3> QED
      BY <1>2, <3>1 DEF LaidSomehow
  <2>4. \A v \in Nat : At(n, v)'
    BY <1>1, <2>1, <2>3, Nones DEF At, Repairing
  <2>5. PICK v \in Nat : v <= n /\ Covers(sidecar'.batches, v)
    <3>1. CASE sidecar' = NoSidecar
      BY <3>1, CoversNothing, Nones
    <3>2. CASE sidecar' = sidecar
      BY <1>1, <3>2
    <3> QED
      BY <2>1, <3>1, <3>2
  <2>6. Good(n, v)'
    BY <2>4, <2>5 DEF Good
  <2> QED
    BY <1>1, <1>3, <2>2, <2>6 DEF Steps, Goes
<1> QED
  BY <1>5, <1>6

-----------------------------------------------------------------------------
(* The process stops *)

LEMMA StopSteps ==
  ASSUME PowerAlone, Typed, NEW n \in Nat, NEW m \in Nat, Good(n, m),
         Kill \/ Shutdown
  PROVE  Steps(n)
<1>1. /\ pc' = "down" /\ w' = NoWriter /\ job' = NoJob /\ pc # "down"
      /\ vms' = vms /\ synced' = synced /\ sidecar' = sidecar
  BY DEF Kill, Shutdown, StopTo
<1>2. /\ m <= n
      /\ faults' \in [Fault -> Nat] /\ faults'["power"] = faults["power"]
  <2>1. CASE Kill
    <3>1. Hit("kill")
      BY <2>1 DEF Kill
    <3>2. faults["power"] = 0 /\ faults' \in [Fault -> Nat] /\ faults'["power"] = 0
      BY <3>1, HitAlone DEF Typed, Fault
    <3> QED
      BY <3>2 DEF Good, Ahead
  <2>2. CASE Shutdown
    BY <2>2 DEF Shutdown, Good, Ahead, Repairing, Typed
  <2> QED
    BY <2>1, <2>2
<1>3. Typed'
  BY <1>1, <1>2, Nones DEF Typed, Place
<1>4. Shaped(vms, n)
  BY AlwaysShaped DEF Good
<1>5. At(n, m)'
  BY <1>1, <1>4, Nones DEF At, Repairing
<1>6. Good(n, m)'
  BY <1>1, <1>2, <1>5 DEF Good
<1> QED
  BY <1>1, <1>2, <1>3, <1>6 DEF Steps, Goes

LEMMA PowerSteps ==
  ASSUME PowerAlone, Typed, NEW n \in Nat, NEW m \in Nat, Good(n, m), PowerLoss
  PROVE  Steps(n)
<1>1. /\ pc' = "down" /\ w' = NoWriter /\ job' = NoJob /\ synced' = synced
      /\ Hit("power") /\ vms \in Seq(Cells) /\ synced \in 0..Len(vms)
      /\ sidecar \in [exists : BOOLEAN, batches : Seq(BatchType)]
      /\ sidecar.batches # <<>> => sidecar.exists
  BY DEF PowerLoss, StopTo, Typed
<1>2. /\ faults["power"] = 0 /\ faults' \in [Fault -> Nat] /\ faults'["power"] = 1
  BY <1>1, HitAlone DEF Typed, Fault
<1>3. m \in 0..n /\ Covers(sidecar.batches, m)
  <2>1. m <= n
    BY <1>2 DEF Good, Ahead
  <2> QED
    BY <2>1 DEF Good
<1>4. PICK l \in synced..Len(vms) : vms' = SubSeq(vms, 1, l)
  BY DEF PowerLoss
<1>5. l \in 0..Len(vms) /\ synced <= l
  BY <1>1
<1>6. Shaped(vms, n)
  BY AlwaysShaped DEF Good
<1>7. /\ vms' \in Seq(Cells)
      /\ HasFooter(vms') => vms' = vms
      /\ \E v \in 0..n : Shaped(vms', v) /\ \A y \in 0..n : Within(vms', v, y)
  BY <1>1, <1>4, <1>5, <1>6, PowerCut
<1>8. PICK v \in 0..n : Shaped(vms', v) /\ \A y \in 0..n : Within(vms', v, y)
  BY <1>7
<1>9. PICK k \in 0..Len(sidecar.batches) :
        sidecar' = [sidecar EXCEPT !.batches = SubSeq(@, 1, k)]
  BY DEF PowerLoss
<1>10. /\ SubSeq(sidecar.batches, 1, k) \in Seq(BatchType)
       /\ \E y \in Nat : y <= m /\ Covers(SubSeq(sidecar.batches, 1, k), y)
  BY <1>1, <1>3, CoversLess
<1>11. /\ sidecar' \in [exists : BOOLEAN, batches : Seq(BatchType)]
       /\ sidecar'.exists = sidecar.exists
       /\ sidecar'.batches = SubSeq(sidecar.batches, 1, k)
  BY <1>1, <1>9, <1>10
<1>12. sidecar'.batches # <<>> => sidecar'.exists
  <2> SUFFICES ASSUME sidecar.batches = <<>>
               PROVE  sidecar'.batches = <<>>
    BY <1>1, <1>11
  <2>1. k = 0
    OBVIOUS
  <2> QED
    BY <1>11, <2>1
<1>13. PICK y \in Nat : y <= m /\ Covers(sidecar'.batches, y)
  BY <1>10, <1>11
<1>14. synced' \in 0..Len(vms')
  <2>1. Len(vms') = l
    BY <1>1, <1>4, <1>5, Prefix
  <2> QED
    BY <1>1, <1>5, <2>1
<1>15. Typed'
  BY <1>1, <1>2, <1>7, <1>11, <1>12, <1>14, Nones DEF Typed, Place
<1>16. At(v, y)'
  BY <1>1, <1>8, Nones DEF At, Repairing
<1>17. Good(v, y)'
  <2>1. y \in 0..n
    BY <1>3, <1>13
  <2>2. Within(vms', v, y)
    BY <1>8, <2>1
  <2>3. Ahead(v, y)'
    BY <1>1, <1>2, <2>2 DEF Ahead
  <2> QED
    BY <1>13, <1>16, <2>3 DEF Good
<1>18. Goes(n, v)
  <2>1. HasFooter(vms') => v = n
    <3> SUFFICES ASSUME HasFooter(vms')
                 PROVE  v = n
      OBVIOUS
    <3>1. vms' = vms /\ v \in Nat
      BY <1>7
    <3>2. Blocks(vms) = Ix(n)
      BY <1>1, <1>6, Reads
    <3>3. Blocks(vms) = Ix(v)
      BY <1>1, <1>8, <3>1, Reads
    <3>4. Len(Ix(n)) = n
      BY IxType
    <3>5. Len(Ix(v)) = v
      BY <3>1, IxType
    <3> QED
      BY <3>2, <3>3, <3>4, <3>5
  <2>2. v <= n
    OBVIOUS
  <2> QED
    BY <1>2, <1>7, <2>1, <2>2 DEF Goes
<1> QED
  BY <1>15, <1>17, <1>18 DEF Steps

-----------------------------------------------------------------------------
(* The next start *)

LEMMA BootSteps ==
  ASSUME PowerAlone, Typed, NEW n \in Nat, NEW m \in Nat, Good(n, m), Boot
  PROVE  Steps(n)
<1>1. /\ pc = "down" /\ vms' = vms /\ synced' = synced /\ w' = w /\ job.end = 0
      /\ Shaped(vms, n) /\ Covers(sidecar.batches, m)
  BY DEF Boot, BootNoSidecar, BootDrop, BootPending, Good, At, Repairing
<1>2. faults' \in [Fault -> Nat] /\ faults'["power"] = faults["power"]
  <2>1. CASE faults' = faults
    BY <2>1 DEF Typed
  <2>2. CASE Hit("open")
    BY <2>2, HitAlone DEF Typed, Fault
  <2> QED
    BY <2>1, <2>2 DEF Boot, BootNoSidecar, BootDrop, BootPending
<1>3. Goes(n, n)
  BY <1>1, <1>2 DEF Goes
<1>4. CASE BootNoSidecar
  <2>1. pc' = "ready" /\ sidecar' = sidecar /\ job' = job /\ sidecar.batches = <<>>
    BY <1>4 DEF BootNoSidecar, Typed
  <2>2. m = 0
    BY <1>1, <2>1, CoversSome DEF Typed
  <2>3. Typed'
    BY <1>1, <1>2, <2>1 DEF Typed, Place
  <2>4. At(n, m)'
    BY <1>1, <2>1 DEF At, Repairing
  <2>5. Good(n, m)'
    BY <1>1, <2>1, <2>2, <2>4 DEF Good
  <2> QED
    BY <1>3, <2>3, <2>5 DEF Steps
<1>5. CASE BootDrop
  <2>1. pc' = "ready" /\ sidecar' = NoSidecar /\ job' = job
    BY <1>5 DEF BootDrop
  <2>2. Typed'
    BY <1>1, <1>2, <2>1, Nones DEF Typed, Place
  <2>3. At(n, 0)'
    BY <1>1, <2>1 DEF At, Repairing
  <2>4. Covers(sidecar'.batches, 0)
    BY <2>1, Nones, CoversNothing
  <2>5. Good(n, 0)'
    BY <2>3, <2>4 DEF Good
  <2> QED
    BY <1>3, <2>2, <2>5 DEF Steps
<1>6. CASE BootPending
  <2> DEFINE e == EnsureIndex(vms, sidecar)
  <2>1. /\ pc' = "r_trunc" /\ sidecar' = sidecar /\ faults' = faults
        /\ job' = [job EXCEPT !.index = e.index, !.end = e.upto]
        /\ HasHeader(vms) /\ ~HasFooter(vms) /\ e.index # <<>>
    BY <1>6 DEF BootPending, Pending
  <2>2. vms # <<>> /\ ~Repairing
    BY <1>1, <2>1 DEF HasHeader, HeaderWhole, HdrLen, Repairing
  <2>3. e.index = Ix(n) /\ e.upto = MediaEnd(n)
    BY <2>2, Found
  <2>4. n >= 1
    <3>1. n # 0
      BY <2>1, <2>3 DEF Ix
    <3> QED
      BY <3>1
  <2>5. Ix(n) \in Seq(EntryType) /\ MediaEnd(n) \in Nat
    BY IxType, Lengths
  <2>6. job' \in JobType /\ job'.index = Ix(n) /\ job'.end = MediaEnd(n)
    <3> HIDE DEF e
    <3>1. job' = [job EXCEPT !.index = Ix(n), !.end = MediaEnd(n)] /\ job \in JobType
      BY <2>1, <2>3 DEF Typed
    <3> QED
      BY <2>5, <3>1 DEF JobType
  <2>7. Typed'
    <3> HIDE DEF e
    <3> QED
      BY <1>1, <2>1, <2>6 DEF Typed, Place
  <2>8. At(n, m)'
    <3> HIDE DEF e
    <3> QED
      BY <1>1, <2>1, <2>2, <2>4, <2>6 DEF At, Repairing
  <2>9. Good(n, m)'
    <3>1. m <= n \/ faults["power"] # 0
      BY DEF Good, Ahead
    <3>2. Repairing'
      BY <2>1 DEF Repairing
    <3>3. Covers(sidecar'.batches, m)
      BY <1>1, <2>1
    <3>4. m <= n \/ Ahead(n, m)'
      BY <1>2, <3>1, <3>2 DEF Ahead
    <3> QED
      BY <2>8, <3>3, <3>4 DEF Good
  <2> QED
    BY <1>3, <2>7, <2>9 DEF Steps
<1> QED
  BY <1>4, <1>5, <1>6 DEF Boot

\* A step of the repair that fails leaves what it had written, and no power
\* loss came before it.
LEMMA RepairFailsSteps ==
  ASSUME PowerAlone, Typed, NEW n \in Nat, NEW m \in Nat, Good(n, m), RepairFails,
         Shaped(vms', n), vms' \in Seq(Cells), synced' \in 0..Len(vms'),
         sidecar' = sidecar, w' = w, ~HasFooter(vms) \/ vms' = vms
  PROVE  Steps(n)
<1>1. pc' = "ready" /\ job' = NoJob /\ Hit("io")
  BY DEF RepairFails
<1>2. /\ faults["power"] = 0 /\ faults' \in [Fault -> Nat]
      /\ faults'["power"] = faults["power"]
  BY <1>1, HitAlone DEF Typed, Fault
<1>3. m <= n /\ Covers(sidecar'.batches, m)
  BY <1>2 DEF Good, Ahead
<1>4. Typed'
  BY <1>1, <1>2, Nones DEF Typed, Place
<1>5. At(n, m)'
  BY <1>1, Nones DEF At, Repairing
<1>6. Good(n, m)'
  BY <1>3, <1>5 DEF Good
<1> QED
  BY <1>2, <1>4, <1>6 DEF Steps, Goes

\* A step of the repair that goes through.
LEMMA RepairGoesOn ==
  ASSUME Typed, NEW n \in Nat, NEW m \in Nat, Good(n, m), Repairing, Repairing',
         job' = job, faults' = faults, w' = w, sidecar' = sidecar,
         vms' \in Seq(Cells), synced' \in 0..Len(vms'), ~HasFooter(vms) \/ vms' = vms,
         pc' # "r_trunc",
         pc' = "r_index" => Laid(vms', n, 0, 0, FALSE),
         pc' = "r_footer" => Laid(vms', n, IdxLen(n), 0, FALSE),
         pc' \in {"r_sync", "r_delete"} => Laid(vms', n, IdxLen(n), FtrLen, TRUE)
  PROVE  Steps(n)
<1>1. pc' \in Place /\ pc' \in {"r_index", "r_footer", "r_sync", "r_delete"}
  BY DEF Repairing, Place
<1>2. Typed'
  BY <1>1 DEF Typed
<1>3. n >= 1 /\ job.index = Ix(n) /\ job.end = MediaEnd(n)
  BY DEF Good, At
<1>4. At(n, m)'
  BY <1>1, <1>3 DEF At
<1>5. Good(n, m)'
  BY <1>4 DEF Good, Ahead
<1> QED
  BY <1>2, <1>5 DEF Steps, Goes

LEMMA TruncateSteps ==
  ASSUME PowerAlone, Typed, NEW n \in Nat, NEW m \in Nat, Good(n, m), RepairTruncate
  PROVE  Steps(n)
<1>1. /\ pc = "r_trunc" /\ sidecar' = sidecar /\ w' = w /\ Shaped(vms, n)
      /\ vms # <<>> /\ ~HasFooter(vms) /\ job.end = MediaEnd(n) /\ Repairing
      /\ vms \in Seq(Cells) /\ synced \in 0..Len(vms)
  BY DEF RepairTruncate, Good, At, Repairing, Typed
<1>2. CASE RepairFails /\ UNCHANGED <<vms, synced>>
  BY <1>1, <1>2, RepairFailsSteps
<1>3. CASE /\ vms' = SubSeq(vms, 1, job.end)
           /\ synced' = IF synced <= job.end THEN synced ELSE job.end
           /\ pc' = "r_index"
           /\ UNCHANGED <<job, faults>>
  <2>1. vms' = SubSeq(vms, 1, MediaEnd(n)) /\ Holds(vms, n)
    BY <1>1, <1>3, ShapedHolds
  <2>2. vms' \in Seq(Cells) /\ Laid(vms', n, 0, 0, FALSE)
    BY <1>1, <2>1, Truncates
  <2>3. MediaEnd(n) \in Nat
    BY Lengths
  <2>4. Len(vms') = MediaEnd(n)
    BY <2>2, <2>3 DEF Laid
  <2>5. synced' \in 0..Len(vms')
    BY <1>1, <1>3, <2>3, <2>4
  <2>6. Repairing'
    BY <1>3 DEF Repairing
  <2> QED
    BY <1>1, <1>3, <2>2, <2>5, <2>6, RepairGoesOn
<1> QED
  BY <1>2, <1>3 DEF RepairTruncate

LEMMA RepairIndexSteps ==
  ASSUME PowerAlone, Typed, NEW n \in Nat, NEW m \in Nat, Good(n, m), RepairIndex
  PROVE  Steps(n)
<1>1. /\ pc = "r_index" /\ synced' = synced /\ sidecar' = sidecar /\ w' = w
      /\ Laid(vms, n, 0, 0, FALSE) /\ job.index = Ix(n) /\ Repairing
      /\ vms \in Seq(Cells) /\ synced \in 0..Len(vms)
  BY DEF RepairIndex, Good, At, Repairing, Typed
<1>2. ~HasFooter(vms)
  BY <1>1, NoFooterYet
<1>3. Ix(n) \in Seq(EntryType) /\ Len(Ix(n)) = n /\ IdxLen(n) = n + 1
  BY IxType, Lengths
<1>5. CASE /\ vms' = vms \o IndexCells(job.index)
           /\ pc' = "r_footer" /\ UNCHANGED <<job, faults>>
  <2>1. Grown(vms, vms', n + 1, "VIDX", Ix(n))
    BY <1>1, <1>5, WritesIndex
  <2>2. n + 1 \in 0..IdxLen(n)
    BY <1>3
  <2>3. Laid(vms', n, IdxLen(n), 0, FALSE) /\ vms' \in Seq(Cells)
        /\ Len(vms') = Len(vms) + (n + 1)
    BY <1>1, <1>3, <2>1, <2>2, GrownByIndex DEF Grown
  <2>4. synced' \in 0..Len(vms')
    BY <1>1, <2>3
  <2>5. Repairing'
    BY <1>5 DEF Repairing
  <2> QED
    BY <1>1, <1>2, <1>5, <2>3, <2>4, <2>5, RepairGoesOn
<1>6. CASE RepairFails /\ \E part \in Torn(IndexCells(job.index)) : vms' = vms \o part
  <2>1. PICK c \in 0..n : Grown(vms, vms', c, "VIDX", Ix(n))
    BY <1>1, <1>6, WritesIndex
  <2>2. c \in 0..IdxLen(n) /\ c \in Nat
    BY <1>3
  <2>3. Laid(vms', n, c, 0, FALSE) /\ vms' \in Seq(Cells)
        /\ Len(vms') = Len(vms) + c
    BY <1>1, <2>1, <2>2, GrownByIndex DEF Grown
  <2>4. synced' \in 0..Len(vms')
    BY <1>1, <2>2, <2>3
  <2>5. Shaped(vms', n)
    <3>1. 0 \in Nat /\ FALSE \in BOOLEAN
      OBVIOUS
    <3> QED
      BY <2>2, <2>3, <3>1 DEF Shaped, LaidSomehow
  <2> QED
    BY <1>1, <1>2, <1>6, <2>3, <2>4, <2>5, RepairFailsSteps
<1> QED
  BY <1>5, <1>6 DEF RepairIndex

LEMMA RepairFooterSteps ==
  ASSUME PowerAlone, Typed, NEW n \in Nat, NEW m \in Nat, Good(n, m), RepairFooter
  PROVE  Steps(n)
<1>1. /\ pc = "r_footer" /\ synced' = synced /\ sidecar' = sidecar /\ w' = w
      /\ Laid(vms, n, IdxLen(n), 0, FALSE) /\ job.index = Ix(n) /\ Repairing
      /\ n >= 1 /\ job.end = MediaEnd(n)
      /\ vms \in Seq(Cells) /\ synced \in 0..Len(vms)
  BY DEF RepairFooter, Good, At, Repairing, Typed
<1>2. /\ Len(Ix(n)) = n /\ IdxLen(n) = n + 1 /\ IdxLen(n) \in Nat
      /\ MediaEnd(n) \in Nat /\ FtrLen \in Nat /\ FtrLen >= 1 /\ MediaEnd(n) >= 1
  <2>1. Len(Ix(n)) = n
    BY IxType
  <2>2. /\ MediaEnd(n) \in Nat /\ FtrLen \in Nat /\ FtrLen >= 1 /\ MediaEnd(n) >= 1
        /\ IdxLen(n) = n + 1
    BY Lengths
  <2>3. IdxLen(n) \in Nat
    BY <2>2
  <2> QED
    BY <2>1, <2>2, <2>3
<1>3. ~HasFooter(vms)
  BY <1>1, <1>2, NoFooterYet
<1> DEFINE chunk == FooterCells(Footer(Len(job.index), job.end, Len(job.index)))
<1>4. PICK f : /\ f = FtrOf(n, TRUE) /\ f \in FooterType
               /\ f = Footer(Len(job.index), job.end, Len(job.index))
  <2>1. Footer(Len(job.index), job.end, Len(job.index)) = FtrOf(n, TRUE)
    BY <1>1, <1>2 DEF FtrOf
  <2>2. FtrOf(n, TRUE) \in FooterType
    BY <1>2 DEF FtrOf, Footer, FooterType
  <2> QED
    BY <2>1, <2>2
<1>7. /\ Grown(vms, vms \o chunk, FtrLen, "VEOF", f)
      /\ \A part \in Torn(chunk) :
           \E c \in 0..(FtrLen - 1) : Grown(vms, vms \o part, c, "VEOF", f)
  BY <1>1, <1>4, WritesFooter
<1>8. ASSUME NEW c \in 0..FtrLen, Grown(vms, vms', c, "VEOF", f)
      PROVE  /\ Laid(vms', n, IdxLen(n), c, TRUE) /\ vms' \in Seq(Cells)
             /\ synced' \in 0..Len(vms')
  <2>1. Laid(vms', n, IdxLen(n), c, TRUE)
    BY <1>1, <1>2, <1>4, <1>8, GrownByFooter
  <2>2. vms' \in Seq(Cells) /\ Len(vms') = Len(vms) + c /\ c \in Nat
    BY <1>2, <1>8 DEF Grown
  <2>3. synced' \in 0..Len(vms')
    BY <1>1, <2>2
  <2> QED
    BY <2>1, <2>2, <2>3
<1>9. CASE vms' = vms \o chunk /\ pc' = "r_sync" /\ UNCHANGED <<job, faults>>
  <2>1. Grown(vms, vms', FtrLen, "VEOF", f) /\ FtrLen \in 0..FtrLen
    <3> HIDE DEF chunk
    <3> QED
      BY <1>2, <1>7, <1>9
  <2>2. /\ Laid(vms', n, IdxLen(n), FtrLen, TRUE) /\ vms' \in Seq(Cells)
        /\ synced' \in 0..Len(vms')
    BY <1>8, <2>1
  <2>3. Repairing'
    BY <1>9 DEF Repairing
  <2> QED
    BY <1>1, <1>3, <1>9, <2>2, <2>3, RepairGoesOn
<1>10. CASE RepairFails /\ \E part \in Torn(chunk) : vms' = vms \o part
  <2>1. PICK c \in 0..(FtrLen - 1) : Grown(vms, vms', c, "VEOF", f)
    <3> HIDE DEF chunk
    <3> QED
      BY <1>7, <1>10
  <2>2. c \in 0..FtrLen /\ c \in Nat
    BY <1>2
  <2>3. /\ Laid(vms', n, IdxLen(n), c, TRUE) /\ vms' \in Seq(Cells)
        /\ synced' \in 0..Len(vms')
    BY <1>8, <2>1, <2>2
  <2>4. Shaped(vms', n)
    <3>1. TRUE \in BOOLEAN
      OBVIOUS
    <3> QED
      BY <1>2, <2>2, <2>3, <3>1 DEF Shaped, LaidSomehow
  <2> QED
    BY <1>1, <1>3, <1>10, <2>3, <2>4, RepairFailsSteps
<1> QED
  BY <1>9, <1>10 DEF RepairFooter

LEMMA RepairEndSteps ==
  ASSUME PowerAlone, Typed, NEW n \in Nat, NEW m \in Nat, Good(n, m),
         RepairSync \/ RepairDelete
  PROVE  Steps(n)
<1>1. /\ pc \in {"r_sync", "r_delete"} /\ vms' = vms /\ w' = w /\ Repairing
      /\ Laid(vms, n, IdxLen(n), FtrLen, TRUE) /\ vms \in Seq(Cells)
      /\ synced' \in 0..Len(vms')
  <2>1. pc \in {"r_sync", "r_delete"} /\ vms' = vms /\ w' = w
    BY DEF RepairSync, RepairDelete
  <2>2. Laid(vms, n, IdxLen(n), FtrLen, TRUE) /\ Repairing
    BY <2>1 DEF Good, At, Repairing
  <2>3. synced' \in {synced, Len(vms)} /\ synced \in 0..Len(vms) /\ vms \in Seq(Cells)
    BY DEF RepairSync, RepairDelete, Typed
  <2>4. synced' \in 0..Len(vms')
    BY <2>1, <2>3
  <2> QED
    BY <2>1, <2>2, <2>3, <2>4
<1>2. Shaped(vms, n)
  BY AlwaysShaped DEF Good
<1>3. CASE RepairSync
  <2>1. CASE RepairFails
    BY <1>1, <1>2, <1>3, <2>1, RepairFailsSteps DEF RepairSync
  <2>2. CASE pc' = "r_delete" /\ UNCHANGED <<job, faults>>
    <3>1. Repairing'
      BY <2>2 DEF Repairing
    <3> QED
      BY <1>1, <1>3, <2>2, <3>1, RepairGoesOn DEF RepairSync
  <2> QED
    BY <1>3, <2>1, <2>2 DEF RepairSync
<1>4. CASE RepairDelete
  <2>1. sidecar' = NoSidecar /\ pc' = "ready" /\ job' = NoJob /\ faults' = faults
    BY <1>4 DEF RepairDelete
  <2>2. Typed'
    BY <1>1, <2>1, Nones DEF Typed, Place
  <2>3. At(n, 0)'
    BY <1>1, <1>2, <2>1, Nones DEF At, Repairing
  <2>4. Covers(sidecar'.batches, 0)
    BY <2>1, Nones, CoversNothing
  <2>5. Good(n, 0)'
    BY <2>3, <2>4 DEF Good
  <2> QED
    BY <1>1, <2>1, <2>2, <2>5 DEF Steps, Goes
<1> QED
  BY <1>3, <1>4

-----------------------------------------------------------------------------
(* All of them together *)

LEMMA StepsKeep ==
  ASSUME PowerAlone, Typed, NEW n \in Nat, NEW m \in Nat, Good(n, m), Next
  PROVE  Steps(n)
<1>1. CASE WriteHeader
  BY <1>1, HeaderSteps
<1>2. CASE WriteBlock
  BY <1>2, BlockSteps
<1>3. CASE WriteBlockFails
  BY <1>3, BlockFailsSteps
<1>4. CASE WriteBatch \/ CloseFlush
  BY <1>4, FlushSteps
<1>5. CASE CloseIndex
  BY <1>5, IndexSteps
<1>6. CASE CloseFooter
  BY <1>6, FooterSteps
<1>7. CASE CloseSync \/ CloseSidecar
  BY <1>7, SyncSteps
<1>8. CASE Kill \/ Shutdown
  BY <1>8, StopSteps
<1>9. CASE PowerLoss
  BY <1>9, PowerSteps
<1>10. CASE Boot
  BY <1>10, BootSteps
<1>11. CASE RepairTruncate
  BY <1>11, TruncateSteps
<1>12. CASE RepairIndex
  BY <1>12, RepairIndexSteps
<1>13. CASE RepairFooter
  BY <1>13, RepairFooterSteps
<1>14. CASE RepairSync \/ RepairDelete
  BY <1>14, RepairEndSteps
<1> QED
  BY <1>1, <1>2, <1>3, <1>4, <1>5, <1>6, <1>7, <1>8, <1>9, <1>10, <1>11, <1>12,
     <1>13, <1>14 DEF Next, Repair

LEMMA Starts ==
  ASSUME Init
  PROVE  Typed /\ Good(0, 0)
<1>1. /\ vms = <<>> /\ synced = 0 /\ sidecar = NoSidecar /\ pc = "header"
      /\ w = NoWriter /\ job = NoJob /\ faults = [k \in Fault |-> 0]
  BY DEF Init
<1>2. Typed
  <2>1. vms \in Seq(Cells) /\ Len(vms) = 0 /\ synced \in 0..Len(vms)
    BY <1>1
  <2>2. faults \in [Fault -> Nat]
    BY <1>1
  <2> QED
    BY <1>1, <2>1, <2>2, Nones DEF Typed, Place
<1>3. At(0, 0)
  BY <1>1 DEF At, Repairing, NoJob
<1>4. Covers(sidecar.batches, 0)
  BY <1>1, CoversNothing DEF NoSidecar
<1> QED
  BY <1>2, <1>3, <1>4 DEF Good

LEMMA Unmoved ==
  ASSUME IInv, UNCHANGED vars
  PROVE  IInv'
<1>1. Typed'
  BY DEF IInv, Typed, vars
<1>2. PICK n \in Nat, m \in Nat : Good(n, m)
  BY DEF IInv
<1>3. Good(n, m)'
  <2>1. /\ vms' = vms /\ sidecar' = sidecar /\ pc' = pc /\ w' = w /\ job' = job
        /\ faults' = faults
    BY DEF vars
  <2>2. At(n, m) /\ Covers(sidecar.batches, m) /\ (m <= n \/ Ahead(n, m))
    BY <1>2 DEF Good
  <2>3. Writing(n, m)' <=> Writing(n, m)
    BY <2>1 DEF Writing
  <2>4. Repairing' <=> Repairing
    BY <2>1 DEF Repairing
  <2>5. At(n, m)'
    <3>1. /\ pc' = "header" => vms' = <<>> /\ w' = NoWriter /\ n = 0
          /\ pc' \in {"rec", "batch", "c_index"} =>
               Laid(vms', n, 0, 0, FALSE) /\ Writing(n, m)'
          /\ pc' = "dropped" => Broken(vms', n)
          /\ pc' = "closed" => LaidSomehow(vms', n)
          /\ pc' \in {"down", "ready"} => Shaped(vms', n)
          /\ pc' = "r_trunc" => Shaped(vms', n) /\ vms' # <<>> /\ ~HasFooter(vms')
          /\ pc' = "r_index" => Laid(vms', n, 0, 0, FALSE)
          /\ pc' = "r_footer" => Laid(vms', n, IdxLen(n), 0, FALSE)
          /\ pc' \in {"r_sync", "r_delete"} => Laid(vms', n, IdxLen(n), FtrLen, TRUE)
      BY <2>1, <2>2, <2>3 DEF At
    <3>2. pc' = "c_footer" =>
            \E a \in Nat : /\ Laid(vms', n, a, 0, FALSE) /\ Writing(n, m)'
                           /\ job'.ioff # 0 => /\ a = IdxLen(n) /\ n >= 1 /\ ~w'.overflow
                                               /\ job'.ioff = MediaEnd(n)
      BY <2>1, <2>2, <2>3 DEF At
    <3>3. pc' \in {"c_sync", "c_sidecar"} =>
            \E a, b \in Nat : Laid(vms', n, a, b, job'.ioff # 0) /\ (job'.ftr => b = FtrLen)
      BY <2>1, <2>2 DEF At
    <3>4. /\ Repairing' => n >= 1 /\ job'.index = Ix(n) /\ job'.end = MediaEnd(n)
          /\ pc' \in {"header", "rec", "batch", "c_index"} => job' = NoJob
          /\ pc' = "c_footer" => ~job'.ftr
          /\ ~Repairing' => job'.end = 0
      BY <2>1, <2>2, <2>4 DEF At
    <3> QED
      BY <3>1, <3>2, <3>3, <3>4 DEF At
  <2>6. Covers(sidecar.batches, m)'
    BY <2>1, <2>2
  <2>7. (m <= n \/ Ahead(n, m))'
    BY <2>1, <2>2, <2>4 DEF Ahead
  <2> QED
    BY <2>5, <2>6, <2>7 DEF Good
<1> QED
  BY <1>1, <1>3 DEF IInv

\* The invariant is inductive, as long as a power loss is the only fault.
LEMMA Inductive ==
  ASSUME PowerAlone
  PROVE  Spec => []IInv
<1>1. Init => IInv
  BY Starts DEF IInv
<1>2. ASSUME IInv, [Next]_vars PROVE IInv'
  <2>1. CASE Next
    <3>1. Typed /\ \E n, m \in Nat : Good(n, m)
      BY <1>2 DEF IInv
    <3>2. PICK n \in Nat, m \in Nat : Good(n, m)
      BY <3>1
    <3>3. Steps(n)
      BY <2>1, <3>1, <3>2, StepsKeep
    <3> QED
      BY <3>3 DEF Steps, IInv
  <2>2. CASE UNCHANGED vars
    BY <1>2, <2>2, Unmoved
  <2> QED
    BY <1>2, <2>1, <2>2
<1> QED
  BY <1>1, <1>2, PTL DEF Spec

-----------------------------------------------------------------------------
(* What follows from it *)

LEMMA Types ==
  ASSUME IInv
  PROVE  TypeOK
<1>1. Typed
  BY DEF IInv
<1>2. PICK n \in Nat, m \in Nat : Good(n, m)
  BY DEF IInv
<1>3. \A i \in 1..Len(vms) : CellOK(vms[i])
  <2>1. \A i \in 1..Len(vms) : vms[i] \in Cells
    BY <1>1 DEF Typed
  <2> QED
    BY <2>1 DEF Cells, CellOK
<1>4. job.end \in 0..Len(vms)
  <2>1. Len(vms) \in Nat /\ vms \in Seq(Cells)
    BY <1>1 DEF Typed
  <2>2. CASE ~Repairing
    <3>1. job.end = 0
      BY <1>2, <2>2 DEF Good, At
    <3> QED
      BY <2>1, <3>1
  <2>3. CASE Repairing
    <3>1. job.end = MediaEnd(n)
      BY <1>2, <2>3 DEF Good, At
    <3>2. MediaEnd(n) \in Nat
      BY Lengths
    <3>3. Holds(vms, n)
      <4>1. CASE pc = "r_trunc"
        <5>1. Shaped(vms, n) /\ vms # <<>>
          BY <1>2, <4>1 DEF Good, At
        <5> QED
          BY <2>1, <5>1, ShapedHolds DEF HoldsJust
      <4>2. CASE pc # "r_trunc"
        BY <1>2, <2>3, <4>2 DEF Good, At, Repairing, Laid
      <4> QED
        BY <4>1, <4>2
    <3>4. MediaEnd(n) <= Len(vms)
      BY <3>3 DEF Holds
    <3> QED
      BY <2>1, <3>1, <3>2, <3>4
  <2> QED
    BY <2>2, <2>3
<1>5. /\ synced \in 0..Len(vms)
      /\ sidecar.exists \in BOOLEAN
      /\ sidecar.batches # <<>> => sidecar.exists
      /\ faults \in [Fault -> Nat]
  BY <1>1 DEF Typed
<1>6. /\ w.blocks \in 0..MaxBlocks /\ Len(w.index) <= MaxIndex
      /\ w.written \in 0..MaxBlocks
      /\ w.overflow => w.index = <<>>
  BY <1>1 DEF Typed, WriterType
<1>7. pc \in Place
  BY <1>1 DEF Typed
<1> QED
  BY <1>3, <1>4, <1>5, <1>6, <1>7 DEF TypeOK, Place

LEMMA Exact ==
  ASSUME IInv
  PROVE  IndexExact /\ FooterExact
<1>1. PICK n \in Nat, m \in Nat : Good(n, m)
  BY DEF IInv
<1>2. Typed
  BY DEF IInv
<1>3. Shaped(vms, n) /\ Blocks(vms) = Ix(n) /\ vms \in Seq(Cells)
      /\ (~Repairing => EnsureIndex(vms, sidecar).index = Ix(n))
  BY <1>1, <1>2, Found DEF Typed
<1>4. ASSUME HasFooter(vms)
      PROVE  /\ FooterOf(vms).blocks = n
             /\ FooterOf(vms).ioff # 0 => FooterOf(vms).ioff = MediaEnd(n)
  BY <1>3, <1>4, Reads
<1>5. Len(Ix(n)) = n
  BY IxType
<1>6. MediaEnd(n) = HdrLen + BlkLen * n
  <2>1. BlkLen \in Nat
    BY Lengths
  <2>2. n * BlkLen = BlkLen * n
    BY <2>1
  <2> QED
    BY <2>2 DEF MediaEnd
<1> QED
  BY <1>3, <1>4, <1>5, <1>6 DEF IndexExact, FooterExact

LEMMA Behind ==
  ASSUME IInv
  PROVE  SidecarBehindMedia
<1>1. PICK n \in Nat, m \in Nat : Good(n, m)
  BY DEF IInv
<1>2. Typed
  BY DEF IInv
<1>3. Blocks(vms) = Ix(n)
  BY <1>1, <1>2, Found
<1>4. SUFFICES ASSUME faults["power"] = 0, sidecar.batches # <<>>
               PROVE  /\ IsPrefix(Entries(sidecar.batches), Blocks(vms))
                      /\ Last(sidecar.batches).valid =
                           HdrLen + BlkLen * Len(Entries(sidecar.batches))
  BY DEF SidecarBehindMedia
<1>5. Covers(sidecar.batches, m) /\ m <= n
  BY <1>1, <1>4 DEF Good, Ahead
<1>6. sidecar.batches \in Seq(BatchType) /\ Len(sidecar.batches) \in Nat
  BY <1>2 DEF Typed
<1>7. Entries(sidecar.batches) = Ix(m)
  BY <1>5, <1>6, EntriesAre
<1>8. Last(sidecar.batches).valid = MediaEnd(m)
  BY <1>4, <1>5, <1>6, CoversSome
<1>9. Len(Ix(m)) = m /\ Len(Ix(n)) = n
  BY IxType
<1>10. SubSeq(Ix(n), 1, m) = Ix(m) /\ SubSeq(Ix(m), 1, m) = Ix(m)
  <2>1. m \in 0..n /\ m \in 0..m
    BY <1>5
  <2> QED
    BY <2>1, IxPrefix
<1>11. MediaEnd(m) = HdrLen + BlkLen * m
  <2>1. BlkLen \in Nat
    BY Lengths
  <2>2. m * BlkLen = BlkLen * m
    BY <2>1
  <2> QED
    BY <2>2 DEF MediaEnd
<1> QED
  BY <1>3, <1>5, <1>7, <1>8, <1>9, <1>10, <1>11 DEF IsPrefix

LEMMA Repaired ==
  ASSUME IInv
  PROVE  RepairedIsClosed
<1>1. PICK n \in Nat, m \in Nat : Good(n, m)
  BY DEF IInv
<1>2. Typed /\ vms \in Seq(Cells)
  BY DEF IInv, Typed
<1>3. Blocks(vms) = Ix(n)
  BY <1>1, <1>2, Found
<1>4. SUFFICES ASSUME pc \in {"r_sync", "r_delete"}
               PROVE  IndexInFooter(vms) /\ EnsureIndex(vms, sidecar).index = Blocks(vms)
  BY DEF RepairedIsClosed
<1>5. Laid(vms, n, IdxLen(n), FtrLen, TRUE)
  BY <1>1, <1>4 DEF Good, At
<1>6. PICK a \in Nat : a = IdxLen(n)
  BY DEF IdxLen
<1>7. Laid(vms, n, a, FtrLen, TRUE)
  BY <1>5, <1>6
<1>8. \A sc : IndexInFooter(vms)
             /\ EnsureIndex(vms, sc) = [index |-> Ix(n), upto |-> MediaEnd(n)]
  BY <1>2, <1>7, EnsureByFooter, Zenon
<1> QED
  BY <1>3, <1>8

\* What a reader finds now, and after a step.
Finds(n) ==
  /\ Blocks(vms) = Ix(n)
  /\ ~Repairing => EnsureIndex(vms, sidecar).index = Ix(n)
  /\ Repairing => job.index = Ix(n)

LEMMA Finding ==
  \A n, m \in Nat : Typed /\ Good(n, m) => Finds(n)
<1> SUFFICES ASSUME NEW n \in Nat, NEW m \in Nat, Typed, Good(n, m)
             PROVE  Finds(n)
  OBVIOUS
<1>1. Repairing => job.index = Ix(n)
  BY DEF Good, At
<1> QED
  BY <1>1, Found DEF Finds

LEMMA FindingNext ==
  (\A n, m \in Nat : Typed /\ Good(n, m) => Finds(n))'
BY Finding, PTL

\* No block is lost but by a power loss, whatever step it is.
LEMMA StepKeepsBlocks ==
  ASSUME PowerAlone, IInv, [Next]_vars
  PROVE  faults'["power"] = faults["power"] => IsPrefix(Blocks(vms), Blocks(vms'))
<1>1. PICK n \in Nat, m \in Nat : Good(n, m)
  BY DEF IInv
<1>2. Typed
  BY DEF IInv
<1>3. Blocks(vms) = Ix(n) /\ Len(Ix(n)) = n /\ SubSeq(Ix(n), 1, n) = Ix(n)
  <2>1. n \in 0..n
    OBVIOUS
  <2>2. Len(Ix(n)) = n
    BY IxType
  <2>3. SubSeq(Ix(n), 1, n) = Ix(n)
    BY <2>1, IxPrefix
  <2> QED
    BY <1>1, <1>2, <2>2, <2>3, Found
<1>4. CASE Next
  <2>1. PICK v \in Nat, q \in Nat : Good(v, q)' /\ Goes(n, v) /\ Typed'
    BY <1>1, <1>2, <1>4, StepsKeep DEF Steps
  <2>2. Blocks(vms)' = Ix(v)
    BY <2>1, FindingNext DEF Finds
  <2>3. ASSUME faults'["power"] = faults["power"] PROVE n <= v
    <3>1. faults["power"] \in Nat
      BY <1>2 DEF Typed, Fault
    <3> QED
      BY <2>1, <2>3, <3>1 DEF Goes
  <2>4. ASSUME faults'["power"] = faults["power"]
        PROVE  Len(Ix(v)) = v /\ SubSeq(Ix(v), 1, n) = Ix(n)
    <3>1. n \in 0..v
      BY <2>3, <2>4
    <3>2. Len(Ix(v)) = v
      BY IxType
    <3>3. SubSeq(Ix(v), 1, n) = Ix(n)
      BY <3>1, IxPrefix
    <3> QED
      BY <3>2, <3>3
  <2> QED
    BY <1>3, <2>2, <2>3, <2>4 DEF IsPrefix
<1>5. CASE UNCHANGED vars
  <2>1. vms' = vms
    BY <1>5 DEF vars
  <2> QED
    BY <1>3, <2>1 DEF IsPrefix
<1> QED
  BY <1>4, <1>5

\* The sidecar goes, while the file is being closed, with the index in.
LEMMA StepKeepsSidecar ==
  ASSUME IInv, [Next]_vars
  PROVE  pc = "c_sidecar" /\ sidecar.exists /\ ~sidecar'.exists => IndexInFooter(vms)
<1> SUFFICES ASSUME pc = "c_sidecar", sidecar.exists, ~sidecar'.exists
             PROVE  IndexInFooter(vms)
  OBVIOUS
<1>1. PICK n \in Nat, m \in Nat : Good(n, m)
  BY DEF IInv
<1>2. vms \in Seq(Cells)
  BY DEF IInv, Typed
<1>3. sidecar' # sidecar /\ ~(sidecar'.exists = sidecar.exists)
  OBVIOUS
<1>4. Next
  BY <1>3 DEF vars
<1>5. CloseSidecar \/ Kill \/ PowerLoss
  BY <1>4 DEF Next, WriteHeader, WriteBlock, WriteBlockFails, WriteBatch, CloseFlush,
     CloseIndex, CloseFooter, CloseSync, Shutdown, Boot, BootNoSidecar, BootDrop,
     BootPending, Repair, RepairTruncate, RepairIndex, RepairFooter, RepairSync,
     RepairDelete
<1>6. ~Kill
  BY <1>3 DEF Kill
<1>7. ~PowerLoss
  <2>1. sidecar \in [exists : BOOLEAN, batches : Seq(BatchType)]
    BY DEF IInv, Typed
  <2> QED
    BY <1>3, <2>1 DEF PowerLoss
<1>8. job.ftr /\ job.ioff # 0
  BY <1>3, <1>5, <1>6, <1>7 DEF CloseSidecar
<1>9. PICK a \in Nat, b \in Nat : Laid(vms, n, a, b, job.ioff # 0) /\ (job.ftr => b = FtrLen)
  BY <1>1 DEF Good, At
<1>10. Laid(vms, n, a, FtrLen, TRUE)
  BY <1>8, <1>9
<1> QED
  BY <1>2, <1>10, EnsureByFooter

\* A step is one of the view, or none.
LEMMA StepIsViews ==
  ASSUME PowerAlone, IInv, [Next]_vars
  PROVE  [View!Next]_(View!vars)
<1> DEFINE Log(q) == [i \in 1..Len(q) |-> q[i].id]
           Ids(n) == [i \in 1..n |-> i]
<1>1. PICK n \in Nat, m \in Nat : Good(n, m)
  BY DEF IInv
<1>2. Typed
  BY DEF IInv
<1>3. ASSUME NEW v \in Nat
      PROVE  /\ Log(Ix(v)) = Ids(v) /\ Ids(v) \in Seq(Nat) /\ Len(Ids(v)) = v
             /\ \A i \in 1..v : Ids(v)[i] = i
  <2>1. Len(Ix(v)) = v /\ \A j \in 1..v : Ix(v)[j] = Entry(MediaEnd(j - 1), j)
    BY IxType
  <2>2. \A j \in 1..v : Ix(v)[j].id = j
    BY <2>1 DEF Entry
  <2>3. Log(Ix(v)) = Ids(v)
    BY <2>1, <2>2
  <2> QED
    BY <2>3
<1>4. Seen = Ix(n)
  BY <1>1, <1>2, Finding DEF Finds, Seen
<1>5. CASE UNCHANGED vars
  <2>1. Seen' = Seen /\ vms' = vms /\ faults' = faults
    BY <1>5 DEF vars, Seen, Repairing
  <2> QED
    BY <2>1 DEF View!vars
<1>6. CASE Next
  <2>1. PICK v \in Nat, q \in Nat : Good(v, q)' /\ Goes(n, v) /\ Typed'
    BY <1>1, <1>2, <1>6, StepsKeep DEF Steps
  <2>2. Seen' = Ix(v)
    BY <2>1, FindingNext DEF Finds, Seen
  <2>3. Log(Seen) = Ids(n) /\ Log(Seen') = Ids(v)
    BY <1>3, <1>4, <2>2
  <2>4. HasFooter(vms) \in BOOLEAN /\ HasFooter(vms') \in BOOLEAN
    BY DEF HasFooter
  <2> DEFINE log == Log(Seen)
             nxt == Log(Seen')
             was == HasFooter(vms)
             is == HasFooter(vms')
  <2>5. CASE faults'["power"] = faults["power"] /\ v = n /\ (was => is)
    <3>1. nxt = log
      BY <2>3, <2>5
    <3>2. is = was \/ (~was /\ is = TRUE)
      BY <2>4, <2>5
    <3> QED
      BY <2>5, <3>1, <3>2 DEF View!Next, View!Close, View!vars
  <2>6. CASE faults'["power"] = faults["power"] /\ v = n + 1 /\ ~was /\ ~is
    <3>1. Append(Ids(n), n + 1) = Ids(n + 1)
      <4>1. /\ Append(Ids(n), n + 1) \in Seq(Nat) /\ Len(Append(Ids(n), n + 1)) = n + 1
            /\ \A i \in 1..(n + 1) : Append(Ids(n), n + 1)[i] = i
        BY <1>3
      <4>2. /\ Ids(n + 1) \in Seq(Nat) /\ Len(Ids(n + 1)) = n + 1
            /\ \A i \in 1..(n + 1) : Ids(n + 1)[i] = i
        BY <1>3
      <4> HIDE DEF Ids
      <4> QED
        BY <4>1, <4>2, SeqEqual
    <3>2. Len(log) = n
      BY <1>3, <2>3
    <3>3. nxt = Append(log, Len(log) + 1)
      BY <2>3, <2>6, <3>1, <3>2
    <3>4. is = was
      BY <2>4, <2>6
    <3> QED
      BY <2>6, <3>3, <3>4 DEF View!Next, View!Record
  <2>7. CASE /\ faults'["power"] = faults["power"] + 1 /\ v <= n
             /\ is => v = n /\ was
    <3>1. SubSeq(Ids(n), 1, v) = Ids(v)
      <4>1. \A i \in 1..v : Ids(n)[i] = i /\ Ids(n)[i] \in Nat
        BY <1>3, <2>7
      <4>2. /\ SubSeq(Ids(n), 1, v) \in Seq(Nat) /\ Len(SubSeq(Ids(n), 1, v)) = v
            /\ \A i \in 1..v : SubSeq(Ids(n), 1, v)[i] = i
        BY <1>3, <2>7, <4>1, SubSeqProperties
      <4>3. /\ Ids(v) \in Seq(Nat) /\ Len(Ids(v)) = v /\ \A i \in 1..v : Ids(v)[i] = i
        BY <1>3
      <4> HIDE DEF Ids
      <4> QED
        BY <4>2, <4>3, SeqEqual
    <3>2. Len(log) = n /\ v \in 0..Len(log)
      BY <1>3, <2>3, <2>7
    <3>3. nxt = SubSeq(log, 1, v)
      BY <2>3, <3>1
    <3>4. is \in {was, FALSE}
      BY <2>4, <2>7
    <3>5. is => nxt = log
      BY <2>3, <2>7
    <3> QED
      BY <2>7, <3>2, <3>3, <3>4, <3>5 DEF View!Next, View!Lose
  <2> QED
    BY <2>1, <2>5, <2>6, <2>7 DEF Goes
<1> QED
  BY <1>5, <1>6

LEMMA StartIsViews ==
  ASSUME Init
  PROVE  View!Init
<1>1. Typed /\ Good(0, 0) /\ pc = "header" /\ vms = <<>> /\ faults["power"] = 0
  BY Starts DEF Init, Fault
<1>2. Seen = Ix(0)
  BY <1>1, Finding DEF Finds, Seen
<1>3. Seen = <<>>
  BY <1>2 DEF Ix
<1>4. ~HasFooter(vms)
  BY <1>1, RecordingFileAssumption DEF HasFooter
<1>5. HasFooter(vms) = FALSE
  BY <1>4 DEF HasFooter
<1> QED
  BY <1>1, <1>3, <1>5 DEF View!Init

-----------------------------------------------------------------------------
(* The recorder *)

\* What the recorder keeps, and the states its helpers go through.
Filed == [video : Nat, audio : Nat, blocks : Seq(Seq(Nat)),
          state : {"open", "closed", "dropped"}]
Inners == [video : Nat, audio : Nat, firstMs : Nat, pending : Seq(Nat),
         open : BOOLEAN, writer : Nat, current : Nat, startedMs : Nat,
         block : Seq(Nat), blockMs : Nat]
States == [rec : Inners, disk : Seq(Filed), faults : Nat]

\* The samples of a file, and of them all.
Of(file) == UNION {RD!ToSet(file.blocks[i]) : i \in DOMAIN file.blocks}
All(d) == UNION {Of(d[f]) : f \in DOMAIN d}

\* A sample of the list T that belongs in a file with this header.
Fits(n, video, audio, T) ==
  /\ n \in DOMAIN T
  /\ T[n].session = video
  /\ T[n].track = "audio" => T[n].session = audio

HeaderAudio(r) == IF RecordAudio THEN r.audio ELSE 0

\* One file is in order, and what it holds is before m and what its header says.
FileGood(file, T, s, m) ==
  /\ {file.video, file.audio} \subseteq 0..s
  /\ \A i \in DOMAIN file.blocks :
       /\ Len(file.blocks[i]) \in 1..BlockSamples
       /\ RD!InTurn(file.blocks[i])
       /\ \A j \in DOMAIN file.blocks :
            i < j => RD!Before(RD!ToSet(file.blocks[i]), RD!ToSet(file.blocks[j]))
  /\ \A n \in Of(file) : n < m /\ Fits(n, file.video, file.audio, T)

DiskGood(d, T, s, m) ==
  /\ d \in Seq(Filed)
  /\ \A f \in DOMAIN d : FileGood(d[f], T, s, m)
  /\ \A f, g \in DOMAIN d : f < g => RD!Before(Of(d[f]), Of(d[g]))

\* The file being written is the last, it alone is open, and its header is of
\* the formats the recorder has.
WriterGood(r, d) ==
  /\ r.writer \in {0, Len(d)} /\ r.current \in 0..Len(d)
  /\ \A f \in DOMAIN d : d[f].state = "open" <=> f = r.writer
  /\ r.writer # 0 => /\ r.current = r.writer
                     /\ d[r.writer].video = r.video
                     /\ d[r.writer].audio = HeaderAudio(r)

\* All but the block being built.
Sound(t, T, s, m) ==
  /\ t \in States
  /\ {t.rec.video, t.rec.audio} \subseteq 0..s
  /\ DiskGood(t.disk, T, s, m)
  /\ WriterGood(t.rec, t.disk)

\* A block, built or being built: it follows all there is on disk.
Follows(block, t, T, m) ==
  /\ block \in Seq(Nat)
  /\ RD!InTurn(block)
  /\ RD!Before(All(t.disk), RD!ToSet(block))
  /\ \A n \in RD!ToSet(block) :
       n < m /\ Fits(n, t.rec.video, HeaderAudio(t.rec), T)

Whole(t, T, s, m) ==
  /\ Sound(t, T, s, m)
  /\ Follows(t.rec.block, t, T, m)
  /\ Len(t.rec.block) < BlockSamples

\* What a write leaves as it was.
Same(t, u) ==
  /\ u.rec.video = t.rec.video /\ u.rec.audio = t.rec.audio
  /\ u.rec.firstMs = t.rec.firstMs /\ u.rec.pending = t.rec.pending
  /\ u.rec.open = t.rec.open
  /\ u.rec.block = t.rec.block /\ u.rec.blockMs = t.rec.blockMs

\* Files one by one

LEMMA EmptyFile ==
  ASSUME NEW r, NEW T, NEW s \in Nat, NEW m, {r.video, r.audio} \subseteq 0..s
  PROVE  /\ RD!NewFile(r) \in Filed
         /\ FileGood(RD!NewFile(r), T, s, m)
         /\ Of(RD!NewFile(r)) = {}
<1>1. RD!NewFile(r).blocks = <<>> /\ DOMAIN <<>> = {}
  BY DEF RD!NewFile
<1>2. Of(RD!NewFile(r)) = {}
  BY <1>1 DEF Of
<1>3. r.video \in Nat /\ r.audio \in Nat /\ <<>> \in Seq(Seq(Nat))
  OBVIOUS
<1>4. RD!NewFile(r) \in Filed
  BY <1>3 DEF RD!NewFile, Filed
<1>5. {RD!NewFile(r).video, RD!NewFile(r).audio} \subseteq 0..s
  BY DEF RD!NewFile
<1> QED
  BY <1>1, <1>2, <1>4, <1>5 DEF FileGood

LEMMA Places ==
  ASSUME NEW file \in Filed
  PROVE  /\ file.blocks \in Seq(Seq(Nat))
         /\ DOMAIN file.blocks = 1..Len(file.blocks)
         /\ Of(file) \subseteq Nat
<1>1. file.blocks \in Seq(Seq(Nat))
  BY DEF Filed
<1>2. ASSUME NEW i \in DOMAIN file.blocks PROVE RD!ToSet(file.blocks[i]) \subseteq Nat
  <2>1. file.blocks[i] \in Seq(Nat)
    BY <1>1
  <2> QED
    BY <2>1 DEF RD!ToSet
<1>3. DOMAIN file.blocks = 1..Len(file.blocks)
  BY <1>1
<1> QED
  BY <1>1, <1>2, <1>3 DEF Of

\* A block that may go into a file, and the file with it.
Suits(block, file, T, k) ==
  /\ block \in Seq(Nat) /\ Len(block) \in 1..BlockSamples
  /\ RD!InTurn(block) /\ RD!Before(Of(file), RD!ToSet(block))
  /\ \A n \in RD!ToSet(block) : n < k /\ Fits(n, file.video, file.audio, T)

Longer(file, block) == [file EXCEPT !.blocks = Append(@, block)]

LEMMA LongerHolds ==
  ASSUME NEW file \in Filed, NEW block \in Seq(Nat)
  PROVE  /\ Longer(file, block) \in Filed
         /\ Longer(file, block).video = file.video
         /\ Longer(file, block).audio = file.audio
         /\ LET bs == file.blocks
                cs == Longer(file, block).blocks
            IN  /\ DOMAIN cs = DOMAIN bs \cup {Len(bs) + 1} /\ DOMAIN bs = 1..Len(bs)
                /\ \A i \in DOMAIN bs : cs[i] = bs[i]
                /\ cs[Len(bs) + 1] = block /\ Len(bs) \in Nat
         /\ Of(Longer(file, block)) = Of(file) \cup RD!ToSet(block)
<1> DEFINE longer == Longer(file, block)
           bs == file.blocks
           cs == longer.blocks
<1>0. file.blocks \in Seq(Seq(Nat)) /\ Of(file) \subseteq Nat 
  BY Places
<1>1. bs \in Seq(Seq(Nat)) /\ cs = Append(bs, block)
  BY <1>0 DEF Filed, Longer
<1>2. /\ cs \in Seq(Seq(Nat)) /\ Len(cs) = Len(bs) + 1
      /\ DOMAIN cs = DOMAIN bs \cup {Len(bs) + 1} /\ DOMAIN bs = 1..Len(bs)
      /\ \A i \in DOMAIN bs : cs[i] = bs[i]
      /\ cs[Len(bs) + 1] = block /\ Len(bs) \in Nat
  <2> HIDE DEF bs, cs
  <2>1. bs \in Seq(Seq(Nat)) /\ block \in Seq(Nat)
    BY <1>0, <1>1
  <2>2. DOMAIN bs = 1..Len(bs) /\ DOMAIN cs = 1..Len(cs) /\ Len(bs) \in Nat
    BY <1>1, <2>1, AppendProperties
  <2> QED
    BY <1>1, <2>1, <2>2, AppendProperties
<1>3. longer \in Filed /\ longer.video = file.video /\ longer.audio = file.audio
  BY <1>1, <1>2 DEF Filed, Longer
<1> HIDE DEF longer
<1>4. Of(longer) = Of(file) \cup RD!ToSet(block)
  BY <1>2 DEF Of
<1> QED
  BY <1>1, <1>2, <1>3, <1>4 DEF longer

LEMMA LongerFile ==
  ASSUME NEW file \in Filed, NEW T, NEW s \in Nat, NEW m \in Nat, NEW k \in Nat, m <= k,
         FileGood(file, T, s, m), NEW block, Suits(block, file, T, k)
  PROVE  FileGood(Longer(file, block), T, s, k)
<1> DEFINE longer == Longer(file, block)
           bs == file.blocks
           cs == longer.blocks
<1>0. block \in Seq(Nat)
  BY DEF Suits
<1>2. /\ DOMAIN cs = DOMAIN bs \cup {Len(bs) + 1} /\ DOMAIN bs = 1..Len(bs)
      /\ \A i \in DOMAIN bs : cs[i] = bs[i]
      /\ cs[Len(bs) + 1] = block /\ Len(bs) \in Nat
  BY <1>0, LongerHolds
<1>3. longer.video = file.video /\ longer.audio = file.audio
  BY <1>0, LongerHolds
<1>4. Of(longer) = Of(file) \cup RD!ToSet(block)
  BY <1>0, LongerHolds
<1>1. Of(file) \subseteq Nat
  BY Places
<1> HIDE DEF longer
<1>5. \A i \in DOMAIN bs : RD!ToSet(bs[i]) \subseteq Of(file)
  BY DEF Of
<1>6. ASSUME NEW i \in DOMAIN cs, NEW j \in DOMAIN cs, i < j
      PROVE  RD!Before(RD!ToSet(cs[i]), RD!ToSet(cs[j]))
  <2>1. i \in DOMAIN bs
    BY <1>2, <1>6
  <2>2. CASE j \in DOMAIN bs
    BY <1>2, <1>6, <2>1, <2>2 DEF FileGood
  <2>3. CASE j = Len(bs) + 1
    <3>1. RD!Before(RD!ToSet(bs[i]), RD!ToSet(block))
      BY <1>5, <2>1 DEF RD!Before, Suits
    <3> QED
      BY <1>2, <2>1, <2>3, <3>1
  <2> QED
    BY <1>2, <2>2, <2>3
<1>7. \A i \in DOMAIN cs : Len(cs[i]) \in 1..BlockSamples /\ RD!InTurn(cs[i])
  BY <1>2 DEF FileGood, Suits
<1>8. \A n \in Of(file) : n < k /\ Fits(n, file.video, file.audio, T)
  <2> SUFFICES ASSUME NEW n \in Of(file) PROVE n < k /\ Fits(n, file.video, file.audio, T)
    OBVIOUS
  <2>1. n \in Nat /\ n < m /\ Fits(n, file.video, file.audio, T)
    BY <1>1 DEF FileGood
  <2> QED
    BY <2>1
<1>9. \A n \in Of(longer) : n < k /\ Fits(n, longer.video, longer.audio, T)
  BY <1>3, <1>4, <1>8 DEF Suits
<1> QED
  BY <1>3, <1>4, <1>6, <1>7, <1>9 DEF FileGood, longer

\* The files on the disk

LEMMA AnotherFile ==
  ASSUME NEW d, NEW T, NEW s \in Nat, NEW m, DiskGood(d, T, s, m),
         NEW r, {r.video, r.audio} \subseteq 0..s
  PROVE  /\ DiskGood(Append(d, RD!NewFile(r)), T, s, m)
         /\ All(Append(d, RD!NewFile(r))) = All(d)
<1> DEFINE e == Append(d, RD!NewFile(r))
<1>1. /\ RD!NewFile(r) \in Filed /\ FileGood(RD!NewFile(r), T, s, m)
      /\ Of(RD!NewFile(r)) = {}
  BY EmptyFile
<1>2. /\ e \in Seq(Filed) /\ Len(e) = Len(d) + 1
      /\ DOMAIN e = DOMAIN d \cup {Len(d) + 1} /\ DOMAIN d = 1..Len(d)
      /\ \A f \in DOMAIN d : e[f] = d[f]
      /\ e[Len(d) + 1] = RD!NewFile(r)
  BY <1>1 DEF DiskGood
<1> HIDE DEF e
<1>3. \A f \in DOMAIN e : FileGood(e[f], T, s, m)
  BY <1>1, <1>2 DEF DiskGood
<1>4. ASSUME NEW f \in DOMAIN e, NEW g \in DOMAIN e, f < g
      PROVE  RD!Before(Of(e[f]), Of(e[g]))
  <2>1. f \in DOMAIN d
    BY <1>2, <1>4
  <2>2. CASE g \in DOMAIN d
    BY <1>2, <1>4, <2>1, <2>2 DEF DiskGood
  <2>3. CASE g = Len(d) + 1
    BY <1>1, <1>2, <2>3 DEF RD!Before
  <2> QED
    BY <1>2, <2>2, <2>3
<1>5. All(e) = All(d)
  BY <1>1, <1>2 DEF All
<1> QED
  BY <1>2, <1>3, <1>4, <1>5 DEF DiskGood, e

\* A file changes its state, the last gets a block.
Marked(d, f, x) == [d EXCEPT ![f].state = x]

LEMMA AnotherState ==
  ASSUME NEW d, NEW T, NEW s \in Nat, NEW m, DiskGood(d, T, s, m),
         NEW f \in DOMAIN d, NEW x \in {"open", "closed", "dropped"}
  PROVE  DiskGood(Marked(d, f, x), T, s, m) /\ All(Marked(d, f, x)) = All(d)
<1> DEFINE e == Marked(d, f, x)
<1>1. d \in Seq(Filed) /\ d[f] \in Filed /\ DOMAIN d = 1..Len(d)
  BY DEF DiskGood
<1>2. [d[f] EXCEPT !.state = x] \in Filed
  BY <1>1 DEF Filed
<1>3. e \in Seq(Filed) /\ DOMAIN e = DOMAIN d
  BY <1>1, <1>2 DEF Marked
<1>4. \A g \in DOMAIN d : /\ e[g].video = d[g].video /\ e[g].audio = d[g].audio
                          /\ e[g].blocks = d[g].blocks
  BY <1>1 DEF Filed, Marked
<1> HIDE DEF e
<1>5. \A g \in DOMAIN d : Of(e[g]) = Of(d[g])
  BY <1>4 DEF Of
<1>6. \A g \in DOMAIN e : FileGood(e[g], T, s, m)
  BY <1>3, <1>4, <1>5 DEF DiskGood, FileGood
<1>7. \A g, h \in DOMAIN e : g < h => RD!Before(Of(e[g]), Of(e[h]))
  BY <1>3, <1>5 DEF DiskGood
<1>8. All(e) = All(d)
  BY <1>3, <1>5 DEF All
<1> QED
  BY <1>3, <1>6, <1>7, <1>8 DEF DiskGood, e

LEMMA AnotherBlock ==
  ASSUME NEW d, NEW T, NEW s \in Nat, NEW m \in Nat, NEW k \in Nat, m <= k,
         DiskGood(d, T, s, m), d # <<>>, NEW f, f = Len(d), NEW block \in Seq(Nat),
         RD!InTurn(block), Len(block) \in 1..BlockSamples,
         RD!Before(All(d), RD!ToSet(block)),
         \A n \in RD!ToSet(block) : n < k /\ Fits(n, d[f].video, d[f].audio, T)
  PROVE  DiskGood([d EXCEPT ![f].blocks = Append(@, block)], T, s, k)
<1> DEFINE e == [d EXCEPT ![f].blocks = Append(@, block)]
           longer == Longer(d[f], block)
<1>1. d \in Seq(Filed) /\ f \in DOMAIN d /\ d[f] \in Filed /\ DOMAIN d = 1..Len(d)
  BY DEF DiskGood
<1>2. \A g \in DOMAIN d : Of(d[g]) \subseteq All(d)
  BY DEF All
<1>3. Suits(block, d[f], T, k)
  BY <1>1, <1>2 DEF RD!Before, Suits
<1>4. /\ longer \in Filed /\ FileGood(longer, T, s, k)
      /\ Of(longer) = Of(d[f]) \cup RD!ToSet(block)
  <2>1. FileGood(d[f], T, s, m)
    BY <1>1 DEF DiskGood
  <2> QED
    <3> HIDE DEF e
    <3> HIDE DEF longer
    <3>1. longer \in Filed /\ Of(longer) = Of(d[f]) \cup RD!ToSet(block)
      BY <1>1, LongerHolds DEF longer
    <3>2. \A x \in Filed : FileGood(x, T, s, m) /\ Suits(block, x, T, k) =>
            FileGood(Longer(x, block), T, s, k)
      BY LongerFile, Zenon
    <3> QED
      BY <1>1, <1>3, <2>1, <3>1, <3>2 DEF longer
<1>5. e = [d EXCEPT ![f] = longer]
  BY DEF Longer
<1> HIDE DEF e, longer
<1>6. /\ e \in Seq(Filed) /\ DOMAIN e = DOMAIN d /\ e[f] = longer
      /\ \A g \in DOMAIN d : g # f => e[g] = d[g]
  BY <1>1, <1>4, <1>5
<1>7. \A g \in DOMAIN d : d[g] \in Filed
  BY <1>1
<1>8. \A g \in DOMAIN d : Of(d[g]) \subseteq Nat
  BY <1>7, Places
<1>9. ASSUME NEW g \in DOMAIN d PROVE FileGood(d[g], T, s, k)
  <2>1. FileGood(d[g], T, s, m)
    BY DEF DiskGood
  <2>2. ASSUME NEW n \in Of(d[g]) PROVE n < k
    <3>1. n \in Nat /\ n < m
      BY <1>8, <2>1 DEF FileGood
    <3> QED
      BY <3>1
  <2> QED
    BY <2>1, <2>2 DEF FileGood
<1>10. ASSUME NEW g \in DOMAIN e, NEW h \in DOMAIN e, g < h
       PROVE  RD!Before(Of(e[g]), Of(e[h]))
  <2>1. g # f /\ g \in DOMAIN d /\ RD!Before(Of(d[g]), Of(d[h]))
    BY <1>1, <1>6, <1>10 DEF DiskGood
  <2>2. CASE h = f
    BY <1>2, <1>4, <1>6, <2>1, <2>2 DEF RD!Before
  <2> QED
    BY <1>6, <2>1, <2>2
<1> QED
  BY <1>4, <1>6, <1>9, <1>10 DEF DiskGood, e

\* What the helpers leave

\* Nothing but which file is open has changed.
Alike(t, u, T, s, m) ==
  Sound(u, T, s, m) /\ Same(t, u) /\ All(u.disk) = All(t.disk)

LEMMA StateTypes ==
  ASSUME NEW t \in States
  PROVE  /\ t.rec \in Inners /\ t.disk \in Seq(Filed) /\ t.faults \in Nat
         /\ DOMAIN t.disk = 1..Len(t.disk) /\ Len(t.disk) \in Nat
BY DEF States

\* All that is on disk comes before m.
LEMMA AllBelow ==
  ASSUME NEW t, NEW T, NEW s, NEW m, Sound(t, T, s, m)
  PROVE  \A n \in All(t.disk) : n \in Nat /\ n < m
<1>1. t.disk \in Seq(Filed) /\ DiskGood(t.disk, T, s, m)
  BY StateTypes DEF Sound
<1>2. ASSUME NEW f \in DOMAIN t.disk, NEW n \in Of(t.disk[f]) PROVE n \in Nat /\ n < m
  <2>1. t.disk[f] \in Filed /\ FileGood(t.disk[f], T, s, m)
    BY <1>1 DEF DiskGood
  <2> QED
    BY <1>2, <2>1, Places DEF FileGood
<1> QED
  BY <1>2 DEF All

\* Another bound of what is on disk; more samples taken, a later session.
LEMMA SoundBelow ==
  ASSUME NEW t, NEW T, NEW s, NEW m, NEW k, Sound(t, T, s, m),
         \A n \in All(t.disk) : n < k
  PROVE  Sound(t, T, s, k)
<1>1. \A f \in DOMAIN t.disk : Of(t.disk[f]) \subseteq All(t.disk)
  BY DEF All
<1>2. \A f \in DOMAIN t.disk : FileGood(t.disk[f], T, s, k)
  BY <1>1 DEF Sound, DiskGood, FileGood
<1> QED
  BY <1>2 DEF Sound, DiskGood

LEMMA SoundLater ==
  ASSUME NEW t, NEW T, NEW s, NEW m \in Nat, NEW k \in Nat, m <= k,
         Sound(t, T, s, m)
  PROVE  Sound(t, T, s, k)
<1>1. ASSUME NEW n \in All(t.disk) PROVE n < k
  <2>1. n \in Nat /\ n < m
    BY AllBelow
  <2> QED
    BY <2>1
<1> QED
  BY <1>1, SoundBelow

LEMMA FitsMore ==
  ASSUME NEW n, NEW video, NEW audio, NEW T, NEW U, Fits(n, video, audio, T),
         DOMAIN T \subseteq DOMAIN U, \A i \in DOMAIN T : U[i] = T[i]
  PROVE  Fits(n, video, audio, U)
BY DEF Fits

LEMMA SoundMore ==
  ASSUME NEW t, NEW T, NEW U, NEW s \in Nat, NEW r \in Nat, s <= r, NEW m,
         Sound(t, T, s, m),
         DOMAIN T \subseteq DOMAIN U, \A i \in DOMAIN T : U[i] = T[i]
  PROVE  Sound(t, U, r, m)
<1>1. 0..s \subseteq 0..r
  OBVIOUS
<1>2. ASSUME NEW f \in DOMAIN t.disk PROVE FileGood(t.disk[f], U, r, m)
  <2>1. FileGood(t.disk[f], T, s, m)
    BY DEF Sound, DiskGood
  <2>2. \A n \in Of(t.disk[f]) : Fits(n, t.disk[f].video, t.disk[f].audio, U)
    BY <2>1, FitsMore DEF FileGood
  <2> QED
    BY <1>1, <2>1, <2>2 DEF FileGood
<1> QED
  BY <1>1, <1>2 DEF Sound, DiskGood

LEMMA OpensFile ==
  ASSUME NEW t, NEW T, NEW s \in Nat, NEW m, Sound(t, T, s, m),
         t.rec.writer = 0, now \in Nat
  PROVE  Alike(t, RD!Opened(t), T, s, m)
<1> DEFINE u == RD!Opened(t)
           f == Len(t.disk) + 1
<1>1. t \in States /\ t.rec \in Inners /\ t.disk \in Seq(Filed) /\ Len(t.disk) \in Nat
  BY StateTypes DEF Sound
<1>2. /\ u.rec = [t.rec EXCEPT !.writer = f, !.current = f, !.startedMs = now]
      /\ u.disk = Append(t.disk, RD!NewFile(t.rec)) /\ u.faults = t.faults
      /\ u = [rec |-> u.rec, disk |-> u.disk, faults |-> u.faults]
  <2>1. PICK dd, rr : /\ dd = Append(t.disk, RD!NewFile(t.rec))
                      /\ rr = [t.rec EXCEPT !.writer = f, !.current = f, !.startedMs = now]
    OBVIOUS
  <2>2. u = [t EXCEPT !.disk = dd, !.rec = rr]
    BY <2>1 DEF RD!Opened
  <2> HIDE DEF u
  <2>3. /\ u.rec = rr /\ u.disk = dd /\ u.faults = t.faults
        /\ u = [rec |-> u.rec, disk |-> u.disk, faults |-> u.faults]
    BY <1>1, <2>2 DEF States
  <2> QED
    BY <2>1, <2>3
<1>3. {t.rec.video, t.rec.audio} \subseteq 0..s /\ DiskGood(t.disk, T, s, m)
  BY DEF Sound
<1>4. DiskGood(u.disk, T, s, m) /\ All(u.disk) = All(t.disk)
  <2> HIDE DEF u
  <2>1. DiskGood(Append(t.disk, RD!NewFile(t.rec)), T, s, m)
    BY <1>3, AnotherFile, Zenon
  <2>2. All(Append(t.disk, RD!NewFile(t.rec))) = All(t.disk)
    BY <1>3, AnotherFile, Zenon
  <2> QED
    BY <1>2, <2>1, <2>2
<1>5. /\ u.disk \in Seq(Filed) /\ Len(u.disk) = f /\ u.disk[f] = RD!NewFile(t.rec)
      /\ DOMAIN u.disk = DOMAIN t.disk \cup {f} /\ DOMAIN t.disk = 1..Len(t.disk)
      /\ \A g \in DOMAIN t.disk : u.disk[g] = t.disk[g]
  <2>1. RD!NewFile(t.rec) \in Filed
    BY <1>3, EmptyFile
  <2> QED
    BY <1>1, <1>2, <2>1
<1> HIDE DEF u
<1>6. u.rec \in Inners /\ u.rec.writer = f /\ u.rec.current = f /\ Same(t, u)
  <2>1. f \in Nat
    BY <1>1
  <2> HIDE DEF f
  <2> QED
    BY <1>1, <1>2, <2>1 DEF Inners, Same
<1>7. WriterGood(u.rec, u.disk)
  <2>1. /\ u.disk[f].state = "open" /\ u.disk[f].video = u.rec.video
        /\ u.disk[f].audio = HeaderAudio(u.rec)
    BY <1>5, <1>6 DEF RD!NewFile, Same, HeaderAudio
  <2>2. \A g \in DOMAIN t.disk : t.disk[g].state # "open"
    BY <1>1 DEF Sound, WriterGood
  <2> QED
    BY <1>1, <1>5, <1>6, <2>1, <2>2 DEF WriterGood
<1>8. u \in States
  BY <1>1, <1>2, <1>5, <1>6 DEF States
<1> QED
  BY <1>3, <1>4, <1>6, <1>7, <1>8 DEF Alike, Sound, Same, u

\* A file that is no longer written.
LEMMA LeavesFile ==
  ASSUME NEW t, NEW T, NEW s \in Nat, NEW m, Sound(t, T, s, m), t.rec.writer # 0,
         NEW x \in {"closed", "dropped"}, NEW u,
         u = [t EXCEPT !.disk[t.rec.writer].state = x, !.rec.writer = 0]
  PROVE  Alike(t, u, T, s, m) /\ u.rec.writer = 0
<1> DEFINE f == t.rec.writer
<1>1. t \in States /\ t.rec \in Inners /\ t.disk \in Seq(Filed) /\ Len(t.disk) \in Nat
  BY StateTypes DEF Sound
<1>2. /\ u.rec = [t.rec EXCEPT !.writer = 0]
      /\ u.disk = [t.disk EXCEPT ![f].state = x] /\ u.faults = t.faults
      /\ u = [rec |-> u.rec, disk |-> u.disk, faults |-> u.faults]
  BY <1>1 DEF States
<1>3. /\ {t.rec.video, t.rec.audio} \subseteq 0..s /\ DiskGood(t.disk, T, s, m)
      /\ WriterGood(t.rec, t.disk)
  BY DEF Sound
<1>4. f \in DOMAIN t.disk
  BY <1>1, <1>3 DEF WriterGood, Inners
<1>5. DiskGood(u.disk, T, s, m) /\ All(u.disk) = All(t.disk)
  <2>1. x \in {"open", "closed", "dropped"}
    OBVIOUS
  <2>2. u.disk = Marked(t.disk, f, x)
    BY <1>2 DEF Marked
  <2> QED
    BY <1>3, <1>4, <2>1, <2>2, AnotherState
<1>6. /\ u.disk \in Seq(Filed) /\ DOMAIN u.disk = DOMAIN t.disk
      /\ Len(u.disk) = Len(t.disk)
      /\ u.disk[f].state = x
      /\ \A g \in DOMAIN t.disk : g # f => u.disk[g] = t.disk[g]
  <2>1. t.disk[f] \in Filed
    BY <1>1, <1>4
  <2>2. u.disk \in Seq(Filed)
    BY <1>5 DEF DiskGood
  <2>3. DOMAIN u.disk = DOMAIN t.disk
    BY <1>2
  <2>4. Len(u.disk) = Len(t.disk)
    <3>1. DOMAIN u.disk = 1..Len(u.disk) /\ DOMAIN t.disk = 1..Len(t.disk)
      BY <1>1, <2>2
    <3> HIDE DEF f
    <3> QED
      BY <1>1, <2>2, <2>3, <3>1
  <2>5. u.disk[f] = [t.disk[f] EXCEPT !.state = x]
    BY <1>2, <1>4
  <2>6. u.disk[f].state = x
    BY <2>1, <2>5 DEF Filed
  <2>7. \A g \in DOMAIN t.disk : g # f => u.disk[g] = t.disk[g]
    BY <1>2
  <2> QED
    BY <2>2, <2>3, <2>4, <2>6, <2>7
<1>7. u.rec \in Inners /\ u.rec.writer = 0 /\ u.rec.current = t.rec.current /\ Same(t, u)
  BY <1>1, <1>2 DEF Inners, Same
<1>8. WriterGood(u.rec, u.disk)
  <2>1. \A g \in DOMAIN u.disk : u.disk[g].state # "open"
    BY <1>3, <1>6 DEF WriterGood
  <2>2. \A g \in DOMAIN u.disk : g # 0
    BY <1>1, <1>6
  <2> QED
    BY <1>3, <1>6, <1>7, <2>1, <2>2 DEF WriterGood
<1>9. u \in States
  BY <1>1, <1>2, <1>6, <1>7 DEF States
<1> QED
  BY <1>3, <1>5, <1>7, <1>8, <1>9 DEF Alike, Sound, Same

LEMMA ClosesFile ==
  ASSUME NEW t, NEW T, NEW s \in Nat, NEW m, Sound(t, T, s, m)
  PROVE  /\ Alike(t, RD!CloseFile(t), T, s, m)
         /\ RD!CloseFile(t).rec.writer = 0
<1>1. CASE t.rec.writer = 0
  BY <1>1 DEF RD!CloseFile, Alike, Same
<1>2. CASE t.rec.writer # 0
  BY <1>2, LeavesFile DEF RD!CloseFile
<1> QED
  BY <1>1, <1>2

LEMMA AlikeTrans ==
  ASSUME NEW t, NEW u, NEW v, NEW T, NEW s, NEW m,
         Alike(t, u, T, s, m), Alike(u, v, T, s, m)
  PROVE  Alike(t, v, T, s, m)
BY DEF Alike, Same

LEMMA FailsAlike ==
  ASSUME NEW t, NEW T, NEW s, NEW m, Sound(t, T, s, m), NEW u \in RD!Failing(t)
  PROVE  Alike(t, u, T, s, m) /\ u.rec = t.rec /\ u.disk = t.disk
<1>1. u = [t EXCEPT !.faults = @ + 1]
  BY DEF RD!Failing
<1>2. t \in States /\ t.faults \in Nat
  BY StateTypes DEF Sound
<1>3. u \in States /\ u.rec = t.rec /\ u.disk = t.disk
  BY <1>1, <1>2 DEF States
<1> QED
  BY <1>3 DEF Alike, Same, Sound

LEMMA Rotates ==
  ASSUME NEW t, NEW T, NEW s \in Nat, NEW m, Sound(t, T, s, m), now \in Nat,
         NEW u \in RD!Rotate(t)
  PROVE  Alike(t, u, T, s, m)
<1> DEFINE c == RD!CloseFile(t)
<1>1. Alike(t, c, T, s, m) /\ c.rec.writer = 0 /\ Sound(c, T, s, m)
  BY ClosesFile DEF Alike
<1> HIDE DEF c
<1>2. CASE u = RD!Opened(c)
  BY <1>1, <1>2, OpensFile, AlikeTrans
<1>3. ASSUME NEW v \in RD!Failing(c), u = [v EXCEPT !.rec.current = 0]
      PROVE  Alike(t, u, T, s, m)
  <2>1. Alike(c, v, T, s, m) /\ v.rec = c.rec /\ v.disk = c.disk
    BY <1>1, FailsAlike
  <2>2. v \in States /\ v.rec \in Inners /\ WriterGood(v.rec, v.disk) /\ v.rec.writer = 0
    BY <1>1, <2>1, StateTypes DEF Alike, Sound
  <2>3. /\ u.rec = [v.rec EXCEPT !.current = 0] /\ u.disk = v.disk /\ u.faults = v.faults
        /\ u = [rec |-> u.rec, disk |-> u.disk, faults |-> u.faults]
    BY <1>3, <2>2 DEF States
  <2>4. u.rec \in Inners /\ Same(v, u) /\ u.rec.writer = 0 /\ u.rec.current = 0
    BY <2>2, <2>3 DEF Inners, Same
  <2>5. u \in States
    BY <2>2, <2>3, <2>4, StateTypes DEF States
  <2>6. WriterGood(u.rec, u.disk)
    BY <2>2, <2>3, <2>4, <2>5, StateTypes DEF WriterGood
  <2>7. Alike(v, u, T, s, m)
    BY <2>1, <2>3, <2>4, <2>5, <2>6 DEF Alike, Sound, Same
  <2> QED
    BY <1>1, <2>1, <2>7, AlikeTrans
<1> QED
  BY <1>2, <1>3 DEF RD!Rotate, c

\* Sequences over one domain are of one length.
LEMMA OneLength ==
  ASSUME NEW S, NEW a \in Seq(S), NEW b \in Seq(S), DOMAIN a = DOMAIN b
  PROVE  Len(a) = Len(b)
<1>1. /\ Len(a) \in Nat /\ DOMAIN a = 1..Len(a)
      /\ Len(b) \in Nat /\ DOMAIN b = 1..Len(b)
  OBVIOUS
<1> DEFINE i == Len(a)
           j == Len(b)
<1>2. i \in Nat /\ j \in Nat /\ 1..i = 1..j
  BY <1>1
<1> HIDE DEF i, j
<1>3. i = j
  <2>1. \A x \in Nat : x \in 1..i <=> x \in 1..j
    BY <1>2
  <2> QED
    BY <1>2, <2>1
<1> QED
  BY <1>3 DEF i, j

LEMMA WritesIt ==
  ASSUME NEW t, NEW T, NEW s \in Nat, NEW m \in Nat, NEW k \in Nat, m <= k,
         Sound(t, T, s, m), NEW block, Follows(block, t, T, k),
         Len(block) \in 1..BlockSamples, NEW u \in RD!Written(t, block)
  PROVE  Sound(u, T, s, k) /\ Same(t, u)
<1>0. Sound(t, T, s, k)
  BY SoundLater
<1>1. CASE t.rec.writer = 0
  BY <1>0, <1>1 DEF RD!Written, Same
<1>2. CASE /\ t.rec.writer # 0
           /\ u = [t EXCEPT !.disk[t.rec.writer].blocks = Append(@, block)]
  <2> DEFINE f == t.rec.writer
  <2>1. t \in States /\ t.rec \in Inners /\ t.disk \in Seq(Filed) /\ Len(t.disk) \in Nat
    BY StateTypes DEF Sound
  <2>2. /\ u.rec = t.rec /\ u.faults = t.faults
        /\ u.disk = [t.disk EXCEPT ![f].blocks = Append(@, block)]
        /\ u = [rec |-> u.rec, disk |-> u.disk, faults |-> u.faults]
    BY <1>2, <2>1 DEF States
  <2>3. /\ DiskGood(t.disk, T, s, m) /\ WriterGood(t.rec, t.disk)
        /\ f = Len(t.disk) /\ t.disk # <<>> /\ f \in DOMAIN t.disk
        /\ t.disk[f].video = t.rec.video /\ t.disk[f].audio = HeaderAudio(t.rec)
    BY <1>2, <2>1 DEF Sound, WriterGood
  <2>4. /\ block \in Seq(Nat) /\ RD!InTurn(block)
        /\ RD!Before(All(t.disk), RD!ToSet(block))
        /\ \A n \in RD!ToSet(block) :
             n < k /\ Fits(n, t.disk[f].video, t.disk[f].audio, T)
    BY <2>3 DEF Follows
  <2>5. DiskGood(u.disk, T, s, k)
    <3>1. DiskGood([t.disk EXCEPT ![f].blocks = Append(@, block)], T, s, k)
      BY <2>3, <2>4, AnotherBlock, Zenon
    <3> QED
      BY <2>2, <3>1
  <2>6. /\ u.disk \in Seq(Filed) /\ DOMAIN u.disk = DOMAIN t.disk
        /\ Len(u.disk) = Len(t.disk)
        /\ \A g \in DOMAIN t.disk : /\ u.disk[g].state = t.disk[g].state
                                    /\ u.disk[g].video = t.disk[g].video
                                    /\ u.disk[g].audio = t.disk[g].audio
    <3>1. u.disk \in Seq(Filed)
      BY <2>5 DEF DiskGood
    <3>2. DOMAIN u.disk = DOMAIN t.disk
      BY <2>2
    <3>3. \A g \in DOMAIN t.disk : t.disk[g] \in Filed
      BY <2>1
    <3>4. u.disk[f] = Longer(t.disk[f], block)
      BY <2>2, <2>3 DEF Longer
    <3>5. \A g \in DOMAIN t.disk : g # f => u.disk[g] = t.disk[g]
      BY <2>2
    <3>6. /\ Longer(t.disk[f], block).state = t.disk[f].state
          /\ Longer(t.disk[f], block).video = t.disk[f].video
          /\ Longer(t.disk[f], block).audio = t.disk[f].audio
      BY <2>3, <3>3 DEF Longer, Filed
    <3>7. Len(u.disk) = Len(t.disk)
      BY <2>1, <3>1, <3>2, OneLength, Zenon
    <3>8. \A g \in DOMAIN t.disk : /\ u.disk[g].state = t.disk[g].state
                                   /\ u.disk[g].video = t.disk[g].video
                                   /\ u.disk[g].audio = t.disk[g].audio
      BY <3>4, <3>5, <3>6
    <3> QED
      BY <3>1, <3>2, <3>7, <3>8
  <2>7. u \in States
    BY <2>1, <2>2, <2>6, StateTypes DEF States
  <2>8. WriterGood(u.rec, u.disk)
    <3>1. u.disk[f].video = t.rec.video /\ u.disk[f].audio = HeaderAudio(t.rec)
      BY <2>3, <2>6
    <3> QED
      BY <2>2, <2>3, <2>6, <3>1 DEF WriterGood
  <2> QED
    BY <2>2, <2>5, <2>7, <2>8 DEF Sound, Same
<1>3. ASSUME t.rec.writer # 0, NEW v \in RD!Failing(t),
             u = [v EXCEPT !.disk[t.rec.writer].state = "dropped", !.rec.writer = 0]
      PROVE  Sound(u, T, s, k) /\ Same(t, u)
  <2>1. Alike(t, v, T, s, k) /\ v.rec = t.rec
    BY <1>0, FailsAlike
  <2>2. Alike(v, u, T, s, k)
    <3>1. Sound(v, T, s, k) /\ v.rec.writer # 0
      BY <1>3, <2>1 DEF Alike
    <3>2. u = [v EXCEPT !.disk[v.rec.writer].state = "dropped", !.rec.writer = 0]
      BY <1>3, <2>1
    <3> QED
      BY <3>1, <3>2, LeavesFile, Zenon
  <2> QED
    BY <2>1, <2>2, AlikeTrans DEF Alike
<1> QED
  BY <1>1, <1>2, <1>3 DEF RD!Written

LEMMA WritesBlock ==
  ASSUME NEW t, NEW T, NEW s \in Nat, NEW m \in Nat, NEW k \in Nat, m <= k,
         Sound(t, T, s, m), NEW block, Follows(block, t, T, k),
         Len(block) \in 1..BlockSamples, now \in Nat,
         NEW u \in RD!WriteBlock(t, block)
  PROVE  Sound(u, T, s, k) /\ Same(t, u)
<1>1. PICK v : /\ v \in IF RD!RotateDue(t, block) THEN RD!Rotate(t) ELSE {t}
               /\ u \in RD!Written(v, block)
  BY DEF RD!WriteBlock
<1>2. Alike(t, v, T, s, m)
  <2>1. CASE v = t
    BY <2>1 DEF Alike, Same
  <2>2. CASE v \in RD!Rotate(t)
    BY <2>2, Rotates
  <2> QED
    BY <1>1, <2>1, <2>2
<1>3. Sound(v, T, s, m) /\ Same(t, v) /\ Follows(block, v, T, k)
  BY <1>2 DEF Alike, Same, Follows, HeaderAudio
<1>4. Sound(u, T, s, k) /\ Same(v, u)
  BY <1>1, <1>3, WritesIt
<1> QED
  BY <1>3, <1>4 DEF Same

\* The block being built

LEMMA SoundElse ==
  ASSUME NEW t, NEW T, NEW s, NEW m, Sound(t, T, s, m),
         NEW u \in States, u.disk = t.disk,
         u.rec.writer = t.rec.writer, u.rec.current = t.rec.current,
         u.rec.video = t.rec.video, u.rec.audio = t.rec.audio
  PROVE  Sound(u, T, s, m)
BY DEF Sound, WriterGood, HeaderAudio

LEMMA FollowsLater ==
  ASSUME NEW t, NEW T, NEW m \in Nat, NEW k \in Nat, m <= k,
         NEW block, Follows(block, t, T, m)
  PROVE  Follows(block, t, T, k)
<1>1. block \in Seq(Nat) /\ RD!ToSet(block) \subseteq Nat
  BY DEF Follows, RD!ToSet
<1>2. ASSUME NEW n \in RD!ToSet(block) PROVE n < k
  <2>1. n \in Nat /\ n < m
    BY <1>1 DEF Follows
  <2> QED
    BY <2>1
<1> QED
  BY <1>2 DEF Follows

LEMMA WholeLater ==
  ASSUME NEW t, NEW T, NEW s \in Nat, NEW m \in Nat, NEW k \in Nat, m <= k,
         Whole(t, T, s, m)
  PROVE  Whole(t, T, s, k)
<1>1. Sound(t, T, s, m) /\ Follows(t.rec.block, t, T, m) /\ Len(t.rec.block) < BlockSamples
  BY DEF Whole
<1>2. Sound(t, T, s, k)
  BY <1>1, SoundLater
<1>3. Follows(t.rec.block, t, T, k)
  BY <1>1, FollowsLater
<1> QED
  BY <1>1, <1>2, <1>3 DEF Whole

\* A block grows by a sample that comes after all.
LEMMA BlockGrows ==
  ASSUME NEW t, NEW T, NEW s \in Nat, NEW m \in Nat, Whole(t, T, s, m),
         NEW n \in Nat, m <= n, Fits(n, t.rec.video, HeaderAudio(t.rec), T)
  PROVE  /\ Follows(Append(t.rec.block, n), t, T, n + 1)
         /\ Len(Append(t.rec.block, n)) = Len(t.rec.block) + 1
         /\ Len(t.rec.block) \in Nat
<1> DEFINE b == t.rec.block
           c == Append(b, n)
<1>1. b \in Seq(Nat) /\ Follows(b, t, T, m) /\ Sound(t, T, s, m)
  BY DEF Whole, Follows
<1> HIDE DEF b
<1>2. /\ c \in Seq(Nat) /\ Len(c) = Len(b) + 1 /\ Len(b) \in Nat
      /\ DOMAIN c = DOMAIN b \cup {Len(b) + 1} /\ DOMAIN b = 1..Len(b)
      /\ \A i \in DOMAIN b : c[i] = b[i]
      /\ c[Len(b) + 1] = n
  BY <1>1
<1> HIDE DEF c
<1>3. RD!ToSet(c) = RD!ToSet(b) \cup {n} /\ RD!ToSet(b) \subseteq Nat
  BY <1>1, <1>2 DEF RD!ToSet
<1>4. \A x \in RD!ToSet(b) : x < n /\ x < n + 1 /\ Fits(x, t.rec.video, HeaderAudio(t.rec), T)
  <2> SUFFICES ASSUME NEW x \in RD!ToSet(b)
               PROVE  x < n /\ x < n + 1 /\ Fits(x, t.rec.video, HeaderAudio(t.rec), T)
    OBVIOUS
  <2>1. x \in Nat /\ x < m /\ Fits(x, t.rec.video, HeaderAudio(t.rec), T)
    BY <1>1, <1>3 DEF Follows
  <2> QED
    BY <2>1
<1>5. RD!InTurn(c)
  <2> SUFFICES ASSUME NEW i \in DOMAIN c, NEW j \in DOMAIN c, i < j PROVE c[i] < c[j]
    BY DEF RD!InTurn
  <2>1. i \in DOMAIN b
    BY <1>2
  <2>2. CASE j \in DOMAIN b
    BY <1>1, <1>2, <2>1, <2>2 DEF Follows, RD!InTurn
  <2>3. CASE j = Len(b) + 1
    <3>1. b[i] \in RD!ToSet(b)
      BY <2>1 DEF RD!ToSet
    <3> QED
      BY <1>2, <1>4, <2>1, <2>3, <3>1
  <2> QED
    BY <1>2, <2>2, <2>3
<1>6. RD!Before(All(t.disk), RD!ToSet(c))
  <2> SUFFICES ASSUME NEW x \in All(t.disk), NEW y \in RD!ToSet(c) PROVE x < y
    BY DEF RD!Before
  <2>1. x \in Nat /\ x < m
    BY <1>1, AllBelow
  <2>2. CASE y \in RD!ToSet(b)
    BY <1>1, <2>2 DEF Follows, RD!Before
  <2>3. CASE y = n
    BY <2>1, <2>3
  <2> QED
    BY <1>3, <2>2, <2>3
<1>7. Follows(c, t, T, n + 1)
  BY <1>2, <1>3, <1>4, <1>5, <1>6 DEF Follows
<1> QED
  BY <1>2, <1>7 DEF b, c

\* What a sample's way into a block leaves as it was.
Onward(t, u) ==
  /\ u.rec.video = t.rec.video /\ u.rec.audio = t.rec.audio
  /\ u.rec.firstMs = t.rec.firstMs /\ u.rec.pending = t.rec.pending
  /\ u.rec.open = t.rec.open

LEMMA NothingBuilt ==
  ASSUME NEW t, NEW T, NEW s, NEW m, Sound(t, T, s, m), t.rec.block = <<>>,
         BlockSamples \in Nat \ {0}
  PROVE  Whole(t, T, s, m)
<1>1. RD!ToSet(<<>>) = {} /\ RD!InTurn(<<>>)
  BY DEF RD!ToSet, RD!InTurn
<1> QED
  BY <1>1 DEF Whole, Follows, RD!Before

\* The state from which a block goes to be written.
Emptied(t) == [t EXCEPT !.rec.block = <<>>]

LEMMA EmptiedSound ==
  ASSUME NEW t, NEW T, NEW s, NEW m, Sound(t, T, s, m)
  PROVE  /\ Sound(Emptied(t), T, s, m) /\ Onward(t, Emptied(t))
         /\ Emptied(t).rec.block = <<>> /\ Emptied(t).disk = t.disk
         /\ HeaderAudio(Emptied(t).rec) = HeaderAudio(t.rec)
<1> DEFINE u == Emptied(t)
<1>1. t \in States /\ t.rec \in Inners
  BY StateTypes DEF Sound
<1>2. /\ u.rec = [t.rec EXCEPT !.block = <<>>] /\ u.disk = t.disk /\ u.faults = t.faults
      /\ u = [rec |-> u.rec, disk |-> u.disk, faults |-> u.faults]
  BY <1>1 DEF States, Emptied
<1> HIDE DEF u
<1>3. u.rec \in Inners
  <2>1. <<>> \in Seq(Nat)
    OBVIOUS
  <2> QED
    BY <1>1, <1>2, <2>1 DEF Inners
<1>4. u \in States
  BY <1>1, <1>2, <1>3, StateTypes DEF States
<1>5. /\ u.rec.writer = t.rec.writer /\ u.rec.current = t.rec.current
      /\ Onward(t, u) /\ u.rec.block = <<>>
  BY <1>1, <1>2 DEF Inners, Onward
<1>6. Sound(u, T, s, m)
  <2>1. u.rec.video = t.rec.video /\ u.rec.audio = t.rec.audio
    BY <1>5 DEF Onward
  <2> QED
    BY <1>2, <1>4, <1>5, <2>1, SoundElse, Zenon
<1> QED
  BY <1>2, <1>5, <1>6 DEF Onward, HeaderAudio, u

LEMMA Adds ==
  ASSUME NEW t, NEW T, NEW s \in Nat, NEW m \in Nat, Whole(t, T, s, m),
         NEW n \in Nat, m <= n, Fits(n, t.rec.video, HeaderAudio(t.rec), T),
         now \in Nat, BlockSamples \in Nat \ {0}, NEW u \in RD!Add(t, n)
  PROVE  Whole(u, T, s, n + 1) /\ Onward(t, u)
<1> DEFINE block == Append(t.rec.block, n)
           since == IF t.rec.block = <<>> THEN now ELSE t.rec.blockMs
<1>1. /\ Follows(block, t, T, n + 1) /\ Len(block) = Len(t.rec.block) + 1
      /\ Len(t.rec.block) \in Nat /\ Len(t.rec.block) < BlockSamples
      /\ Sound(t, T, s, m)
  BY BlockGrows DEF Whole
<1>2. t \in States /\ t.rec \in Inners /\ since \in Nat /\ block \in Seq(Nat)
  BY <1>1, StateTypes DEF Sound, Inners, Follows
<1> HIDE DEF block, since
<1>3. CASE u \in RD!WriteBlock([t EXCEPT !.rec.block = <<>>], block)
  <2>1. PICK e : e = Emptied(t)
    OBVIOUS
  <2>2. /\ Sound(e, T, s, m) /\ Onward(t, e) /\ e.rec.block = <<>>
        /\ e.disk = t.disk /\ HeaderAudio(e.rec) = HeaderAudio(t.rec)
    BY <1>1, <2>1, EmptiedSound
  <2>3. Follows(block, e, T, n + 1)
    BY <1>1, <2>2 DEF Follows, Onward
  <2>4. Len(block) \in 1..BlockSamples /\ n + 1 \in Nat /\ m <= n + 1
    BY <1>1
  <2>5. u \in RD!WriteBlock(e, block)
    BY <1>3, <2>1 DEF Emptied
  <2>6. Sound(u, T, s, n + 1) /\ Same(e, u)
    BY <2>2, <2>3, <2>4, <2>5, WritesBlock
  <2>7. u.rec.block = <<>> /\ Onward(t, u)
    BY <2>2, <2>6 DEF Same, Onward
  <2> QED
    BY <2>6, <2>7, NothingBuilt
<1>4. CASE /\ Len(block) < BlockSamples
           /\ u = [t EXCEPT !.rec.block = block, !.rec.blockMs = since]
  <2>1. /\ u.rec = [t.rec EXCEPT !.block = block, !.blockMs = since]
        /\ u.disk = t.disk /\ u.faults = t.faults
        /\ u = [rec |-> u.rec, disk |-> u.disk, faults |-> u.faults]
    BY <1>2, <1>4 DEF States
  <2>2. /\ u.rec \in Inners /\ u.rec.block = block /\ Onward(t, u)
        /\ u.rec.writer = t.rec.writer /\ u.rec.current = t.rec.current
    BY <1>2, <2>1 DEF Inners, Onward
  <2>3. u \in States
    BY <1>2, <2>1, <2>2, StateTypes DEF States
  <2>4. Sound(t, T, s, n + 1)
    <3>1. n + 1 \in Nat /\ m <= n + 1
      OBVIOUS
    <3> QED
      BY <1>1, <3>1, SoundLater
  <2>5. Sound(u, T, s, n + 1)
    <3>1. u.rec.video = t.rec.video /\ u.rec.audio = t.rec.audio
      BY <2>2 DEF Onward
    <3> QED
      BY <2>1, <2>2, <2>3, <2>4, <3>1, SoundElse, Zenon
  <2>6. Follows(u.rec.block, u, T, n + 1)
    BY <1>1, <2>1, <2>2 DEF Follows, Onward, HeaderAudio
  <2> QED
    BY <1>4, <2>2, <2>5, <2>6 DEF Whole
<1>5. \/ u \in RD!WriteBlock([t EXCEPT !.rec.block = <<>>], block)
      \/ /\ ~(Len(block) >= BlockSamples)
         /\ u = [t EXCEPT !.rec.block = block, !.rec.blockMs = since]
  BY DEF RD!Add, block, since
<1>6. Len(block) \in Nat
  BY <1>1
<1> QED
  BY <1>3, <1>4, <1>5, <1>6

\* The file is closed, with what was being built.
Shut(t, u, T, s, m) ==
  /\ Sound(u, T, s, m) /\ u.rec.writer = 0
  /\ u.rec.block = <<>> /\ u.rec.open = FALSE
  /\ u.rec.video = t.rec.video /\ u.rec.audio = t.rec.audio
  /\ u.rec.firstMs = t.rec.firstMs /\ u.rec.pending = t.rec.pending

LEMMA Closes ==
  ASSUME NEW t, NEW T, NEW s \in Nat, NEW m \in Nat, Whole(t, T, s, m),
         now \in Nat, BlockSamples \in Nat \ {0}, NEW u \in RD!Close(t)
  PROVE  Shut(t, u, T, s, m)
<1>1. PICK v : /\ v \in IF t.rec.block = <<>> THEN {t}
                        ELSE RD!WriteBlock([t EXCEPT !.rec.block = <<>>], t.rec.block)
               /\ u = [RD!CloseFile(v) EXCEPT !.rec.open = FALSE, !.rec.current = 0]
  BY DEF RD!Close
<1>2. Sound(v, T, s, m) /\ Onward(t, v) /\ v.rec.block = <<>>
  <2>1. CASE t.rec.block = <<>>
    BY <1>1, <2>1 DEF Whole, Onward
  <2>2. CASE t.rec.block # <<>>
    <3>1. PICK e : e = Emptied(t)
      OBVIOUS
    <3>2. Sound(t, T, s, m) /\ Follows(t.rec.block, t, T, m) /\ t.rec.block \in Seq(Nat)
      BY DEF Whole, Follows
    <3>3. /\ Sound(e, T, s, m) /\ Onward(t, e) /\ e.rec.block = <<>>
          /\ e.disk = t.disk /\ HeaderAudio(e.rec) = HeaderAudio(t.rec)
      BY <3>1, <3>2, EmptiedSound
    <3>4. Follows(t.rec.block, e, T, m)
      BY <3>2, <3>3 DEF Follows, Onward
    <3>5. Len(t.rec.block) \in 1..BlockSamples
      BY <2>2, <3>2 DEF Whole
    <3>6. v \in RD!WriteBlock(e, t.rec.block) /\ m <= m
      BY <1>1, <2>2, <3>1 DEF Emptied
    <3>7. Sound(v, T, s, m) /\ Same(e, v)
      <4>1. PICK block : block = t.rec.block
        OBVIOUS
      <4>2. /\ Follows(block, e, T, m) /\ Len(block) \in 1..BlockSamples
            /\ v \in RD!WriteBlock(e, block) /\ Sound(e, T, s, m)
        BY <3>3, <3>4, <3>5, <3>6, <4>1
      <4> QED
        BY <3>6, <4>2, WritesBlock
    <3> QED
      BY <3>3, <3>7 DEF Same, Onward
  <2> QED
    BY <2>1, <2>2
<1>3. PICK c : c = RD!CloseFile(v)
  OBVIOUS
<1>4. Sound(c, T, s, m) /\ Same(v, c) /\ c.rec.writer = 0
  BY <1>2, <1>3, ClosesFile DEF Alike
<1>5. c \in States /\ c.rec \in Inners /\ DiskGood(c.disk, T, s, m) /\ WriterGood(c.rec, c.disk)
  BY <1>4, StateTypes DEF Sound
<1>6. /\ u.rec = [c.rec EXCEPT !.open = FALSE, !.current = 0]
      /\ u.disk = c.disk /\ u.faults = c.faults
      /\ u = [rec |-> u.rec, disk |-> u.disk, faults |-> u.faults]
  BY <1>1, <1>3, <1>5 DEF States
<1>7. /\ u.rec \in Inners /\ u.rec.writer = 0 /\ u.rec.current = 0 /\ u.rec.open = FALSE
      /\ u.rec.video = c.rec.video /\ u.rec.audio = c.rec.audio
      /\ u.rec.firstMs = c.rec.firstMs /\ u.rec.pending = c.rec.pending
      /\ u.rec.block = c.rec.block
  BY <1>4, <1>5, <1>6 DEF Inners
<1>8. u \in States
  BY <1>5, <1>6, <1>7, StateTypes DEF States
<1>9. WriterGood(u.rec, u.disk)
  BY <1>4, <1>5, <1>6, <1>7, <1>8, StateTypes DEF WriterGood
<1>10. Sound(u, T, s, m)
  BY <1>4, <1>5, <1>6, <1>7, <1>8, <1>9 DEF Sound
<1> QED
  BY <1>2, <1>4, <1>7, <1>10 DEF Same, Onward, Shut

\* The samples that waited, one by one

\* The states S after the next sample that waited, and the first.
Onto(S, t, k) ==
  IF RD!Wanted(t.rec, t.rec.pending[k])
  THEN UNION {RD!Add(u, t.rec.pending[k]) : u \in S}
  ELSE S

Begun(t) == {[t EXCEPT !.rec.pending = <<>>]}

StepsTo(f, t, n) ==
  [k \in 0..n |-> IF k = 0 THEN Begun(t) ELSE Onto(f[k - 1], t, k)]

After(t) == CHOOSE f : f = StepsTo(f, t, Len(t.rec.pending))

LEMMA AddAllIsAfter ==
  ASSUME NEW t
  PROVE  RD!AddAll(t) = After(t)[Len(t.rec.pending)]
BY DEF RD!AddAll, After, StepsTo, Onto, Begun

LEMMA StepsExist ==
  ASSUME NEW t, NEW n \in Nat
  PROVE  \E f : f = StepsTo(f, t, n)
<1> DEFINE S == {k \in 0..n : ~\E f : f = StepsTo(f, t, k)}
<1>1. SUFFICES ASSUME S # {} PROVE FALSE
  <2>1. n \in 0..n
    OBVIOUS
  <2> QED
    BY <1>1, <2>1
<1>2. PICK k \in S : \A j \in S : k <= j
  <2>1. S \subseteq Nat
    OBVIOUS
  <2> HIDE DEF S
  <2> QED
    BY <1>1, <2>1, Least
<1>3. k \in 0..n /\ ~\E f : f = StepsTo(f, t, k)
  OBVIOUS
<1>4. CASE k = 0
  <2>1. [i \in 0..0 |-> Begun(t)] = StepsTo([i \in 0..0 |-> Begun(t)], t, 0)
    BY DEF StepsTo
  <2> QED
    BY <1>3, <1>4, <2>1
<1>5. CASE k > 0
  <2>1. k - 1 \in 0..n /\ ~(k - 1 \in S)
    BY <1>2, <1>3, <1>5
  <2>2. PICK f : f = StepsTo(f, t, k - 1)
    BY <2>1
  <2> DEFINE g == [i \in 0..k |-> IF i = k THEN Onto(f[k - 1], t, k) ELSE f[i]]
  <2>3. \A i \in 0..(k - 1) : f[i] = IF i = 0 THEN Begun(t) ELSE Onto(f[i - 1], t, i)
    <3> HIDE DEF g, S
    <3> QED
      BY <2>2 DEF StepsTo
  <2>4. \A i \in 0..k : g[i] = IF i = 0 THEN Begun(t) ELSE Onto(g[i - 1], t, i)
    <3> SUFFICES ASSUME NEW i \in 0..k
                 PROVE  g[i] = IF i = 0 THEN Begun(t) ELSE Onto(g[i - 1], t, i)
      OBVIOUS
    <3>1. CASE i = k
      <4>1. g[k] = Onto(f[k - 1], t, k) /\ g[k - 1] = f[k - 1]
        BY <1>3, <1>5
      <4> QED
        BY <1>5, <3>1, <4>1
    <3>2. CASE i # k
      <4>1. i \in 0..(k - 1) /\ g[i] = f[i]
        BY <1>3, <3>2
      <4>2. CASE i = 0
        BY <2>3, <4>1, <4>2
      <4>3. CASE i > 0
        <5>1. g[i - 1] = f[i - 1]
          BY <1>3, <4>1, <4>3
        <5> QED
          BY <2>3, <4>1, <4>3, <5>1
      <4> QED
        BY <4>2, <4>3
    <3> QED
      BY <3>1, <3>2
  <2>5. g = [i \in 0..k |-> g[i]]
    OBVIOUS
  <2> HIDE DEF g
  <2>6. g = StepsTo(g, t, k)
    BY <2>4, <2>5 DEF StepsTo
  <2> QED
    BY <1>3, <2>6
<1> QED
  BY <1>3, <1>4, <1>5

LEMMA AfterSteps ==
  ASSUME NEW t, Len(t.rec.pending) \in Nat
  PROVE  /\ After(t)[0] = Begun(t)
         /\ \A k \in 1..Len(t.rec.pending) : After(t)[k] = Onto(After(t)[k - 1], t, k)
<1> DEFINE n == Len(t.rec.pending)
<1>1. After(t) = StepsTo(After(t), t, n)
  <2>1. \E f : f = StepsTo(f, t, n)
    BY StepsExist
  <2> HIDE DEF n
  <2>2. After(t) = CHOOSE f : f = StepsTo(f, t, n)
    BY DEF After, n
  <2> QED
    BY <2>1, <2>2
<1> DEFINE a == After(t)
<1> HIDE DEF a
<1>2. a = StepsTo(a, t, n)
  BY <1>1 DEF a
<1>3. \A k \in 0..n : a[k] = IF k = 0 THEN Begun(t) ELSE Onto(a[k - 1], t, k)
  <2> HIDE DEF n
  <2> QED
    BY <1>2 DEF StepsTo
<1> QED
  BY <1>3 DEF a

\* All that waited go in.
Entered(t, u, T, s, m) ==
  /\ Whole(u, T, s, m) /\ u.rec.pending = <<>> /\ u.rec.open = t.rec.open
  /\ u.rec.video = t.rec.video /\ u.rec.audio = t.rec.audio
  /\ u.rec.firstMs = t.rec.firstMs

LEMMA BegunWhole ==
  ASSUME NEW t, NEW T, NEW s, NEW m, Whole(t, T, s, m), NEW u \in Begun(t)
  PROVE  Entered(t, u, T, s, m)
<1>1. t \in States /\ t.rec \in Inners /\ Sound(t, T, s, m)
  BY StateTypes DEF Whole, Sound
<1>2. /\ u.rec = [t.rec EXCEPT !.pending = <<>>] /\ u.disk = t.disk /\ u.faults = t.faults
      /\ u = [rec |-> u.rec, disk |-> u.disk, faults |-> u.faults]
  BY <1>1 DEF States, Begun
<1>3. /\ u.rec \in Inners /\ u.rec.pending = <<>> /\ u.rec.open = t.rec.open
      /\ u.rec.video = t.rec.video /\ u.rec.audio = t.rec.audio
      /\ u.rec.firstMs = t.rec.firstMs /\ u.rec.block = t.rec.block
      /\ u.rec.writer = t.rec.writer /\ u.rec.current = t.rec.current
  <2>1. <<>> \in Seq(Nat)
    OBVIOUS
  <2> QED
    BY <1>1, <1>2, <2>1 DEF Inners
<1>4. u \in States
  BY <1>1, <1>2, <1>3, StateTypes DEF States
<1>5. Sound(u, T, s, m)
  BY <1>1, <1>2, <1>3, <1>4, SoundElse, Zenon
<1> QED
  BY <1>2, <1>3, <1>5 DEF Whole, Follows, HeaderAudio, Entered

LEMMA AddsAll ==
  ASSUME NEW t, NEW s \in Nat, NEW m \in Nat, NEW z \in Nat, Whole(t, taken', s, m),
         t.rec.pending \in Seq(Nat), RD!InTurn(t.rec.pending), m <= z,
         \A k \in DOMAIN t.rec.pending :
           /\ m <= t.rec.pending[k] /\ t.rec.pending[k] < z
           /\ RD!Wanted(t.rec, t.rec.pending[k]) =>
                Fits(t.rec.pending[k], t.rec.video, HeaderAudio(t.rec), taken'),
         now \in Nat, BlockSamples \in Nat \ {0}, NEW u \in RD!AddAll(t)
  PROVE  Entered(t, u, taken', s, z)
<1> DEFINE ns == t.rec.pending
           n == Len(ns)
           a == After(t)
           bound(k) == IF k = 0 THEN m ELSE ns[k] + 1
           good(k) == \A v \in a[k] : Entered(t, v, taken', s, bound(k))
           S == {k \in 0..n : ~good(k)}
<1>1. n \in Nat /\ DOMAIN ns = 1..n /\ \A k \in 1..n : ns[k] \in Nat
  OBVIOUS
<1>2. a[0] = Begun(t) /\ \A k \in 1..n : a[k] = Onto(a[k - 1], t, k)
  BY <1>1, AfterSteps
<1>3. ASSUME NEW k \in 0..n PROVE bound(k) \in Nat /\ bound(k) <= z
  <2>1. CASE k = 0
    BY <2>1
  <2>2. CASE k # 0
    <3>1. k \in DOMAIN ns /\ ns[k] \in Nat /\ ns[k] < z
      BY <1>1, <2>2
    <3>2. bound(k) = ns[k] + 1
      BY <2>2
    <3> HIDE DEF bound, ns
    <3> QED
      BY <3>1, <3>2
  <2> QED
    BY <2>1, <2>2
<1>4. ASSUME NEW k \in 1..n PROVE bound(k - 1) <= ns[k]
  <2>1. CASE k = 1
    BY <1>1, <2>1
  <2>2. CASE k > 1
    <3>1. k - 1 \in 1..n /\ k - 1 < k
      BY <1>1, <2>2
    <3>2. ns[k - 1] < ns[k]
      BY <1>1, <3>1 DEF RD!InTurn
    <3>3. bound(k - 1) = ns[k - 1] + 1 /\ ns[k - 1] \in Nat /\ ns[k] \in Nat
      BY <1>1, <2>2, <3>1
    <3> HIDE DEF bound, ns
    <3> QED
      BY <3>2, <3>3
  <2> QED
    BY <2>1, <2>2
<1>5. S = {}
  <2>1. SUFFICES ASSUME S # {} PROVE FALSE
    OBVIOUS
  <2>2. PICK k \in S : \A j \in S : k <= j
    <3>1. S \subseteq Nat
      OBVIOUS
    <3> HIDE DEF S
    <3> QED
      BY <2>1, <3>1, Least
  <2>3. k \in 0..n /\ ~good(k)
    OBVIOUS
  <2>4. CASE k = 0
    <3>1. \A v \in a[0] : Entered(t, v, taken', s, m)
      BY <1>2, BegunWhole
    <3>2. good(0)
      BY <3>1
    <3> QED
      BY <2>3, <2>4, <3>2
  <2>5. CASE k > 0
    <3>1. k \in 1..n /\ k - 1 \in 0..n /\ good(k - 1)
      BY <1>1, <2>2, <2>3, <2>5
    <3>2. /\ ns[k] \in Nat /\ bound(k) = ns[k] + 1 /\ bound(k - 1) \in Nat
          /\ bound(k - 1) <= ns[k] /\ bound(k - 1) <= bound(k) /\ bound(k) \in Nat
      <4>1. bound(k) = ns[k] + 1
        BY <3>1
      <4>2. bound(k - 1) \in Nat /\ bound(k - 1) <= ns[k] /\ ns[k] \in Nat
        BY <1>1, <1>3, <1>4, <3>1
      <4> HIDE DEF bound, ns
      <4> QED
        BY <4>1, <4>2
    <3>3. RD!Wanted(t.rec, ns[k]) => Fits(ns[k], t.rec.video, HeaderAudio(t.rec), taken')
      BY <1>1, <3>1
    <3>4. \A v \in a[k - 1] : Entered(t, v, taken', s, bound(k - 1))
      BY <3>1
    <3>5. a[k] = Onto(a[k - 1], t, k)
      BY <1>2, <3>1
    <3> HIDE DEF S, a, bound
    <3>6. ASSUME NEW v \in a[k]
          PROVE  Entered(t, v, taken', s, bound(k))
      <4>1. CASE RD!Wanted(t.rec, ns[k])
        <5>1. PICK x \in a[k - 1] : v \in RD!Add(x, ns[k])
          BY <3>5, <4>1 DEF Onto
        <5>2. Entered(t, x, taken', s, bound(k - 1))
          BY <3>4, <5>1
        <5>3. Fits(ns[k], x.rec.video, HeaderAudio(x.rec), taken')
          BY <3>3, <4>1, <5>2 DEF HeaderAudio, Entered
        <5>4. Whole(v, taken', s, ns[k] + 1) /\ Onward(x, v)
          BY <3>2, <5>1, <5>2, <5>3, Adds DEF Entered
        <5> QED
          BY <3>2, <5>2, <5>4 DEF Onward, Entered
      <4>2. CASE ~RD!Wanted(t.rec, ns[k])
        <5>1. v \in a[k - 1]
          BY <3>5, <4>2 DEF Onto
        <5>2. Whole(v, taken', s, bound(k - 1))
          BY <3>4, <5>1 DEF Entered
        <5>3. Whole(v, taken', s, bound(k))
          BY <3>2, <5>2, WholeLater
        <5> QED
          BY <3>4, <5>1, <5>3 DEF Entered
      <4> QED
        BY <4>1, <4>2
    <3>7. good(k)
      BY <3>6
    <3> QED
      BY <2>3, <3>7
  <2> QED
    BY <2>3, <2>4, <2>5
<1>6. good(n)
  <2> HIDE DEF good
  <2>1. \A k \in 0..n : good(k)
    BY <1>5
  <2>2. n \in 0..n
    <3> HIDE DEF n
    <3> QED
      BY <1>1
  <2> QED
    BY <2>1, <2>2
<1>7. u \in a[n]
  BY AddAllIsAfter
<1>8. Entered(t, u, taken', s, bound(n))
  BY <1>6, <1>7
<1>9. bound(n) \in Nat /\ bound(n) <= z
  <2>1. n \in 0..n
    BY <1>1
  <2> HIDE DEF bound, n
  <2> QED
    BY <1>3, <2>1
<1> HIDE DEF bound, good, S, a
<1> QED
  BY <1>8, <1>9, WholeLater DEF Entered

\* Between two calls

\* Samples that wait: of this session, after all there is on disk.
Waits(ns, d, T, s) ==
  /\ ns \in Seq(Nat) /\ Len(ns) <= MaxPending
  /\ RD!InTurn(ns)
  /\ RD!Before(All(d), RD!ToSet(ns))
  /\ \A n \in RD!ToSet(ns) : n \in DOMAIN T /\ T[n].session = s

\* A block is only built, and a file only written, while the recorder is open,
\* and then no sample waits.
Idle(r) ==
  /\ r.writer # 0 \/ r.block # <<>> => r.open
  /\ r.open => r.video # 0 /\ r.pending = <<>>

Ready(t, T, s, video) ==
  /\ Whole(t, T, s, Len(T) + 1)
  /\ t.rec.video = video /\ t.rec.audio \in {0, s}
  /\ Idle(t.rec)
  /\ Waits(t.rec.pending, t.disk, T, s)

Samples == [track : RD!Track, key : BOOLEAN, session : Nat]

Announced == IF "video" \in up THEN session ELSE 0

RecorderInv ==
  /\ session \in Nat \ {0} /\ now \in Nat /\ up \subseteq RD!Track
  /\ taken \in Seq(Samples)
  /\ Ready(RD!State, taken, session, Announced)

LEMMA Became ==
  ASSUME NEW u \in States, RD!Becomes(u)
  PROVE  RD!State' = u
<1>1. u = [rec |-> u.rec, disk |-> u.disk, faults |-> u.faults]
  BY DEF States
<1> QED
  BY <1>1 DEF RD!Becomes, RD!State

LEMMA WholeStates ==
  ASSUME NEW t, NEW T, NEW s, NEW m, Whole(t, T, s, m)
  PROVE  /\ t \in States /\ t.rec \in Inners /\ Sound(t, T, s, m)
         /\ WriterGood(t.rec, t.disk)
BY StateTypes DEF Whole, Sound

LEMMA RecorderStarts ==
  ASSUME RD!RecorderAssumption, RD!Init
  PROVE  RecorderInv
<1> DEFINE t == RD!State
<1>1. /\ t.rec = RD!NewInner /\ t.disk = <<>> /\ t.faults = 0
      /\ t = [rec |-> t.rec, disk |-> t.disk, faults |-> t.faults]
  BY DEF RD!Init, RD!State
<1>2. <<>> \in Seq(Nat) /\ <<>> \in Seq(Filed) /\ DOMAIN <<>> = {} /\ Len(<<>>) = 0
  OBVIOUS
<1>3. t.rec \in Inners
  BY <1>1, <1>2 DEF RD!NewInner, Inners
<1> HIDE DEF t
<1>4. t \in States
  <2>1. t.disk \in Seq(Filed) /\ t.faults \in Nat
    BY <1>1, <1>2
  <2> QED
    BY <1>1, <1>3, <2>1 DEF States
<1>5. /\ t.rec.video = 0 /\ t.rec.audio = 0 /\ t.rec.writer = 0 /\ t.rec.current = 0
      /\ t.rec.block = <<>> /\ t.rec.pending = <<>> /\ t.rec.open = FALSE
  BY <1>1 DEF RD!NewInner
<1>6. All(t.disk) = {} /\ RD!ToSet(<<>>) = {} /\ RD!InTurn(<<>>)
  BY <1>1, <1>2 DEF All, RD!ToSet, RD!InTurn
<1>7. Sound(t, taken, session, Len(taken) + 1)
  BY <1>1, <1>2, <1>4, <1>5 DEF Sound, DiskGood, WriterGood, RD!Init
<1>8. Whole(t, taken, session, Len(taken) + 1)
  BY <1>5, <1>7, NothingBuilt DEF RD!RecorderAssumption
<1>9. Waits(t.rec.pending, t.disk, taken, session)
  BY <1>2, <1>5, <1>6 DEF Waits, RD!Before, RD!RecorderAssumption
<1>10. Ready(t, taken, session, Announced)
  BY <1>5, <1>8, <1>9 DEF Ready, Idle, Announced, RD!Init
<1>11. taken \in Seq(Samples)
  BY DEF RD!Init
<1> QED
  BY <1>10, <1>11 DEF RecorderInv, RD!Init, t

\* A format arrives, a sample waits: the files stay as they are.
LEMMA Closed ==
  ASSUME NEW t, NEW T, NEW s \in Nat, NEW m, Sound(t, T, s, m), t.rec.writer = 0,
         t.rec.block = <<>>, BlockSamples \in Nat \ {0},
         NEW u \in States, u.disk = t.disk, u.rec.writer = 0, u.rec.block = <<>>,
         u.rec.current = t.rec.current, {u.rec.video, u.rec.audio} \subseteq 0..s
  PROVE  Whole(u, T, s, m)
<1>1. Sound(u, T, s, m)
  BY DEF Sound, WriterGood
<1> QED
  BY <1>1, NothingBuilt

LEMMA VideoKeeps ==
  ASSUME RD!RecorderAssumption, RecorderInv, RD!OnVideoFormat
  PROVE  RecorderInv'
<1> DEFINE t == RD!State
           m == Len(taken) + 1
<1>1. /\ Ready(t, taken, session, 0) /\ t.rec = rec /\ t.disk = disk
      /\ session \in Nat \ {0} /\ session' = session /\ taken' = taken /\ now' = now
      /\ up' = up \cup {"video"} /\ "video" \notin up /\ now \in Nat
      /\ up \subseteq RD!Track /\ BlockSamples \in Nat \ {0}
  BY DEF RecorderInv, Announced, RD!OnVideoFormat, RD!State, RD!RecorderAssumption
<1> HIDE DEF t
<1>2. Whole(t, taken, session, m) /\ t.rec.video = 0 /\ Idle(t.rec) /\ ~t.rec.open
  BY <1>1 DEF Ready, Idle
<1>3. /\ t \in States /\ t.rec \in Inners /\ t.rec.writer = 0 /\ t.rec.block = <<>>
      /\ Sound(t, taken, session, m)
  BY <1>2, WholeStates DEF Idle
<1>4. RD!Becomes([t EXCEPT !.rec.video = session, !.rec.firstMs = RD!FirstMs(t.rec)])
  BY <1>1, <1>2 DEF RD!OnVideoFormat, t
<1>5. PICK u : u = [t EXCEPT !.rec.video = session, !.rec.firstMs = RD!FirstMs(t.rec)]
  OBVIOUS
<1>6. RD!FirstMs(t.rec) \in Nat
  BY <1>1, <1>3 DEF RD!FirstMs, Inners
<1>7. /\ u.rec = [t.rec EXCEPT !.video = session, !.firstMs = RD!FirstMs(t.rec)]
      /\ u.disk = t.disk /\ u.faults = t.faults
      /\ u = [rec |-> u.rec, disk |-> u.disk, faults |-> u.faults]
  BY <1>3, <1>5 DEF States
<1>8. /\ u.rec \in Inners /\ u.rec.video = session /\ u.rec.audio = t.rec.audio
      /\ u.rec.writer = 0 /\ u.rec.block = <<>> /\ u.rec.current = t.rec.current
      /\ u.rec.open = t.rec.open /\ u.rec.pending = t.rec.pending
  BY <1>1, <1>3, <1>6, <1>7 DEF Inners
<1>9. u \in States
  BY <1>3, <1>7, <1>8, StateTypes DEF States
<1>10. Whole(u, taken, session, m)
  <2>1. {u.rec.video, u.rec.audio} \subseteq 0..session
    BY <1>1, <1>3, <1>8 DEF Sound
  <2> QED
    BY <1>1, <1>3, <1>7, <1>8, <1>9, <2>1, Closed
<1>11. Ready(u, taken, session, session)
  BY <1>1, <1>2, <1>7, <1>8, <1>10 DEF Ready, Idle
<1>12. RD!State' = u
  BY <1>4, <1>5, <1>9, Became
<1>13. Announced' = session /\ up' \subseteq RD!Track /\ taken \in Seq(Samples)
  BY <1>1 DEF Announced, RD!Track, RecorderInv
<1> QED
  BY <1>1, <1>11, <1>12, <1>13 DEF RecorderInv

LEMMA AudioKeeps ==
  ASSUME RD!RecorderAssumption, RecorderInv, RD!OnAudioFormat
  PROVE  RecorderInv'
<1> DEFINE t == RD!State
           m == Len(taken) + 1
<1>1. /\ Ready(t, taken, session, Announced) /\ t.rec = rec /\ t.disk = disk
      /\ session \in Nat \ {0} /\ session' = session /\ taken' = taken /\ now' = now
      /\ up' = up \cup {"audio"} /\ now \in Nat /\ taken \in Seq(Samples)
      /\ up \subseteq RD!Track /\ BlockSamples \in Nat \ {0}
      /\ disk' = disk /\ failed' = failed
  BY DEF RecorderInv, RD!OnAudioFormat, RD!State, RD!RecorderAssumption
<1>2. Announced' = Announced /\ up' \subseteq RD!Track
  BY <1>1 DEF Announced, RD!Track
<1>3. CASE rec.open
  <2>1. RD!State' = t
    BY <1>1, <1>3 DEF RD!OnAudioFormat, RD!State
  <2> QED
    BY <1>1, <1>2, <2>1 DEF RecorderInv
<1>4. CASE ~rec.open
  <2> DEFINE r == [rec EXCEPT !.audio = session, !.firstMs = RD!FirstMs(rec)]
  <2>1. rec' = r
    BY <1>4 DEF RD!OnAudioFormat
  <2>2. PICK u : u = [rec |-> r, disk |-> disk, faults |-> failed]
    OBVIOUS
  <2>3. RD!State' = u
    BY <1>1, <2>1, <2>2 DEF RD!State
  <2>4. t = [rec |-> rec, disk |-> disk, faults |-> failed]
    BY DEF RD!State
  <2> HIDE DEF t
  <2>5. Whole(t, taken, session, m) /\ Idle(t.rec) /\ ~t.rec.open
    BY <1>1, <1>4 DEF Ready
  <2>6. /\ t \in States /\ rec \in Inners /\ rec.writer = 0 /\ rec.block = <<>>
        /\ Sound(t, taken, session, m)
    BY <1>1, <2>5, WholeStates DEF Idle
  <2>7. RD!FirstMs(rec) \in Nat
    BY <1>1, <2>6 DEF RD!FirstMs, Inners
  <2>8. /\ r \in Inners /\ r.video = rec.video /\ r.audio = session
        /\ r.writer = 0 /\ r.block = <<>> /\ r.current = rec.current
        /\ r.open = rec.open /\ r.pending = rec.pending
    BY <1>1, <2>6, <2>7 DEF Inners
  <2> HIDE DEF r
  <2>9. u.rec = r /\ u.disk = t.disk /\ u \in States
    BY <2>2, <2>4, <2>6, <2>8 DEF States
  <2>10. Whole(u, taken, session, m)
    <3>1. {u.rec.video, u.rec.audio} \subseteq 0..session
      BY <1>1, <2>6, <2>8, <2>9 DEF Sound
    <3> QED
      BY <1>1, <2>6, <2>8, <2>9, <3>1, Closed
  <2>11. Ready(u, taken, session, Announced)
    BY <1>1, <1>4, <2>8, <2>9, <2>10 DEF Ready, Idle
  <2> QED
    BY <1>1, <1>2, <2>3, <2>11 DEF RecorderInv
<1> QED
  BY <1>3, <1>4

LEMMA StopKeeps ==
  ASSUME RD!RecorderAssumption, RecorderInv, RD!OnStreamStopped
  PROVE  RecorderInv'
<1> DEFINE m == Len(taken) + 1
<1>0. PICK t : t = RD!State
  OBVIOUS
<1>1. /\ Whole(t, taken, session, m) /\ m \in Nat
      /\ session \in Nat \ {0} /\ session' = session + 1 /\ taken' = taken /\ now' = now
      /\ up' = {} /\ now \in Nat /\ taken \in Seq(Samples) /\ BlockSamples \in Nat \ {0}
      /\ MaxPending \in Nat /\ session \in Nat /\ session + 1 \in Nat
  BY <1>0 DEF RecorderInv, Ready, RD!OnStreamStopped, RD!RecorderAssumption
<1>2. PICK v \in RD!Close(t) : RD!Becomes(RD!Reset(v))
  BY <1>0 DEF RD!OnStreamStopped
<1> HIDE DEF m
<1>3. /\ Sound(v, taken, session, m) /\ v.rec.writer = 0
      /\ v.rec.block = <<>> /\ v.rec.open = FALSE
  <2>1. /\ Whole(t, taken, session, m) /\ m \in Nat /\ session \in Nat /\ now \in Nat
        /\ BlockSamples \in Nat \ {0}
    BY <1>1
  <2>2. Shut(t, v, taken, session, m)
    BY <1>2, <2>1, Closes
  <2> QED
    BY <2>2 DEF Shut
<1>4. v \in States /\ v.rec \in Inners
  BY <1>3, StateTypes DEF Sound
<1>5. Sound(v, taken, session + 1, m)
  BY <1>1, <1>3, SoundMore
<1>6. PICK u : u = RD!Reset(v)
  OBVIOUS
<1>7. /\ u.rec = [v.rec EXCEPT !.video = 0, !.audio = 0, !.firstMs = 0, !.pending = <<>>]
      /\ u.disk = v.disk /\ u.faults = v.faults
      /\ u = [rec |-> u.rec, disk |-> u.disk, faults |-> u.faults]
  BY <1>4, <1>6 DEF RD!Reset, States
<1>8. /\ u.rec \in Inners /\ u.rec.video = 0 /\ u.rec.audio = 0
      /\ u.rec.writer = 0 /\ u.rec.block = <<>> /\ u.rec.current = v.rec.current
      /\ u.rec.open = FALSE /\ u.rec.pending = <<>>
  <2>1. <<>> \in Seq(Nat)
    OBVIOUS
  <2> QED
    BY <1>3, <1>4, <1>7, <2>1 DEF Inners
<1>9. u \in States
  BY <1>4, <1>7, <1>8, StateTypes DEF States
<1>10. Whole(u, taken, session + 1, m)
  <2>1. {u.rec.video, u.rec.audio} \subseteq 0..(session + 1)
    BY <1>1, <1>8
  <2>2. BlockSamples \in Nat \ {0} /\ session + 1 \in Nat
    BY <1>1
  <2> QED
    BY <1>3, <1>5, <1>7, <1>8, <1>9, <2>1, <2>2, Closed
<1>11. Waits(<<>>, u.disk, taken, session + 1)
  <2>1. RD!ToSet(<<>>) = {} /\ RD!InTurn(<<>>) /\ <<>> \in Seq(Nat)
    BY DEF RD!ToSet, RD!InTurn
  <2> QED
    BY <1>1, <2>1 DEF Waits, RD!Before
<1>12. Ready(u, taken, session + 1, 0)
  BY <1>8, <1>10, <1>11 DEF Ready, Idle, m
<1>13. RD!State' = u
  BY <1>2, <1>6, <1>9, Became
<1>14. Announced' = 0
  BY <1>1 DEF Announced
<1> QED
  BY <1>1, <1>12, <1>13, <1>14 DEF RecorderInv

\* A sample

LEMMA WholeMore ==
  ASSUME NEW t, NEW T, NEW U, NEW s \in Nat, NEW m, Whole(t, T, s, m),
         DOMAIN T \subseteq DOMAIN U, \A i \in DOMAIN T : U[i] = T[i]
  PROVE  Whole(t, U, s, m)
<1>1. Sound(t, U, s, m)
  BY SoundMore DEF Whole
<1>2. \A n \in RD!ToSet(t.rec.block) : Fits(n, t.rec.video, HeaderAudio(t.rec), U)
  BY FitsMore DEF Whole, Follows
<1> QED
  BY <1>1, <1>2 DEF Whole, Follows

LEMMA NoneWait ==
  ASSUME NEW d, NEW T, NEW s, MaxPending \in Nat
  PROVE  Waits(<<>>, d, T, s)
<1>1. RD!ToSet(<<>>) = {} /\ RD!InTurn(<<>>) /\ <<>> \in Seq(Nat)
  BY DEF RD!ToSet, RD!InTurn
<1> QED
  BY <1>1 DEF Waits, RD!Before

\* The sample n arrives in the state t.
Arrives(t, n) ==
  /\ t = RD!State /\ n = Len(taken) + 1 /\ n \in Nat
  /\ session \in Nat \ {0} /\ now \in Nat /\ taken' \in Seq(Samples)
  /\ n \in DOMAIN taken' /\ Len(taken') = n /\ taken'[n].session = session
  /\ taken'[n].track \in RD!Track
  /\ Whole(t, taken', session, n)
  /\ t.rec.video = session /\ t.rec.audio \in {0, session} /\ Idle(t.rec)
  /\ Waits(t.rec.pending, t.disk, taken', session)
  /\ \A x \in RD!ToSet(t.rec.pending) : x < n
  /\ BlockSamples \in Nat \ {0} /\ MaxPending \in Nat

LEMMA Arrival ==
  ASSUME RD!RecorderAssumption, RecorderInv, NEW track \in RD!Track, NEW key \in BOOLEAN,
         RD!OnSample(track, key)
  PROVE  /\ Arrives(RD!State, Len(taken) + 1)
         /\ session' = session /\ now' = now /\ up' = up
         /\ Announced' = session
<1> DEFINE t == RD!State
           n == Len(taken) + 1
           e == [track |-> track, key |-> key, session |-> session]
<1>1. /\ session \in Nat \ {0} /\ now \in Nat /\ taken \in Seq(Samples)
      /\ Ready(t, taken, session, Announced) /\ t.rec = rec
      /\ rec.video # 0 /\ taken' = Append(taken, e)
      /\ session' = session /\ now' = now /\ up' = up
      /\ BlockSamples \in Nat \ {0} /\ MaxPending \in Nat
  BY DEF RecorderInv, RD!OnSample, RD!State, RD!RecorderAssumption
<1> HIDE DEF t
<1>2. t.rec.video = session /\ Announced' = session /\ Announced = session
  BY <1>1 DEF Ready, Announced
<1>3. e \in Samples
  BY <1>1 DEF Samples
<1>4. /\ taken' \in Seq(Samples) /\ Len(taken') = n /\ n \in Nat /\ n \in DOMAIN taken'
      /\ taken'[n] = e /\ DOMAIN taken \subseteq DOMAIN taken'
      /\ \A i \in DOMAIN taken : taken'[i] = taken[i] /\ i < n
  <2> HIDE DEF e
  <2>1. DOMAIN taken = 1..Len(taken) /\ Len(taken) \in Nat
    BY <1>1
  <2> QED
    BY <1>1, <1>3, <2>1
<1>5. taken'[n].session = session /\ taken'[n].track = track
  BY <1>4
<1> HIDE DEF e, n
<1>6. Whole(t, taken', session, n)
  <2>1. Whole(t, taken, session, n) /\ session \in Nat
    BY <1>1 DEF Ready, n
  <2> QED
    BY <1>4, <2>1, WholeMore
<1>7. /\ Waits(t.rec.pending, t.disk, taken', session)
      /\ \A x \in RD!ToSet(t.rec.pending) : x < n
  BY <1>1, <1>4 DEF Ready, Waits
<1> QED
  BY <1>1, <1>2, <1>4, <1>5, <1>6, <1>7 DEF Ready, Arrives, t, n

LEMMA DirectKeeps ==
  ASSUME NEW t, NEW n, Arrives(t, n), t.rec.open, RD!Wanted(t.rec, n),
         NEW u \in RD!Direct(n)
  PROVE  Ready(u, taken', session, session) /\ u \in States
<1>1. PICK v : v \in RD!Add(t, n) /\ u \in IF v.rec.writer = 0 THEN RD!Close(v) ELSE {v}
  BY DEF RD!Direct, Arrives
<1>2. Fits(n, t.rec.video, HeaderAudio(t.rec), taken')
  BY DEF Fits, Arrives, RD!Wanted, HeaderAudio, RD!Track
<1>3. /\ Whole(t, taken', session, n) /\ n \in Nat /\ session \in Nat /\ now \in Nat
      /\ n <= n /\ BlockSamples \in Nat \ {0} /\ n + 1 \in Nat /\ Len(taken') = n
      /\ t.rec.video = session /\ t.rec.audio \in {0, session} /\ Idle(t.rec)
      /\ MaxPending \in Nat /\ session # 0
  BY DEF Arrives
<1>4. Whole(v, taken', session, n + 1) /\ Onward(t, v)
  BY <1>1, <1>2, <1>3, Adds
<1>5. v.rec.pending = <<>> /\ v.rec.open
  BY <1>3, <1>4 DEF Idle, Onward
<1>6. CASE u = v
  <2>1. Idle(u.rec)
    BY <1>3, <1>4, <1>5, <1>6 DEF Idle, Onward
  <2>2. Waits(u.rec.pending, u.disk, taken', session)
    BY <1>3, <1>5, <1>6, NoneWait
  <2> QED
    BY <1>3, <1>4, <1>6, <2>1, <2>2, WholeStates DEF Ready, Onward
<1>7. CASE u \in RD!Close(v)
  <2>1. Shut(v, u, taken', session, n + 1)
    BY <1>3, <1>4, <1>7, Closes
  <2>2. Whole(u, taken', session, n + 1)
    BY <1>3, <2>1, NothingBuilt DEF Shut
  <2>3. Idle(u.rec)
    BY <2>1 DEF Idle, Shut
  <2>4. Waits(u.rec.pending, u.disk, taken', session)
    BY <1>3, <1>5, <2>1, NoneWait DEF Shut
  <2> QED
    BY <1>3, <1>4, <2>1, <2>2, <2>3, <2>4, WholeStates DEF Ready, Onward, Shut
<1> QED
  BY <1>1, <1>6, <1>7

\* The sample waits with the others.
Waiting(t, n) ==
  [t EXCEPT !.rec.pending = IF Len(@) < MaxPending THEN Append(@, n) ELSE @]

LEMMA Queues ==
  ASSUME NEW t, NEW n, Arrives(t, n), ~t.rec.open
  PROVE  LET u == Waiting(t, n) IN
           /\ u \in States /\ Whole(u, taken', session, n) /\ ~u.rec.open
           /\ u.rec.video = session /\ u.rec.audio \in {0, session}
           /\ u.rec.writer = 0 /\ u.rec.block = <<>>
           /\ Waits(u.rec.pending, u.disk, taken', session)
           /\ \A x \in RD!ToSet(u.rec.pending) : x <= n
<1> DEFINE old == t.rec.pending
           new == IF Len(old) < MaxPending THEN Append(old, n) ELSE old
           u == Waiting(t, n)
<1>1. /\ t \in States /\ t.rec \in Inners /\ Sound(t, taken', session, n)
      /\ Whole(t, taken', session, n) /\ n \in Nat
      /\ t.rec.writer = 0 /\ t.rec.block = <<>>
      /\ Waits(old, t.disk, taken', session)
      /\ \A x \in RD!ToSet(old) : x < n
  BY WholeStates DEF Arrives, Idle
<1>2. old \in Seq(Nat) /\ RD!InTurn(old) /\ Len(old) <= MaxPending /\ MaxPending \in Nat
  BY <1>1 DEF Waits, Arrives
<1>3. /\ u.rec = [t.rec EXCEPT !.pending = new] /\ u.disk = t.disk /\ u.faults = t.faults
      /\ u = [rec |-> u.rec, disk |-> t.disk, faults |-> t.faults]
  <2>1. PICK p : p = new
    OBVIOUS
  <2>2. u = [t EXCEPT !.rec.pending = p]
    BY <2>1 DEF Waiting
  <2> HIDE DEF u, new
  <2>3. /\ u.rec = [t.rec EXCEPT !.pending = p] /\ u.disk = t.disk /\ u.faults = t.faults
        /\ u = [rec |-> u.rec, disk |-> t.disk, faults |-> t.faults]
    BY <1>1, <2>2 DEF States
  <2> QED
    BY <2>1, <2>3
<1> HIDE DEF u
<1>4. CASE Len(old) < MaxPending
  <2> DEFINE c == Append(old, n)
  <2>1. new = c
    BY <1>4
  <2>2. /\ c \in Seq(Nat) /\ Len(c) = Len(old) + 1 /\ Len(old) \in Nat
        /\ DOMAIN c = DOMAIN old \cup {Len(old) + 1} /\ DOMAIN old = 1..Len(old)
        /\ \A i \in DOMAIN old : c[i] = old[i]
        /\ c[Len(old) + 1] = n
    <3> HIDE DEF old
    <3> QED
      BY <1>1, <1>2
  <2> HIDE DEF c
  <2>3. RD!ToSet(c) = RD!ToSet(old) \cup {n} /\ RD!ToSet(old) \subseteq Nat
    <3> HIDE DEF old, new
    <3>1. \A i \in DOMAIN old : old[i] \in Nat
      BY <1>2, <2>2
    <3> QED
      BY <2>2, <3>1 DEF RD!ToSet
  <2>4. RD!InTurn(c)
    <3> SUFFICES ASSUME NEW i \in DOMAIN c, NEW j \in DOMAIN c, i < j PROVE c[i] < c[j]
      BY DEF RD!InTurn
    <3>1. i \in DOMAIN old
      BY <2>2
    <3>2. CASE j \in DOMAIN old
      BY <1>2, <2>2, <3>1, <3>2 DEF RD!InTurn
    <3>3. CASE j = Len(old) + 1
      <4>1. old[i] \in RD!ToSet(old)
        BY <3>1 DEF RD!ToSet
      <4> QED
        BY <1>1, <2>2, <3>1, <3>3, <4>1
    <3> QED
      BY <2>2, <3>2, <3>3
  <2>5. RD!Before(All(t.disk), RD!ToSet(c))
    <3>1. \A x \in All(t.disk) : x < n
      BY <1>1, AllBelow
    <3> QED
      BY <1>1, <2>3, <3>1 DEF Waits, RD!Before
  <2>6. \A x \in RD!ToSet(c) : x \in DOMAIN taken' /\ taken'[x].session = session /\ x <= n
    <3>1. \A x \in RD!ToSet(old) : x \in Nat /\ x < n
      BY <1>1, <2>3
    <3> QED
      BY <1>1, <2>3, <3>1 DEF Waits, Arrives
  <2>7. Len(c) <= MaxPending
    BY <1>2, <1>4, <2>2
  <2> QED
    <3>1. Waits(new, t.disk, taken', session) /\ new \in Seq(Nat)
      BY <2>1, <2>2, <2>4, <2>5, <2>6, <2>7 DEF Waits
    <3>2. \A x \in RD!ToSet(new) : x <= n
      BY <2>1, <2>6
    <3>3. u.rec \in Inners /\ u.rec = [t.rec EXCEPT !.pending = new]
      BY <1>1, <1>3, <3>1 DEF Inners
    <3> HIDE DEF new, old
    <3>4. /\ u.rec.pending = new /\ u.rec.writer = t.rec.writer
          /\ u.rec.current = t.rec.current /\ u.rec.block = t.rec.block
          /\ u.rec.video = t.rec.video /\ u.rec.audio = t.rec.audio
          /\ u.rec.open = t.rec.open
      BY <1>1, <3>3 DEF Inners
    <3>5. u \in States
      BY <1>1, <1>3, <3>3, StateTypes DEF States
    <3>6. Sound(u, taken', session, n)
      BY <1>1, <1>3, <3>4, <3>5, SoundElse, Zenon
    <3>7. Whole(u, taken', session, n)
      BY <1>1, <3>4, <3>6, NothingBuilt DEF Arrives
    <3> QED
      BY <1>1, <1>3, <3>1, <3>2, <3>4, <3>5, <3>7 DEF Arrives, u
<1>5. CASE ~(Len(old) < MaxPending)
  <2>1. u = t
    <3>1. new = old
      BY <1>5
    <3>2. u.rec = t.rec
      <4>1. PICK r : r = t.rec
        OBVIOUS
      <4> HIDE DEF new
      <4>2. u.rec = [r EXCEPT !.pending = r.pending]
        BY <1>3, <3>1, <4>1
      <4>3. r \in Inners
        BY <1>1, <4>1
      <4>4. [r EXCEPT !.pending = r.pending] = r
        BY <4>3 DEF Inners
      <4> QED
        BY <4>1, <4>2, <4>4
    <3>3. t = [rec |-> t.rec, disk |-> t.disk, faults |-> t.faults]
      BY <1>1 DEF States
    <3> HIDE DEF old, new, u
    <3>5. u = [rec |-> t.rec, disk |-> t.disk, faults |-> t.faults]
      BY <1>3, <3>2
    <3> DEFINE e == [rec |-> t.rec, disk |-> t.disk, faults |-> t.faults]
    <3>6. t = e /\ u = e
      BY <3>3, <3>5
    <3> HIDE DEF e
    <3> QED
      BY <3>6
  <2>2. \A x \in RD!ToSet(old) : x <= n
    <3>1. RD!ToSet(old) \subseteq Nat
      BY <1>2 DEF RD!ToSet
    <3> QED
      BY <1>1, <3>1
  <2> QED
    BY <1>1, <2>1, <2>2 DEF Arrives, u
<1> QED
  BY <1>4, <1>5

LEMMA WaitsReady ==
  ASSUME NEW t, NEW n, Arrives(t, n), NEW u \in States,
         Whole(u, taken', session, n), ~u.rec.open,
         u.rec.video = session, u.rec.audio \in {0, session},
         u.rec.writer = 0, u.rec.block = <<>>,
         Waits(u.rec.pending, u.disk, taken', session)
  PROVE  Ready(u, taken', session, session)
<1>1. n \in Nat /\ n + 1 \in Nat /\ n <= n + 1 /\ Len(taken') = n /\ session \in Nat
  BY DEF Arrives
<1>2. Whole(u, taken', session, n + 1)
  BY <1>1, WholeLater
<1> QED
  BY <1>1, <1>2 DEF Ready, Idle

\* The file opens on what waited.
Opens(t) == [RD!Opened(t) EXCEPT !.rec.open = TRUE]

LEMMA OpenedWhole ==
  ASSUME NEW t, NEW T, NEW s \in Nat, NEW m, Whole(t, T, s, m), t.rec.writer = 0,
         t.rec.block = <<>>, now \in Nat, BlockSamples \in Nat \ {0}
  PROVE  LET u == Opens(t) IN
           /\ Whole(u, T, s, m) /\ u.rec.open /\ All(u.disk) = All(t.disk)
           /\ u.rec.video = t.rec.video /\ u.rec.audio = t.rec.audio
           /\ u.rec.pending = t.rec.pending
<1> DEFINE e == RD!Opened(t)
           u == Opens(t)
<1>1. Alike(t, e, T, s, m)
  BY OpensFile DEF Whole
<1> HIDE DEF e
<1>2. e \in States /\ e.rec \in Inners /\ Sound(e, T, s, m) /\ Same(t, e)
  BY <1>1, StateTypes DEF Alike, Sound
<1>3. u = [e EXCEPT !.rec.open = TRUE]
  BY DEF Opens, e
<1>4. /\ u.rec = [e.rec EXCEPT !.open = TRUE] /\ u.disk = e.disk /\ u.faults = e.faults
      /\ u = [rec |-> u.rec, disk |-> u.disk, faults |-> u.faults]
  <2> HIDE DEF u
  <2> QED
    BY <1>2, <1>3 DEF States
<1> HIDE DEF u
<1>5. /\ u.rec \in Inners /\ u.rec.open /\ u.rec.pending = e.rec.pending
      /\ u.rec.video = e.rec.video /\ u.rec.audio = e.rec.audio
      /\ u.rec.writer = e.rec.writer /\ u.rec.current = e.rec.current
      /\ u.rec.block = e.rec.block
  BY <1>2, <1>4 DEF Inners
<1>6. u \in States
  BY <1>2, <1>4, <1>5, StateTypes DEF States
<1>7. Sound(u, T, s, m)
  BY <1>2, <1>4, <1>5, <1>6, SoundElse, Zenon
<1>8. Whole(u, T, s, m)
  BY <1>2, <1>5, <1>7, NothingBuilt DEF Same
<1> QED
  BY <1>1, <1>2, <1>4, <1>5, <1>8 DEF Alike, Same, u

LEMMA HeldKeeps ==
  ASSUME NEW t, NEW n, Arrives(t, n), ~t.rec.open, NEW u \in RD!Held(n)
  PROVE  Ready(u, taken', session, session) /\ u \in States
<1>1. PICK q : q = Waiting(t, n)
  OBVIOUS
<1>2. /\ q \in States /\ Whole(q, taken', session, n) /\ ~q.rec.open
      /\ q.rec.video = session /\ q.rec.audio \in {0, session}
      /\ q.rec.writer = 0 /\ q.rec.block = <<>>
      /\ Waits(q.rec.pending, q.disk, taken', session)
      /\ \A x \in RD!ToSet(q.rec.pending) : x <= n
  BY <1>1, Queues
<1>3. /\ n \in Nat /\ n + 1 \in Nat /\ n <= n + 1 /\ Len(taken') = n /\ session \in Nat
      /\ session # 0 /\ now \in Nat /\ BlockSamples \in Nat \ {0} /\ MaxPending \in Nat
      /\ taken' \in Seq(Samples)
  BY DEF Arrives
<1>4. \/ u = q
      \/ \E v \in RD!OpenWriter(q) : u \in IF v.rec.open THEN RD!AddAll(v) ELSE {v}
  BY <1>1 DEF RD!Held, Waiting, Arrives
<1>5. CASE u = q
  BY <1>2, <1>5, WaitsReady
<1>6. ASSUME NEW v \in RD!Failing(q), u \in IF v.rec.open THEN RD!AddAll(v) ELSE {v}
      PROVE  Ready(u, taken', session, session) /\ u \in States
  <2>1. Sound(q, taken', session, n)
    BY <1>2 DEF Whole
  <2>2. Alike(q, v, taken', session, n) /\ v.rec = q.rec /\ v.disk = q.disk
    BY <2>1, FailsAlike
  <2>3. u = v /\ u \in States
    BY <1>2, <1>6, <2>2 DEF Alike, Sound
  <2>4. Whole(u, taken', session, n)
    BY <1>2, <1>3, <2>2, <2>3, NothingBuilt DEF Alike
  <2> QED
    BY <1>2, <2>2, <2>3, <2>4, WaitsReady
<1>7. CASE u \in RD!AddAll(Opens(q))
  <2>1. PICK v : v = Opens(q)
    OBVIOUS
  <2>2. /\ Whole(v, taken', session, n) /\ v.rec.open /\ All(v.disk) = All(q.disk)
        /\ v.rec.video = q.rec.video /\ v.rec.audio = q.rec.audio
        /\ v.rec.pending = q.rec.pending
    BY <1>2, <1>3, <2>1, OpenedWhole
  <2> DEFINE ns == v.rec.pending
             m == IF ns = <<>> THEN n ELSE ns[1]
  <2>3. /\ ns \in Seq(Nat) /\ RD!InTurn(ns) /\ DOMAIN ns = 1..Len(ns) /\ Len(ns) \in Nat
        /\ \A k \in DOMAIN ns : ns[k] \in Nat /\ ns[k] \in RD!ToSet(ns)
    BY <1>2, <2>2 DEF Waits, RD!ToSet
  <2>4. \A x \in RD!ToSet(ns) :
          /\ x <= n /\ x \in DOMAIN taken' /\ taken'[x].session = session
          /\ \A y \in All(v.disk) : y < x
    BY <1>2, <2>2 DEF Waits, RD!Before
  <2> HIDE DEF ns
  <2>5. m \in Nat /\ m <= n + 1 /\ \A k \in DOMAIN ns : m <= ns[k] /\ ns[k] < n + 1
    <3>1. CASE ns = <<>>
      BY <1>3, <3>1
    <3>2. CASE ns # <<>>
      <4>1. 1 \in DOMAIN ns /\ m = ns[1]
        BY <2>3, <3>2
      <4>2. \A k \in DOMAIN ns : ns[k] \in Nat /\ ns[k] <= n
        BY <2>3, <2>4
      <4>3. ASSUME NEW k \in DOMAIN ns PROVE m <= ns[k]
        <5>1. CASE k = 1
          BY <4>1, <4>2, <5>1
        <5>2. CASE k # 1
          <6>1. 1 < k
            BY <2>3, <5>2
          <6>2. ns[1] < ns[k]
            BY <2>3, <4>1, <6>1 DEF RD!InTurn
          <6> QED
            BY <4>1, <4>2, <6>2
        <5> QED
          BY <5>1, <5>2
      <4>4. ASSUME NEW k \in DOMAIN ns PROVE ns[k] < n + 1
        BY <1>3, <4>2
      <4>5. m \in Nat /\ m <= n + 1
        BY <1>3, <4>1, <4>2
      <4> QED
        BY <4>3, <4>4, <4>5
    <3> QED
      BY <3>1, <3>2
  <2>6. Whole(v, taken', session, m)
    <3>1. CASE ns = <<>>
      BY <2>2, <3>1
    <3>2. CASE ns # <<>>
      <4>1. m = ns[1] /\ ns[1] \in RD!ToSet(ns)
        BY <2>3, <3>2
      <4>2. \A y \in All(v.disk) : y < m
        BY <2>4, <4>1
      <4>3. Sound(v, taken', session, n) /\ v.rec.block = <<>>
        <5>1. v.rec.block = <<>>
          <6>1. Alike(q, RD!Opened(q), taken', session, n)
            BY <1>2, <1>3, OpensFile DEF Whole
          <6>2. RD!Opened(q).rec \in Inners /\ RD!Opened(q) \in States
            BY <6>1, StateTypes DEF Alike, Sound
          <6>3. RD!Opened(q).rec.block = <<>>
            BY <1>2, <6>1 DEF Alike, Same
          <6> QED
            BY <2>1, <6>2, <6>3 DEF Opens, States, Inners
        <5> QED
          BY <2>2, <5>1 DEF Whole
      <4>4. Sound(v, taken', session, m)
        BY <4>2, <4>3, SoundBelow
      <4> QED
        BY <1>3, <4>3, <4>4, NothingBuilt
    <3> QED
      BY <3>1, <3>2
  <2> HIDE DEF m
  <2>7. ASSUME NEW k \in DOMAIN ns, RD!Wanted(v.rec, ns[k])
        PROVE  Fits(ns[k], v.rec.video, HeaderAudio(v.rec), taken')
    <3>1. ns[k] \in DOMAIN taken' /\ taken'[ns[k]].session = session
      BY <2>3, <2>4
    <3>2. taken'[ns[k]].track \in RD!Track
      <4>1. taken'[ns[k]] \in Samples
        BY <1>3, <3>1
      <4> QED
        BY <4>1 DEF Samples
    <3> QED
      BY <1>2, <1>3, <2>2, <2>7, <3>1 DEF Fits, RD!Wanted, HeaderAudio
  <2>8. Entered(v, u, taken', session, n + 1)
    <3>1. \A k \in DOMAIN v.rec.pending :
            /\ m <= v.rec.pending[k] /\ v.rec.pending[k] < n + 1
            /\ RD!Wanted(v.rec, v.rec.pending[k]) =>
                 Fits(v.rec.pending[k], v.rec.video, HeaderAudio(v.rec), taken')
      BY <2>5, <2>7 DEF ns
    <3>2. /\ v.rec.pending \in Seq(Nat) /\ RD!InTurn(v.rec.pending)
          /\ m \in Nat /\ m <= n + 1 /\ n + 1 \in Nat
      BY <1>3, <2>3, <2>5 DEF ns
    <3>3. u \in RD!AddAll(v)
      BY <1>7, <2>1
    <3> HIDE DEF ns
    <3> QED
      BY <1>3, <2>6, <3>1, <3>2, <3>3, AddsAll
  <2>9. /\ Whole(u, taken', session, n + 1) /\ u.rec.pending = <<>> /\ u.rec.open
        /\ u.rec.video = session /\ u.rec.audio \in {0, session}
    BY <1>2, <2>2, <2>8 DEF Entered
  <2>10. Waits(u.rec.pending, u.disk, taken', session)
    BY <1>3, <2>9, NoneWait
  <2>11. Idle(u.rec)
    BY <1>3, <2>9 DEF Idle
  <2> QED
    BY <1>3, <2>9, <2>10, <2>11, WholeStates DEF Ready
<1>8. ASSUME NEW v, v = Opens(q), u \in IF v.rec.open THEN RD!AddAll(v) ELSE {v}
      PROVE  u \in RD!AddAll(Opens(q))
  <2>1. v.rec.open
    BY <1>2, <1>3, <1>8, OpenedWhole
  <2> QED
    BY <1>8, <2>1
<1> QED
  BY <1>4, <1>5, <1>6, <1>7, <1>8 DEF RD!OpenWriter, Opens

LEMMA SampleKeeps ==
  ASSUME RD!RecorderAssumption, RecorderInv, NEW track \in RD!Track, NEW key \in BOOLEAN,
         RD!OnSample(track, key)
  PROVE  RecorderInv'
<1>1. PICK t, n : t = RD!State /\ n = Len(taken) + 1
  OBVIOUS
<1>2. /\ Arrives(t, n) /\ session' = session /\ now' = now /\ up' = up
      /\ Announced' = session
  BY <1>1, Arrival
<1>3. t.rec = rec
  BY <1>1 DEF RD!State
<1>4. ASSUME Ready(RD!State', taken', session, session) PROVE RecorderInv'
  BY <1>2, <1>4 DEF RecorderInv, Arrives
<1>5. CASE ~rec.open /\ \E s \in RD!Held(Len(taken) + 1) : RD!Becomes(s)
  <2>1. PICK u \in RD!Held(n) : RD!Becomes(u)
    BY <1>1, <1>5
  <2>2. Ready(u, taken', session, session) /\ u \in States
    BY <1>2, <1>3, <1>5, HeldKeeps
  <2> QED
    BY <1>4, <2>1, <2>2, Became
<1>6. CASE /\ rec.open /\ RD!Wanted(rec, Len(taken) + 1)
           /\ \E s \in RD!Direct(Len(taken) + 1) : RD!Becomes(s)
  <2>1. PICK u \in RD!Direct(n) : RD!Becomes(u)
    BY <1>1, <1>6
  <2>2. Ready(u, taken', session, session) /\ u \in States
    BY <1>1, <1>2, <1>3, <1>6, DirectKeeps
  <2> QED
    BY <1>4, <2>1, <2>2, Became
<1>7. CASE rec.open /\ UNCHANGED <<rec, disk, failed>>
  <2>1. RD!State' = t
    BY <1>1, <1>7 DEF RD!State
  <2>2. /\ n \in Nat /\ n <= n + 1 /\ n + 1 \in Nat /\ Len(taken') = n /\ session \in Nat
        /\ Whole(t, taken', session, n)
    BY <1>2 DEF Arrives
  <2>3. Whole(t, taken', session, n + 1)
    BY <2>2, WholeLater
  <2>4. Ready(t, taken', session, session)
    BY <1>2, <2>2, <2>3 DEF Ready, Arrives
  <2> QED
    BY <1>4, <2>1, <2>4
<1> QED
  BY <1>5, <1>6, <1>7 DEF RD!OnSample

LEMMA RecorderKeeps ==
  ASSUME RD!RecorderAssumption, RecorderInv, [RD!Next]_(RD!vars)
  PROVE  RecorderInv'
<1>1. CASE RD!OnVideoFormat
  BY <1>1, VideoKeeps
<1>2. CASE RD!OnAudioFormat
  BY <1>2, AudioKeeps
<1>3. ASSUME NEW key \in BOOLEAN, RD!OnSample("video", key) PROVE RecorderInv'
  BY <1>3, SampleKeeps DEF RD!Track
<1>4. CASE RD!OnSample("audio", FALSE)
  BY <1>4, SampleKeeps DEF RD!Track
<1>5. CASE RD!OnStreamStopped
  BY <1>5, StopKeeps
<1>6. CASE RD!Tick
  BY <1>6 DEF RD!Tick, RecorderInv, RD!State, Announced
<1>7. CASE UNCHANGED RD!vars
  BY <1>7 DEF RD!vars, RecorderInv, RD!State, Announced
<1> QED
  BY <1>1, <1>2, <1>3, <1>4, <1>5, <1>6, <1>7 DEF RD!Next

LEMMA RecorderSound ==
  ASSUME RecorderInv
  PROVE  RD!FilesSound
<1>1. PICK t : t = RD!State
  OBVIOUS
<1>2. t.rec = rec /\ t.disk = disk /\ Ready(t, taken, session, Announced)
  BY <1>1 DEF RD!State, RecorderInv
<1>3. /\ t \in States /\ rec \in Inners /\ DiskGood(disk, taken, session, Len(taken) + 1)
      /\ WriterGood(rec, disk) /\ Sound(t, taken, session, Len(taken) + 1)
      /\ Follows(rec.block, t, taken, Len(taken) + 1) /\ Len(rec.block) < BlockSamples
      /\ Idle(rec) /\ Waits(rec.pending, disk, taken, session)
  BY <1>2, WholeStates DEF Ready, Whole, Sound
<1>4. \A f \in DOMAIN disk : disk[f] \in Filed /\ FileGood(disk[f], taken, session, Len(taken) + 1)
  BY <1>3 DEF DiskGood
<1>5. \A f \in DOMAIN disk : RD!InFile(f) = Of(disk[f])
  BY DEF RD!InFile, Of
<1>6. RD!OnDisk = All(disk)
  BY <1>5 DEF RD!OnDisk, All
<1>7. rec.block = <<>> \/ rec.pending = <<>>
  BY <1>3 DEF Idle
<1>8. rec.block \in Seq(Nat) /\ rec.pending \in Seq(Nat)
  BY <1>3 DEF Follows, Waits
<1>9. rec.block \o rec.pending = rec.block \/ rec.block \o rec.pending = rec.pending
  <2>1. rec.block \o <<>> = rec.block
    BY <1>8
  <2>2. <<>> \o rec.pending = rec.pending
    BY <1>8
  <2> QED
    BY <1>7, <2>1, <2>2
<1>10. RD!TypeOK
  <2>1. \A f \in DOMAIN disk :
          /\ disk[f].state \in {"open", "closed", "dropped"}
          /\ {disk[f].video, disk[f].audio} \subseteq 0..session
          /\ \A i \in DOMAIN disk[f].blocks : Len(disk[f].blocks[i]) \in 1..BlockSamples
    BY <1>4 DEF Filed, FileGood
  <2>2. {rec.writer, rec.current} \subseteq 0..Len(disk)
    BY <1>2, <1>3, StateTypes DEF WriterGood
  <2>3. rec.open \in BOOLEAN /\ {rec.video, rec.audio} \subseteq 0..session
    BY <1>2, <1>3 DEF Sound, Inners
  <2>4. Len(rec.pending) <= MaxPending /\ (rec.block # <<>> => rec.open)
    BY <1>3 DEF Waits, Idle
  <2> QED
    BY <1>3, <2>1, <2>2, <2>3, <2>4 DEF RD!TypeOK, RecorderInv
<1>11. RD!OnceAndInOrder
  <2>1. \A f \in DOMAIN disk : \A i \in DOMAIN disk[f].blocks :
          /\ RD!InTurn(disk[f].blocks[i])
          /\ \A j \in DOMAIN disk[f].blocks :
               i < j => RD!Before(RD!ToSet(disk[f].blocks[i]), RD!ToSet(disk[f].blocks[j]))
    BY <1>4 DEF FileGood
  <2>2. \A f, g \in DOMAIN disk : f < g => RD!Before(RD!InFile(f), RD!InFile(g))
    BY <1>3, <1>5 DEF DiskGood
  <2>3. /\ RD!InTurn(rec.block \o rec.pending)
        /\ RD!Before(RD!OnDisk, RD!ToSet(rec.block \o rec.pending))
    BY <1>2, <1>3, <1>6, <1>9 DEF Follows, Waits
  <2> QED
    BY <2>1, <2>2, <2>3 DEF RD!OnceAndInOrder
<1>12. RD!HeaderDescribesFile
  BY <1>4, <1>5 DEF FileGood, Fits, RD!HeaderDescribesFile
<1>13. RD!OneFileOpen
  BY <1>3 DEF WriterGood, RD!OneFileOpen
<1> QED
  BY <1>10, <1>11, <1>12, <1>13 DEF RD!FilesSound

-----------------------------------------------------------------------------
(* The results *)

\* The types of the two files, and that the footer, the sidecar and the index
\* a reader makes of them are those of the blocks in the file, at every step of
\* writing, closing, dying and repairing it (writer.rs, sidecar.rs, reader.rs,
\* repair.rs).
THEOREM FileAlwaysSound ==
  ASSUME PowerAlone
  PROVE  Spec => []FileSound
<1>1. Spec => []IInv
  BY Inductive
<1>2. IInv => FileSound
  BY Types, Exact, Behind DEF FileSound
<1> QED
  BY <1>1, <1>2, PTL

\* What a repair leaves before it deletes the sidecar is a file closed properly
\* (finalize_one, append_index_and_footer).
THEOREM RepairsClose ==
  ASSUME PowerAlone
  PROVE  Spec => []RepairedIsClosed
<1>1. Spec => []IInv
  BY Inductive
<1>2. IInv => RepairedIsClosed
  BY Repaired
<1> QED
  BY <1>1, <1>2, PTL

\* No step but a power loss takes a block from the file, and the writer deletes
\* the sidecar only with the index readable through the footer (close).
THEOREM NothingGoes ==
  ASSUME PowerAlone
  PROVE  Spec => NothingGoesEarly
<1>1. Spec => []IInv
  BY Inductive
<1>2. IInv /\ [Next]_vars =>
        [faults'["power"] = faults["power"] => IsPrefix(Blocks(vms), Blocks(vms'))]_vars
  BY StepKeepsBlocks
<1>3. IInv /\ [Next]_vars =>
        [pc = "c_sidecar" /\ sidecar.exists /\ ~sidecar'.exists => IndexInFooter(vms)]_vars
  BY StepKeepsSidecar
<1> QED
  BY <1>1, <1>2, <1>3, PTL DEF Spec, NothingGoesEarly, BlocksSurvive, WriterKeepsSidecar

\* Seen through a reader a recording is the append-only log of RecordingView:
\* it grows block by block until it is closed, and only a power loss cuts it.
THEOREM FileIsALog ==
  ASSUME PowerAlone
  PROVE  Spec => ViewSpec
<1>1. Spec => []IInv
  BY Inductive
<1>2. Init => View!Init
  BY StartIsViews
<1>3. IInv /\ [Next]_vars => [View!Next]_(View!vars)
  BY StepIsViews
<1> QED
  BY <1>1, <1>2, <1>3, PTL DEF Spec, ViewSpec, View!Spec

\* However the sessions announce their tracks and end, with any limits of blocks
\* and files, and whichever creations and writes fail: what is recorded is
\* recorded once and in order, under the header of its session, in the one file
\* that is open (recorder.rs, block_builder.rs).
THEOREM RecordedOnceInOrder == RecorderSpec => []FilesSound
<1>0. RD!RecorderAssumption
  BY RecorderAssumption
<1>1. RD!Init => RecorderInv
  BY <1>0, RecorderStarts
<1>2. RecorderInv /\ [RD!Next]_(RD!vars) => RecorderInv'
  BY <1>0, RecorderKeeps
<1>3. RecorderInv => FilesSound
  BY RecorderSound DEF FilesSound
<1> QED
  BY <1>1, <1>2, <1>3, PTL DEF RecorderSpec, RD!Spec

=============================================================================
