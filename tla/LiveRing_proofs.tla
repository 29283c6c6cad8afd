--------------------------- MODULE LiveRing_proofs ---------------------------
(***************************************************************************)
(* Proofs about the ring, for every capacity, limit, set of formats and     *)
(* bound: its type, that it holds exactly the samples it counts, and that   *)
(* these are of the formats it announces.                                   *)
(***************************************************************************)
EXTENDS LiveRing, TLAPS, WellFoundedInduction

-----------------------------------------------------------------------------
(* Arithmetic of the slots *)

LEMMA DivMod ==
  ASSUME NEW a \in Int, NEW k \in Nat \ {0}
  PROVE  /\ a = k * (a \div k) + (a % k)
         /\ a \div k \in Int
         /\ a % k \in 0..(k - 1)
BY SMT

LEMMA Multiple ==
  ASSUME NEW k \in Nat \ {0}, NEW m \in Int, m >= 1
  PROVE  k * m >= k
BY SMT

\* Two sequence numbers less than a lap apart have different slots.
LEMMA SlotsDistinct ==
  ASSUME NEW a \in Int, NEW b \in Int, a < b, b - a < Cap
  PROVE  Slot(a) # Slot(b)
<1>0. Cap \in Nat \ {0}
  BY LiveRingAssumption
<1>1. SUFFICES ASSUME (a % Cap) = (b % Cap) PROVE FALSE
  BY DEF Slot
<1> DEFINE p == a \div Cap
           q == b \div Cap
           m == q - p
<1>2. a = Cap * p + (a % Cap) /\ b = Cap * q + (b % Cap) /\ p \in Int /\ q \in Int
  BY <1>0, DivMod
<1>3. b - a = Cap * m /\ m \in Int
  BY <1>0, <1>1, <1>2, DivMod, SMT
<1>4. m >= 1
  <2>1. CASE m >= 1
    BY <2>1
  <2>2. CASE m <= 0
    <3>1. Cap * m <= 0
      BY <1>0, <1>3, <2>2, SMT
    <3> QED
      BY <3>1, <1>3
  <2> QED
    BY <1>3, <2>1, <2>2
<1> HIDE DEF m
<1>5. Cap * m >= Cap
  BY <1>0, <1>3, <1>4, Multiple
<1> QED
  BY <1>0, <1>3, <1>5

LEMMA SlotType ==
  ASSUME NEW a \in Int
  PROVE  Slot(a) \in SlotIds
BY LiveRingAssumption, DivMod DEF Slot, SlotIds

-----------------------------------------------------------------------------
(* Greatest elements, for the CHOOSEs of a consumer *)

LEMMA Least ==
  ASSUME NEW T, T \subseteq Nat, T # {}
  PROVE  \E x \in T : \A y \in T : x <= y
<1>1. IsWellFoundedOn(OpToRel(<, Nat), Nat)
  BY NatLessThanWellFounded
<1>2. PICK x \in T : \A y \in T : ~(<<y, x>> \in OpToRel(<, Nat))
  <2> HIDE DEF OpToRel
  <2> QED
    BY <1>1, WFMin
<1>3. ASSUME NEW y \in T PROVE x <= y
  <2>1. ~(y < x)
    BY <1>2 DEF OpToRel
  <2> QED
    BY <2>1
<1> QED
  BY <1>3

LEMMA Greatest ==
  ASSUME NEW T, T \subseteq Int, T # {}, NEW b \in Int, \A x \in T : x <= b
  PROVE  \E x \in T : \A y \in T : y <= x
<1> DEFINE D == {n \in Nat : b - n \in T}
<1>1. \A x \in T : b - x \in D
  <2> TAKE x \in T
  <2>1. b - x \in Nat /\ b - (b - x) = x
    BY SMT
  <2> QED
    BY <2>1
<1>2. PICK d \in D : \A e \in D : d <= e
  <2>1. D \subseteq Nat /\ D # {}
    BY <1>1
  <2> HIDE DEF D
  <2> QED
    BY <2>1, Least
<1>3. d \in Nat /\ b - d \in T
  OBVIOUS
<1>4. ASSUME NEW y \in T PROVE y <= b - d
  <2>1. d <= b - y
    BY <1>1, <1>2
  <2> HIDE DEF D
  <2> QED
    BY <1>3, <2>1, SMT
<1> QED
  BY <1>3, <1>4

-----------------------------------------------------------------------------
(* Types *)

LEMMA NewItemType ==
  ASSUME RingTypeOK, NEW t \in Track, NEW key \in BOOLEAN, NEW size \in Sizes,
         Announced(t)
  PROVE  NewItem(t, key, size) \in Item
<1>1. format[t] \in VFormats \cup AFormats
  BY DEF RingTypeOK, Announced, Track
<1> QED
  BY <1>1 DEF RingTypeOK, NewItem, Item

LEMMA InitTypeOK ==
  ASSUME RingInit, now \in Nat, gen \in Nat
  PROVE  RingTypeOK
BY DEF RingInit, RingTypeOK, Track

LEMMA ClearTypeOK ==
  ASSUME RingTypeOK, Clear
  PROVE  /\ slots' \in [SlotIds -> Item \cup {NoItem}]
         /\ first' \in Nat /\ next' \in Nat
BY DEF RingTypeOK, Clear

LEMMA FormatTypeOK ==
  ASSUME RingTypeOK, NEW t \in Track, NEW f, PublishFormat(t, f),
         t = "video" => f \in VFormats, t = "audio" => f \in AFormats
  PROVE  RingTypeOK'
<1>1. /\ slots' \in [SlotIds -> Item \cup {NoItem}]
      /\ first' \in Nat /\ next' \in Nat
  BY ClearTypeOK DEF PublishFormat, RingTypeOK
<1>2. epoch' \in Nat
  BY DEF PublishFormat, RingTypeOK
<1>3. /\ format'["video"] \in VFormats \cup {NoFormat}
      /\ format'["audio"] \in AFormats \cup {NoFormat}
      /\ format' \in [Track -> VFormats \cup AFormats \cup {NoFormat}]
  BY DEF PublishFormat, RingTypeOK, Track
<1>4. up' \subseteq Track /\ \A u \in up' : format'[u] # NoFormat
  BY LiveRingAssumption DEF PublishFormat, RingTypeOK, Track
<1> QED
  BY <1>1, <1>2, <1>3, <1>4 DEF PublishFormat, RingTypeOK

\* What publish does to the slots, with its choice of the oldest sample kept
\* abstracted to a sequence number.
LEMMA PublishSlots ==
  ASSUME RingTypeOK, NEW t \in Track, NEW key \in BOOLEAN, NEW size \in Sizes,
         Publish(t, key, size)
  PROVE  \E f0 \in {first, first + 1}, f \in Int :
           /\ f0 = (IF Full THEN first + 1 ELSE first)
           /\ f0 <= f /\ f <= next + 1
           /\ first' = f
           /\ next' = next + 1
           /\ slots' = [i \in SlotIds |->
                          IF \E s \in f0..(f - 1) : Slot(s) = i THEN NoItem
                          ELSE IF i = Slot(next) THEN NewItem(t, key, size)
                          ELSE IF Full /\ i = Slot(first) THEN NoItem
                          ELSE slots[i]]
<1> DEFINE f0 == IF Full THEN first + 1 ELSE first
           s0 == IF Full THEN [slots EXCEPT ![Slot(first)] = NoItem] ELSE slots
           s1 == [s0 EXCEPT ![Slot(next)] = NewItem(t, key, size)]
<1>1. PICK f \in f0..(next + 1) :
        /\ first' = f
        /\ slots' = [i \in SlotIds |->
                       IF \E s \in f0..(f - 1) : Slot(s) = i
                       THEN NoItem ELSE s1[i]]
  BY DEF Publish
<1>2. first \in Nat /\ next \in Nat /\ f0 \in {first, first + 1}
  BY DEF RingTypeOK
<1>3. \A i \in SlotIds :
        s1[i] = IF i = Slot(next) THEN NewItem(t, key, size)
                ELSE IF Full /\ i = Slot(first) THEN NoItem ELSE slots[i]
  BY DEF RingTypeOK
<1>4. next' = next + 1
  BY DEF Publish
<1> HIDE DEF s1
<1> QED
  BY <1>1, <1>2, <1>3, <1>4

LEMMA PublishTypeOK ==
  ASSUME RingTypeOK, NEW t \in Track, NEW key \in BOOLEAN, NEW size \in Sizes,
         Publish(t, key, size)
  PROVE  RingTypeOK'
<1>1. NewItem(t, key, size) \in Item
  BY NewItemType DEF Publish
<1>2. /\ slots' \in [SlotIds -> Item \cup {NoItem}]
      /\ first' \in Nat /\ next' \in Nat
  BY <1>1, PublishSlots DEF RingTypeOK
<1>3. lastMs' \in Nat /\ lastVideo' \in Int
  BY DEF Publish, RingTypeOK
<1> QED
  BY <1>2, <1>3 DEF Publish, RingTypeOK

\* The type invariant is inductive.
LEMMA CameraTypeOK ==
  ASSUME RingTypeOK, [Camera]_ringVars
  PROVE  RingTypeOK'
<1>1. ASSUME NEW f \in VFormats, PublishFormat("video", f) PROVE RingTypeOK'
  BY <1>1, FormatTypeOK DEF Track
<1>2. ASSUME NEW f \in AFormats, PublishFormat("audio", f) PROVE RingTypeOK'
  BY <1>2, FormatTypeOK DEF Track
<1>3. ASSUME NEW key \in BOOLEAN, NEW size \in Sizes, Publish("video", key, size)
      PROVE  RingTypeOK'
  BY <1>3, PublishTypeOK DEF Track
<1>4. ASSUME NEW size \in Sizes, Publish("audio", FALSE, size) PROVE RingTypeOK'
  BY <1>4, PublishTypeOK DEF Track
<1>5. ASSUME Stopped PROVE RingTypeOK'
  <2>1. /\ slots' \in [SlotIds -> Item \cup {NoItem}]
        /\ first' \in Nat /\ next' \in Nat
    BY <1>5, ClearTypeOK DEF Stopped
  <2> QED
    BY <1>5, <2>1 DEF Stopped, RingTypeOK
<1>6. ASSUME Tick PROVE RingTypeOK'
  BY <1>6 DEF Tick, RingTypeOK, ring
<1>7. ASSUME UNCHANGED ringVars PROVE RingTypeOK'
  BY <1>7 DEF ringVars, ring, camera, RingTypeOK
<1> QED
  BY <1>1, <1>2, <1>3, <1>4, <1>5, <1>6, <1>7 DEF Camera

\* The ring's fields always have their types (live.rs, Ring).
THEOREM RingType == RingSpec => []RingTypeOK
<1>1. Start => RingTypeOK
  BY InitTypeOK DEF Start
<1>2. RingTypeOK /\ [Camera]_ringVars => RingTypeOK'
  BY CameraTypeOK
<1> QED
  BY <1>1, <1>2, PTL DEF RingSpec

-----------------------------------------------------------------------------
(* The samples kept *)

LEMMA ClearFaithful ==
  ASSUME RingTypeOK, RingFaithful, Clear
  PROVE  RingFaithful' /\ Kept' = {}
<1>1. first' = next /\ next' = next /\ next \in Nat
  BY DEF Clear, RingTypeOK
<1>2. ASSUME NEW i \in SlotIds PROVE slots'[i] = NoItem
  <2>1. slots'[i] = IF \E s \in Kept : Slot(s) = i THEN NoItem ELSE slots[i]
    BY DEF Clear
  <2>2. CASE slots[i] = NoItem
    BY <2>1, <2>2
  <2>3. CASE slots[i] # NoItem
    BY <2>1, <2>3 DEF RingFaithful
  <2> QED
    BY <2>2, <2>3
<1>3. Kept' = {}
  BY <1>1 DEF Kept
<1>4. 0 <= Cap
  BY LiveRingAssumption
<1> QED
  BY <1>1, <1>2, <1>3, <1>4 DEF RingFaithful

\* A publish keeps what it keeps: every sample still counted is the new one, or
\* was there before, in its own slot.
LEMMA PublishKeeps ==
  ASSUME RingTypeOK, RingFaithful,
         NEW t \in Track, NEW key \in BOOLEAN, NEW size \in Sizes,
         Publish(t, key, size)
  PROVE  /\ RingFaithful'
         /\ next' = next + 1 /\ first <= first' /\ first' \in Nat
         /\ \A s \in Kept' :
              \/ s = next /\ ItemAt(s)' = NewItem(t, key, size)
              \/ s \in Kept /\ ItemAt(s)' = ItemAt(s)
<1> DEFINE item == NewItem(t, key, size)
<1>1. PICK f0 \in {first, first + 1}, f \in Int :
        /\ f0 = (IF Full THEN first + 1 ELSE first)
        /\ f0 <= f /\ f <= next + 1
        /\ first' = f
        /\ next' = next + 1
        /\ slots' = [i \in SlotIds |->
                       IF \E s \in f0..(f - 1) : Slot(s) = i THEN NoItem
                       ELSE IF i = Slot(next) THEN item
                       ELSE IF Full /\ i = Slot(first) THEN NoItem
                       ELSE slots[i]]
  BY PublishSlots
<1>2. /\ first \in Nat /\ next \in Nat /\ Cap \in Nat \ {0}
      /\ first <= next /\ next - first <= Cap
  BY LiveRingAssumption DEF RingTypeOK, RingFaithful
<1>3. item \in Item /\ item # NoItem /\ item.seq = next
  BY NewItemType, NoItemAssumption DEF Publish, NewItem
<1>4. f0 \in Nat /\ f \in Nat /\ first <= f0 /\ f0 <= next /\ next + 1 - f0 <= Cap
      /\ (Full => f0 = first + 1)
  BY <1>1, <1>2 DEF Full
<1>5. \A i \in SlotIds :
        slots'[i] = IF \E s \in f0..(f - 1) : Slot(s) = i THEN NoItem
                    ELSE IF i = Slot(next) THEN item
                    ELSE IF Full /\ i = Slot(first) THEN NoItem
                    ELSE slots[i]
  BY <1>1
<1>6. first' <= next' /\ next' - first' <= Cap
  BY <1>1, <1>2, <1>4
<1> HIDE DEF item
<1>7. ASSUME NEW s \in Kept'
      PROVE  /\ ItemAt(s)' # NoItem /\ ItemAt(s)'.seq = s
             /\ \/ s = next /\ ItemAt(s)' = item
                \/ s \in Kept /\ ItemAt(s)' = ItemAt(s)
  <2>1. s \in Int /\ f <= s /\ s <= next
    BY <1>1, <1>2 DEF Kept
  <2>2. Slot(s) \in SlotIds
    BY <2>1, SlotType
  <2>3. ~\E q \in f0..(f - 1) : Slot(q) = Slot(s)
    <3> SUFFICES ASSUME NEW q \in f0..(f - 1) PROVE Slot(q) # Slot(s)
      OBVIOUS
    <3> q < s /\ s - q < Cap
      BY <1>2, <1>4, <2>1
    <3> QED
      BY <1>4, <2>1, SlotsDistinct
  <2>4. CASE s = next
    BY <1>3, <1>5, <2>2, <2>3, <2>4 DEF ItemAt
  <2>5. CASE s # next
    <3>1. Slot(s) # Slot(next)
      <4>1. s < next /\ next - s < Cap
        BY <1>1, <1>2, <1>4, <2>1, <2>5
      <4> QED
        BY <1>2, <2>1, <4>1, SlotsDistinct
    <3>2. Full => Slot(first) # Slot(s)
      <4>1. Full => first < s /\ s - first < Cap
        BY <1>1, <1>2, <1>4, <2>1, <2>5
      <4> QED
        BY <1>2, <2>1, <4>1, SlotsDistinct
    <3>3. s \in Kept
      BY <1>1, <1>2, <1>4, <2>1, <2>5 DEF Kept
    <3>4. ItemAt(s)' = ItemAt(s)
      BY <1>5, <2>2, <2>3, <3>1, <3>2 DEF ItemAt
    <3> QED
      BY <3>3, <3>4 DEF RingFaithful
  <2> QED
    BY <2>4, <2>5
<1>8. ASSUME NEW i \in SlotIds, slots'[i] # NoItem
      PROVE  slots'[i].seq \in Kept' /\ Slot(slots'[i].seq) = i
  <2>1. ~\E s \in f0..(f - 1) : Slot(s) = i
    BY <1>5, <1>8
  <2>2. CASE i = Slot(next)
    <3>1. slots'[i] = item
      BY <1>5, <2>1, <2>2
    <3>2. f <= next
      <4>1. next \notin f0..(f - 1)
        BY <2>1, <2>2
      <4> QED
        BY <1>1, <1>2, <1>4, <4>1
    <3> QED
      BY <1>1, <1>2, <1>3, <1>4, <2>2, <3>1, <3>2 DEF Kept
  <2>3. CASE i # Slot(next)
    <3>1. ~(Full /\ i = Slot(first)) /\ slots'[i] = slots[i]
      BY <1>5, <1>8, <2>1, <2>3
    <3>2. slots[i].seq \in Kept /\ Slot(slots[i].seq) = i
      BY <1>8, <3>1 DEF RingFaithful
    <3>3. slots[i].seq \in Int /\ f0 <= slots[i].seq /\ slots[i].seq < next
      BY <1>1, <1>2, <3>1, <3>2 DEF Kept
    <3>4. f <= slots[i].seq
      BY <1>4, <2>1, <3>2, <3>3
    <3> QED
      BY <1>1, <1>2, <1>4, <3>1, <3>2, <3>3, <3>4 DEF Kept
  <2> QED
    BY <2>2, <2>3
<1>9. RingFaithful'
  BY <1>6, <1>7, <1>8 DEF RingFaithful
<1> QED
  BY <1>1, <1>2, <1>4, <1>7, <1>9 DEF item

LEMMA InitFaithful ==
  ASSUME RingInit
  PROVE  RingFaithful /\ Kept = {}
BY LiveRingAssumption DEF RingInit, RingFaithful, Kept

\* The samples kept stay exact through every operation.
LEMMA CameraFaithful ==
  ASSUME RingTypeOK, RingFaithful, [Camera]_ringVars
  PROVE  RingFaithful'
<1>1. ASSUME NEW t \in Track, NEW f, PublishFormat(t, f) PROVE RingFaithful'
  <2>1. CASE Changes(t, f)
    BY <1>1, <2>1, ClearFaithful DEF PublishFormat
  <2>2. CASE ~Changes(t, f)
    BY <1>1, <2>2 DEF PublishFormat, RingFaithful, Kept, ItemAt
  <2> QED
    BY <2>1, <2>2
<1>2. ASSUME NEW t \in Track, NEW key \in BOOLEAN, NEW size \in Sizes,
             Publish(t, key, size)
      PROVE  RingFaithful'
  BY <1>2, PublishKeeps
<1>3. ASSUME Stopped PROVE RingFaithful'
  BY <1>3, ClearFaithful DEF Stopped
<1>4. ASSUME Tick \/ UNCHANGED ringVars PROVE RingFaithful'
  BY <1>4 DEF Tick, ringVars, ring, camera, RingFaithful, Kept, ItemAt
<1> QED
  BY <1>1, <1>2, <1>3, <1>4 DEF Camera, Track

\* The ring holds exactly the samples it counts, each in its own slot, at any
\* fill level and after any wrap (publish, drop_oldest, clear, trim).
THEOREM RingHoldsWhatItCounts == RingSpec => []RingFaithful
<1>1. Start => RingTypeOK /\ RingFaithful
  BY InitTypeOK, InitFaithful DEF Start
<1>2. RingTypeOK /\ RingFaithful /\ [Camera]_ringVars => RingTypeOK' /\ RingFaithful'
  BY CameraTypeOK, CameraFaithful
<1> QED
  BY <1>1, <1>2, PTL DEF RingSpec

-----------------------------------------------------------------------------
(* The formats of what is kept *)

LEMMA CameraOneFormat ==
  ASSUME RingTypeOK, RingFaithful, OneFormat, [Camera]_ringVars
  PROVE  OneFormat'
<1>1. ASSUME NEW t \in Track, NEW f, PublishFormat(t, f) PROVE OneFormat'
  <2>1. CASE Changes(t, f)
    BY <1>1, <2>1, ClearFaithful DEF PublishFormat, OneFormat
  <2>2. CASE ~Changes(t, f)
    <3>1. format' = format
      BY <1>1, <2>2 DEF PublishFormat, Changes, RingTypeOK
    <3> QED
      BY <1>1, <2>2, <3>1 DEF PublishFormat, OneFormat, Kept, ItemAt
  <2> QED
    BY <2>1, <2>2
<1>2. ASSUME NEW t \in Track, NEW key \in BOOLEAN, NEW size \in Sizes,
             Publish(t, key, size)
      PROVE  OneFormat'
  <2>1. format' = format /\ gen' = gen
    BY <1>2 DEF Publish
  <2>2. NewItem(t, key, size).fmt = format[NewItem(t, key, size).track]
        /\ NewItem(t, key, size).gen = gen
    BY DEF NewItem
  <2>3. ASSUME NEW s \in Kept'
        PROVE  ItemAt(s)'.fmt = format[ItemAt(s)'.track] /\ ItemAt(s)'.gen = gen
    BY <1>2, <2>2, PublishKeeps DEF OneFormat
  <2> QED
    BY <2>1, <2>3 DEF OneFormat
<1>3. ASSUME Stopped PROVE OneFormat'
  BY <1>3, ClearFaithful DEF Stopped, OneFormat
<1>4. ASSUME Tick \/ UNCHANGED ringVars PROVE OneFormat'
  BY <1>4 DEF Tick, ringVars, ring, camera, OneFormat, Kept, ItemAt
<1> QED
  BY <1>1, <1>2, <1>3, <1>4 DEF Camera, Track

\* A header read at any moment describes every sample in the ring: no sample of
\* another format, or of an earlier camera session, outlives the announcement
\* or the stop (publish_*_format and notify_stopped).
THEOREM HeaderDescribesTheRing == RingSpec => []OneFormat
<1>1. Start => RingTypeOK /\ RingFaithful /\ OneFormat
  BY InitTypeOK, InitFaithful DEF Start, OneFormat
<1>2. RingTypeOK /\ RingFaithful /\ OneFormat /\ [Camera]_ringVars
        => RingTypeOK' /\ RingFaithful' /\ OneFormat'
  BY CameraTypeOK, CameraFaithful, CameraOneFormat
<1> QED
  BY <1>1, <1>2, PTL DEF RingSpec

-----------------------------------------------------------------------------
(* The bytes of what is kept *)

\* The recursive function of SizeOf, for any beginning and end.
SumsTo(f, items, a, b) ==
  [s \in a..b |-> IF s = a THEN 0 ELSE f[s - 1] + items[Slot(s - 1)].size]

Sums(items, a, b) == CHOOSE f : f = SumsTo(f, items, a, b)

LEMMA SizeIsLastSum ==
  ASSUME NEW items, NEW a, NEW b
  PROVE  SizeOf(items, a, b) = Sums(items, a, b)[b]
BY DEF SizeOf, Sums, SumsTo

LEMMA SumsExist ==
  ASSUME NEW items, NEW a \in Int, NEW n \in Nat
  PROVE  \E f : f = SumsTo(f, items, a, a + n)
<1> DEFINE S == {k \in 0..n : ~\E f : f = SumsTo(f, items, a, a + k)}
<1>1. SUFFICES ASSUME S # {} PROVE FALSE
  <2>1. n \in 0..n
    OBVIOUS
  <2> QED
    BY <1>1, <2>1
<1>2. PICK k \in S : \A j \in S : k <= j
  <2>1. S \subseteq Nat
    OBVIOUS
  <2> HIDE DEF S
  <2> QED
    BY <1>1, <2>1, Least
<1>3. k \in 0..n /\ ~\E f : f = SumsTo(f, items, a, a + k)
  OBVIOUS
<1>4. CASE k = 0
  <2> DEFINE f == [s \in a..a |-> 0]
  <2>1. f = SumsTo(f, items, a, a + 0)
    BY DEF SumsTo
  <2> QED
    BY <1>3, <1>4, <2>1
<1>5. CASE k > 0
  <2>1. k - 1 \in 0..n /\ ~(k - 1 \in S)
    BY <1>2, <1>3, <1>5
  <2>2. PICK f : f = SumsTo(f, items, a, a + (k - 1))
    BY <2>1
  <2> DEFINE e == a + k
             g == [s \in a..e |-> IF s = e THEN f[s - 1] + items[Slot(s - 1)].size
                                  ELSE f[s]]
  <2>3. \A s \in a..(e - 1) :
          f[s] = IF s = a THEN 0 ELSE f[s - 1] + items[Slot(s - 1)].size
    <3>1. a + (k - 1) = e - 1
      BY <1>3
    <3> HIDE DEF g, S, e
    <3> QED
      BY <2>2, <3>1 DEF SumsTo
  <2>4. e \in Int /\ a < e
    BY <1>3, <1>5
  <2> HIDE DEF e
  <2>5. ASSUME NEW s \in a..e
        PROVE  g[s] = IF s = a THEN 0 ELSE g[s - 1] + items[Slot(s - 1)].size
    <3>1. CASE s = e
      <4>1. s - 1 \in a..e /\ s - 1 # e /\ s # a
        BY <2>4, <3>1
      <4>2. g[s - 1] = f[s - 1] /\ g[s] = f[s - 1] + items[Slot(s - 1)].size
        BY <3>1, <4>1
      <4> QED
        BY <4>1, <4>2
    <3>2. CASE s # e
      <4>1. s \in a..(e - 1) /\ g[s] = f[s]
        BY <2>4, <3>2
      <4>2. s # a => s - 1 \in a..e /\ s - 1 # e
        BY <2>4, <4>1
      <4>3. s # a => g[s - 1] = f[s - 1]
        BY <4>2
      <4> QED
        BY <2>3, <4>1, <4>3
    <3> QED
      BY <3>1, <3>2
  <2>6. g = [s \in a..e |-> g[s]]
    OBVIOUS
  <2> HIDE DEF g
  <2>7. g = SumsTo(g, items, a, e)
    BY <2>5, <2>6 DEF SumsTo
  <2> QED
    BY <1>3, <2>7 DEF e
<1> QED
  BY <1>3, <1>4, <1>5

Sized(items, a, b) == \A s \in a..(b - 1) : items[Slot(s)].size \in Nat

LEMMA SumsAre ==
  ASSUME NEW items, NEW a \in Int, NEW b \in Int, a <= b
  PROVE  /\ Sums(items, a, b)[a] = 0
         /\ \A s \in (a + 1)..b :
              Sums(items, a, b)[s] = Sums(items, a, b)[s - 1] + items[Slot(s - 1)].size
<1>1. \E f : f = SumsTo(f, items, a, b)
  <2>1. PICK n \in Nat : n = b - a
    OBVIOUS
  <2>2. \E f : f = SumsTo(f, items, a, a + n)
    BY SumsExist
  <2>3. a + n = b
    BY <2>1
  <2> QED
    BY <2>2, <2>3
<1> DEFINE g == Sums(items, a, b)
<1>2. g = SumsTo(g, items, a, b)
  BY <1>1 DEF Sums
<1> HIDE DEF g
<1>3. \A s \in a..b : g[s] = IF s = a THEN 0 ELSE g[s - 1] + items[Slot(s - 1)].size
  BY <1>2 DEF SumsTo
<1>4. a \in a..b /\ \A s \in (a + 1)..b : s \in a..b /\ s # a
  OBVIOUS
<1>5. g[a] = 0 /\ \A s \in (a + 1)..b : g[s] = g[s - 1] + items[Slot(s - 1)].size
  BY <1>3, <1>4
<1> QED
  BY <1>5 DEF g

\* The sums of two rings that agree, whatever their ends.
LEMMA SumsAgree ==
  ASSUME NEW items, NEW other, NEW a \in Int, NEW b \in Int, NEW c \in Int,
         a <= b, b <= c, Sized(items, a, b),
         \A s \in a..(b - 1) : other[Slot(s)] = items[Slot(s)]
  PROVE  \A s \in a..b : /\ Sums(items, a, b)[s] = Sums(other, a, c)[s]
                         /\ Sums(items, a, b)[s] \in Nat
<1> DEFINE f == Sums(items, a, b)
           g == Sums(other, a, c)
           Bad == {n \in 0..(b - a) : ~(f[a + n] = g[a + n] /\ f[a + n] \in Nat)}
<1>1. /\ f[a] = 0 /\ \A s \in (a + 1)..b : f[s] = f[s - 1] + items[Slot(s - 1)].size
      /\ g[a] = 0 /\ \A s \in (a + 1)..c : g[s] = g[s - 1] + other[Slot(s - 1)].size
  BY SumsAre
<1> HIDE DEF f, g
<1>2. SUFFICES ASSUME Bad # {} PROVE FALSE
  <2> SUFFICES ASSUME NEW s \in a..b PROVE f[s] = g[s] /\ f[s] \in Nat
    BY DEF f, g
  <2>1. s - a \in 0..(b - a) /\ a + (s - a) = s
    OBVIOUS
  <2> QED
    BY <1>2, <2>1
<1>3. PICK n \in Bad : \A m \in Bad : n <= m
  <2>1. Bad \subseteq Nat
    OBVIOUS
  <2> HIDE DEF Bad
  <2> QED
    BY <1>2, <2>1, Least
<1>4. n \in 0..(b - a) /\ ~(f[a + n] = g[a + n] /\ f[a + n] \in Nat)
  OBVIOUS
<1>5. CASE n = 0
  <2>1. a + n = a
    BY <1>5
  <2> QED
    BY <1>1, <1>4, <2>1
<1>6. CASE n > 0
  <2>1. n - 1 \in 0..(b - a) /\ ~(n - 1 \in Bad)
    BY <1>3, <1>4, <1>6
  <2> DEFINE s == a + n
  <2>2. s - 1 = a + (n - 1) /\ s \in (a + 1)..b /\ s \in (a + 1)..c /\ s - 1 \in a..(b - 1)
    BY <1>4, <1>6
  <2>3. f[s - 1] = g[s - 1] /\ f[s - 1] \in Nat
    BY <2>1, <2>2
  <2>4. ~(f[s] = g[s] /\ f[s] \in Nat)
    BY <1>4
  <2> HIDE DEF s, Bad
  <2>5. /\ f[s] = f[s - 1] + items[Slot(s - 1)].size
        /\ g[s] = g[s - 1] + other[Slot(s - 1)].size
    BY <1>1, <2>2
  <2>6. other[Slot(s - 1)] = items[Slot(s - 1)] /\ items[Slot(s - 1)].size \in Nat
    BY <2>2 DEF Sized
  <2> QED
    BY <2>3, <2>4, <2>5, <2>6
<1> QED
  BY <1>4, <1>5, <1>6

LEMMA SizeNone ==
  ASSUME NEW items, NEW a \in Int
  PROVE  SizeOf(items, a, a) = 0
<1>1. a <= a
  OBVIOUS
<1> QED
  BY <1>1, SumsAre, SizeIsLastSum

LEMMA SizeAgrees ==
  ASSUME NEW items, NEW other, NEW a \in Int, NEW b \in Int, a <= b, Sized(items, a, b),
         \A s \in a..(b - 1) : other[Slot(s)] = items[Slot(s)]
  PROVE  SizeOf(items, a, b) = SizeOf(other, a, b) /\ SizeOf(items, a, b) \in Nat
<1>1. b <= b /\ b \in a..b
  OBVIOUS
<1> QED
  BY <1>1, SumsAgree, SizeIsLastSum

LEMMA SizeMore ==
  ASSUME NEW items, NEW a \in Int, NEW b \in Int, a <= b, Sized(items, a, b)
  PROVE  SizeOf(items, a, b + 1) = SizeOf(items, a, b) + items[Slot(b)].size
<1>1. /\ b + 1 \in Int /\ a <= b + 1 /\ b <= b + 1 /\ b \in a..b
      /\ b + 1 \in (a + 1)..(b + 1) /\ (b + 1) - 1 = b
  OBVIOUS
<1>2. Sums(items, a, b)[b] = Sums(items, a, b + 1)[b]
  BY <1>1, SumsAgree
<1>3. Sums(items, a, b + 1)[b + 1] = Sums(items, a, b + 1)[b] + items[Slot(b)].size
  BY <1>1, SumsAre
<1> QED
  BY <1>2, <1>3, SizeIsLastSum

\* What is dropped and what stays make up what there was.
LEMMA SizeSplits ==
  ASSUME NEW items, NEW a \in Int, NEW b \in Int, NEW c \in Int, a <= b, b <= c,
         Sized(items, a, c)
  PROVE  SizeOf(items, a, c) = SizeOf(items, a, b) + SizeOf(items, b, c)
<1> DEFINE whole(n) == SizeOf(items, a, b + n)
           head == SizeOf(items, a, b)
           tail(n) == SizeOf(items, b, b + n)
           Bad == {n \in 0..(c - b) : ~(whole(n) = head + tail(n))}
<1>1. \A n \in 0..(c - b) :
        /\ b + n \in Int /\ b <= b + n /\ a <= b + n
        /\ Sized(items, a, b + n) /\ Sized(items, b, b + n)
  BY DEF Sized
<1>2. SUFFICES ASSUME Bad # {} PROVE FALSE
  <2>1. c - b \in 0..(c - b) /\ b + (c - b) = c
    OBVIOUS
  <2>2. whole(c - b) = head + tail(c - b)
    BY <1>2, <2>1
  <2> QED
    BY <2>1, <2>2
<1>3. PICK n \in Bad : \A m \in Bad : n <= m
  <2>1. Bad \subseteq Nat
    OBVIOUS
  <2> HIDE DEF Bad
  <2> QED
    BY <1>2, <2>1, Least
<1>4. n \in 0..(c - b) /\ ~(whole(n) = head + tail(n))
  OBVIOUS
<1>5. head \in Nat
  <2>1. Sized(items, a, b)
    BY DEF Sized
  <2> QED
    BY <2>1, SizeAgrees
<1>6. CASE n = 0
  <2>1. b + n = b /\ tail(n) = 0
    BY <1>6, SizeNone
  <2> QED
    BY <1>4, <1>5, <2>1
<1>7. CASE n > 0
  <2>1. n - 1 \in 0..(c - b) /\ ~(n - 1 \in Bad)
    BY <1>3, <1>4, <1>7
  <2> DEFINE e == b + (n - 1)
  <2>2. SizeOf(items, a, e) = head + SizeOf(items, b, e)
    BY <2>1
  <2>3. /\ e \in Int /\ b <= e /\ a <= e /\ e + 1 = b + n
        /\ Sized(items, a, e) /\ Sized(items, b, e) /\ e \in a..(c - 1)
    BY <1>1, <1>4, <1>7, <2>1
  <2>4. ~(SizeOf(items, a, e + 1) = head + SizeOf(items, b, e + 1))
    BY <1>4, <2>3
  <2> HIDE DEF e, head
  <2>5. /\ SizeOf(items, a, e + 1) = SizeOf(items, a, e) + items[Slot(e)].size
        /\ SizeOf(items, b, e + 1) = SizeOf(items, b, e) + items[Slot(e)].size
    BY <2>3, SizeMore
  <2>6. SizeOf(items, b, e) \in Nat /\ items[Slot(e)].size \in Nat
    BY <2>3, SizeAgrees DEF Sized
  <2> QED
    BY <1>5, <2>2, <2>4, <2>5, <2>6
<1> QED
  BY <1>4, <1>6, <1>7

\* The times of what is kept go on, up to the present.
Onward ==
  \A s \in Kept : /\ ItemAt(s).mono <= now
                  /\ \A q \in Kept : s <= q => ItemAt(s).mono <= ItemAt(q).mono

\* What RingCounts needs to be inductive.
CountInv == RingTypeOK /\ RingFaithful /\ BytesExact /\ Onward

LEMMA KeptSized ==
  ASSUME RingTypeOK, RingFaithful
  PROVE  /\ first \in Nat /\ next \in Nat /\ first <= next
         /\ Sized(slots, first, next)
         /\ \A s \in Kept : /\ s \in Nat /\ first <= s /\ s < next
                            /\ ItemAt(s).size \in Nat /\ ItemAt(s).mono \in Nat
<1>1. first \in Nat /\ next \in Nat /\ first <= next
  BY DEF RingTypeOK, RingFaithful
<1>2. ASSUME NEW s \in Kept
      PROVE  /\ s \in Nat /\ first <= s /\ s < next
             /\ ItemAt(s).size \in Nat /\ ItemAt(s).mono \in Nat
  <2>1. s \in Nat /\ first <= s /\ s < next
    BY <1>1 DEF Kept
  <2>2. ItemAt(s) \in Item
    BY <2>1, SlotType DEF RingTypeOK, RingFaithful, ItemAt
  <2> QED
    BY <2>1, <2>2, LiveRingAssumption DEF Item
<1> QED
  BY <1>1, <1>2 DEF Sized, Kept, ItemAt

LEMMA InitCounts ==
  ASSUME RingInit, now \in Nat, gen \in Nat
  PROVE  CountInv
<1>1. RingTypeOK /\ RingFaithful /\ Kept = {} /\ first = 0 /\ next = 0 /\ bytes = 0
  BY InitTypeOK, InitFaithful DEF RingInit
<1>2. SizeOf(slots, 0, 0) = 0
  BY SizeNone
<1>3. 0 <= MaxBytes
  BY LiveRingAssumption
<1> QED
  BY <1>1, <1>2, <1>3 DEF CountInv, BytesExact, Onward

LEMMA ClearCounts ==
  ASSUME RingTypeOK, RingFaithful, Clear
  PROVE  BytesExact' /\ Onward'
<1>1. Kept' = {} /\ first' = next /\ next' = next /\ next \in Int /\ bytes' = 0
  BY ClearFaithful DEF Clear, RingTypeOK
<1>2. SizeOf(slots', next, next) = 0
  BY <1>1, SizeNone
<1>3. 0 <= MaxBytes
  BY LiveRingAssumption
<1> QED
  BY <1>1, <1>2, <1>3 DEF BytesExact, Onward

\* What publish leaves in the slots before it trims is what it counts, so that
\* what it drops is what it subtracts.
LEMMA PublishCounts ==
  ASSUME CountInv, NEW t \in Track, NEW key \in BOOLEAN, NEW size \in Sizes,
         Publish(t, key, size)
  PROVE  BytesExact' /\ Onward'
<1> DEFINE item == NewItem(t, key, size)
           f0 == IF Full THEN first + 1 ELSE first
           s0 == IF Full THEN [slots EXCEPT ![Slot(first)] = NoItem] ELSE slots
           s1 == [s0 EXCEPT ![Slot(next)] = item]
           b1 == bytes + size - (IF Full THEN ItemAt(first).size ELSE 0)
           left(f) == b1 - SizeOf(s1, f0, f)
<1>1. PICK f \in f0..(next + 1) :
        /\ ~(f <= next /\ (\/ next + 1 - f > Cap
                           \/ left(f) > MaxBytes
                           \/ now - s1[Slot(f)].mono > BufferMs))
        /\ first' = f
        /\ slots' = [i \in SlotIds |-> IF \E s \in f0..(f - 1) : Slot(s) = i
                                       THEN NoItem ELSE s1[i]]
        /\ bytes' = left(f)
  BY DEF Publish
<1>2. next' = next + 1 /\ now' = now
  BY DEF Publish
<1>3. /\ RingTypeOK /\ RingFaithful /\ BytesExact /\ Onward
      /\ first \in Nat /\ next \in Nat /\ Cap \in Nat \ {0} /\ MaxBytes \in Nat
      /\ first <= next /\ next - first <= Cap /\ bytes = SizeOf(slots, first, next)
      /\ BufferMs \in Nat /\ now \in Nat /\ size \in Nat
  BY LiveRingAssumption DEF CountInv, RingTypeOK, RingFaithful, BytesExact
<1>4. /\ f0 \in Nat /\ first <= f0 /\ f0 <= next /\ next + 1 - f0 <= Cap
      /\ Full => f0 = first + 1 /\ first \in Kept
      /\ ~Full => f0 = first
      /\ f \in Int /\ f0 <= f /\ f <= next + 1
  BY <1>1, <1>3 DEF Full, Kept
<1>5. item.size = size /\ item.mono = now
  BY DEF NewItem
<1>6. \A i \in SlotIds : s1[i] = IF i = Slot(next) THEN item
                                 ELSE IF Full /\ i = Slot(first) THEN NoItem
                                 ELSE slots[i]
  BY <1>3 DEF RingTypeOK
<1> HIDE DEF item, s0, s1, f0
<1>7. s1[Slot(next)] = item
  BY <1>3, <1>6, SlotType
<1>8. ASSUME NEW s \in f0..(next - 1)
      PROVE  /\ s \in Kept /\ s1[Slot(s)] = ItemAt(s)
             /\ s1[Slot(s)].size \in Nat /\ s1[Slot(s)].mono \in Nat
  <2>1. s \in Int /\ f0 <= s /\ s < next /\ next - s < Cap /\ s \in Kept
    BY <1>3, <1>4 DEF Kept
  <2>2. Slot(s) \in SlotIds /\ Slot(s) # Slot(next)
    BY <1>3, <2>1, SlotType, SlotsDistinct
  <2>3. Full => Slot(s) # Slot(first)
    <3>1. Full => first < s /\ s - first < Cap
      BY <1>3, <1>4, <2>1
    <3> QED
      BY <1>3, <2>1, <3>1, SlotsDistinct
  <2>4. s1[Slot(s)] = ItemAt(s)
    BY <1>6, <2>2, <2>3 DEF ItemAt
  <2> QED
    BY <1>3, <2>1, <2>4, KeptSized
<1>9. Sized(s1, f0, next + 1)
  <2> SUFFICES ASSUME NEW s \in f0..next PROVE s1[Slot(s)].size \in Nat
    BY <1>3, <1>4 DEF Sized
  <2>1. CASE s = next
    BY <1>3, <1>5, <1>7, <2>1
  <2>2. CASE s # next
    <3>1. s \in f0..(next - 1)
      BY <1>3, <1>4, <2>2
    <3> QED
      BY <1>8, <3>1
  <2> QED
    BY <2>1, <2>2
<1>10. b1 = SizeOf(s1, f0, next + 1)
  <2>1. SizeOf(slots, first, next)
          = (IF Full THEN ItemAt(first).size ELSE 0) + SizeOf(slots, f0, next)
    <3>1. CASE Full
      <4>1. f0 = first + 1 /\ first \in Int /\ f0 \in Int /\ first <= f0
        BY <1>3, <1>4, <3>1
      <4>2. SizeOf(slots, first, next) = SizeOf(slots, first, f0) + SizeOf(slots, f0, next)
        BY <1>3, <1>4, <4>1, KeptSized, SizeSplits
      <4>3. Sized(slots, first, first) /\ first <= first
        BY <1>3 DEF Sized
      <4>4. SizeOf(slots, first, f0) = SizeOf(slots, first, first) + slots[Slot(first)].size
        BY <4>1, <4>3, SizeMore
      <4>5. SizeOf(slots, first, first) = 0
        BY <4>1, SizeNone
      <4>6. ItemAt(first).size \in Nat
        BY <1>3, <1>4, <3>1, KeptSized
      <4> QED
        BY <3>1, <4>2, <4>4, <4>5, <4>6 DEF ItemAt
    <3>2. CASE ~Full
      <4>1. f0 = first
        BY <1>4, <3>2
      <4>2. SizeOf(slots, first, next) \in Nat
        BY <1>3, KeptSized, SizeAgrees
      <4> QED
        BY <3>2, <4>1, <4>2
    <3> QED
      BY <3>1, <3>2
  <2>2. Sized(s1, f0, next) /\ \A s \in f0..(next - 1) : slots[Slot(s)] = s1[Slot(s)]
    BY <1>8 DEF Sized, ItemAt
  <2>3. SizeOf(s1, f0, next) = SizeOf(slots, f0, next) /\ SizeOf(s1, f0, next) \in Nat
    BY <1>3, <1>4, <2>2, SizeAgrees
  <2>4. SizeOf(s1, f0, next + 1) = SizeOf(s1, f0, next) + size
    BY <1>3, <1>4, <1>5, <1>7, <2>2, SizeMore
  <2>5. Full => ItemAt(first).size \in Nat
    BY <1>3, <1>4, KeptSized
  <2> QED
    BY <1>3, <2>1, <2>3, <2>4, <2>5
<1> HIDE DEF b1
<1>11. left(f) = SizeOf(s1, f, next + 1) /\ left(f) \in Nat
  <2>1. next + 1 \in Int /\ f0 \in Int /\ f \in Int
    BY <1>3, <1>4
  <2>2. SizeOf(s1, f0, next + 1) = SizeOf(s1, f0, f) + SizeOf(s1, f, next + 1)
    BY <1>4, <1>9, <2>1, SizeSplits
  <2>3. Sized(s1, f0, f) /\ Sized(s1, f, next + 1)
    BY <1>3, <1>4, <1>9 DEF Sized
  <2>4. SizeOf(s1, f0, f) \in Nat /\ SizeOf(s1, f, next + 1) \in Nat
    BY <1>4, <2>1, <2>3, SizeAgrees
  <2> QED
    BY <1>10, <2>2, <2>4
<1> HIDE DEF left
<1>12. ASSUME NEW s \in f..next
       PROVE  slots'[Slot(s)] = s1[Slot(s)]
  <2>1. s \in Int /\ f0 <= s /\ f <= s /\ s <= next
    BY <1>3, <1>4
  <2>2. ASSUME NEW q \in f0..(f - 1) PROVE Slot(q) # Slot(s)
    <3>1. q < s /\ s - q < Cap /\ q \in Int
      BY <1>3, <1>4, <2>1
    <3> QED
      BY <2>1, <3>1, SlotsDistinct
  <2> QED
    BY <1>1, <2>1, <2>2, SlotType
<1>13. bytes' = SizeOf(slots', f, next + 1)
  <2>1. Sized(s1, f, next + 1) /\ (next + 1) - 1 = next
    BY <1>3, <1>4, <1>9 DEF Sized
  <2>2. SizeOf(s1, f, next + 1) = SizeOf(slots', f, next + 1)
    BY <1>3, <1>4, <1>12, <2>1, SizeAgrees
  <2> QED
    BY <1>1, <1>11, <2>2
<1>14. bytes' <= MaxBytes
  <2>1. CASE f <= next
    BY <1>1, <1>3, <1>11, <2>1
  <2>2. CASE f = next + 1
    <3>1. SizeOf(s1, f, next + 1) = 0
      BY <1>4, <2>2, SizeNone
    <3> QED
      BY <1>1, <1>3, <1>11, <3>1
  <2> QED
    BY <1>3, <1>4, <2>1, <2>2
<1>15. ASSUME NEW s \in Kept'
       PROVE  /\ s \in Int /\ f <= s /\ s <= next
              /\ ItemAt(s)' = s1[Slot(s)] /\ s1[Slot(s)].mono \in Nat
              /\ s1[Slot(s)].mono <= now
              /\ \A q \in Kept' : s <= q => s1[Slot(s)].mono <= s1[Slot(q)].mono
  <2>1. \A q \in Kept' : q \in f..next /\ (q # next => q \in f0..(next - 1))
    BY <1>1, <1>2, <1>3, <1>4 DEF Kept
  <2>2. \A q \in Kept' : q # next => /\ q \in Kept /\ s1[Slot(q)] = ItemAt(q)
                                     /\ ItemAt(q).mono \in Nat /\ ItemAt(q).mono <= now
    BY <1>3, <1>8, <2>1 DEF Onward
  <2>3. s1[Slot(next)].mono = now /\ now \in Nat
    BY <1>3, <1>5, <1>7
  <2>4. s \in Int /\ f <= s /\ s <= next /\ ItemAt(s)' = s1[Slot(s)]
    BY <1>3, <1>4, <1>12, <2>1 DEF ItemAt
  <2>5. s1[Slot(s)].mono \in Nat /\ s1[Slot(s)].mono <= now
    BY <2>2, <2>3
  <2>6. ASSUME NEW q \in Kept', s <= q PROVE s1[Slot(s)].mono <= s1[Slot(q)].mono
    <3>1. CASE q = next
      BY <2>3, <2>5, <3>1
    <3>2. CASE q # next
      <4>1. s # next
        BY <1>3, <2>1, <2>4, <2>6, <3>2
      <4> QED
        BY <1>3, <2>2, <2>6, <3>2, <4>1 DEF Onward
    <3> QED
      BY <3>1, <3>2
  <2> QED
    BY <2>4, <2>5, <2>6
<1>16. ASSUME NEW s \in Kept'
       PROVE  slots'[Slot(next' - 1)].mono - slots'[Slot(s)].mono <= BufferMs
  <2>1. /\ f <= next /\ f \in Kept' /\ next' - 1 = next
        /\ s \in f..next /\ next \in f..next
    BY <1>1, <1>2, <1>3, <1>4, <1>15 DEF Kept
  <2>2. now - s1[Slot(f)].mono <= BufferMs
    <3>1. s1[Slot(f)].mono \in Nat
      BY <1>15, <2>1
    <3> QED
      BY <1>1, <1>3, <2>1, <3>1
  <2>3. s1[Slot(f)].mono <= s1[Slot(s)].mono /\ s1[Slot(f)].mono \in Nat
        /\ s1[Slot(s)].mono \in Nat
    BY <1>15, <2>1
  <2>4. slots'[Slot(next)].mono = now /\ slots'[Slot(s)].mono = s1[Slot(s)].mono
    BY <1>5, <1>7, <1>12, <2>1
  <2> QED
    BY <1>3, <2>1, <2>2, <2>3, <2>4
<1>17. Onward'
  BY <1>2, <1>15 DEF Onward
<1>18. \A s \in Kept' : ItemAt(next - 1)'.mono - ItemAt(s)'.mono <= BufferMs
  BY <1>16 DEF ItemAt
<1>19. bytes' = SizeOf(slots, first, next)'
  BY <1>1, <1>2, <1>13
<1> QED
  BY <1>14, <1>17, <1>18, <1>19 DEF BytesExact

LEMMA CameraCounts ==
  ASSUME CountInv, [Camera]_ringVars
  PROVE  CountInv'
<1>1. RingTypeOK' /\ RingFaithful'
  BY CameraTypeOK, CameraFaithful DEF CountInv
<1>2. ASSUME NEW t \in Track, NEW f, PublishFormat(t, f) PROVE BytesExact' /\ Onward'
  <2>1. CASE Changes(t, f)
    BY <1>2, <2>1, ClearCounts DEF PublishFormat, CountInv
  <2>2. CASE ~Changes(t, f)
    BY <1>2, <2>2 DEF PublishFormat, CountInv, BytesExact, Onward, Kept, ItemAt
  <2> QED
    BY <2>1, <2>2
<1>3. ASSUME NEW t \in Track, NEW key \in BOOLEAN, NEW size \in Sizes,
             Publish(t, key, size)
      PROVE  BytesExact' /\ Onward'
  BY <1>3, PublishCounts
<1>4. ASSUME Stopped PROVE BytesExact' /\ Onward'
  BY <1>4, ClearCounts DEF Stopped, CountInv
<1>5. ASSUME Tick PROVE BytesExact' /\ Onward'
  <2>1. BytesExact'
    BY <1>5 DEF Tick, ring, CountInv, BytesExact, Kept, ItemAt
  <2>2. /\ now' = now + 1 /\ now \in Nat /\ Kept' = Kept
        /\ \A s \in Kept : ItemAt(s)' = ItemAt(s) /\ ItemAt(s).mono \in Nat
    BY <1>5, KeptSized DEF Tick, ring, CountInv, RingTypeOK, Kept, ItemAt
  <2> QED
    BY <2>1, <2>2 DEF CountInv, Onward
<1>6. ASSUME UNCHANGED ringVars PROVE BytesExact' /\ Onward'
  BY <1>6 DEF ringVars, ring, camera, CountInv, BytesExact, Onward, Kept, ItemAt
<1>7. BytesExact' /\ Onward'
  BY <1>2, <1>3, <1>4, <1>5, <1>6 DEF Camera, Track
<1> QED
  BY <1>1, <1>7 DEF CountInv

\* The running total is the sum of what is kept and never above the limit, and
\* what is kept is of the last BufferMs (publish, drop_oldest, clear, trim).
THEOREM RingCountsWhatItHolds == RingSpec => []RingCounts
<1>1. Start => CountInv
  BY InitCounts DEF Start
<1>2. CountInv /\ [Camera]_ringVars => CountInv'
  BY CameraCounts
<1>3. CountInv => RingCounts
  BY DEF CountInv, RingCounts
<1> QED
  BY <1>1, <1>2, <1>3, PTL DEF RingSpec

-----------------------------------------------------------------------------
(* The chain of the session's video *)

VideoKept == {s \in Kept : ItemAt(s).track = "video"}

\* Each video sample kept knows the one before it, kept or dropped, and none lies
\* between the two; lastVideo is the last; without a format there was none.
VideoChained ==
  /\ lastVideo < next
  /\ first <= lastVideo => lastVideo \in VideoKept
  /\ format["video"] = NoFormat => lastVideo = -1
  /\ \A s \in VideoKept :
       /\ s <= lastVideo
       /\ ItemAt(s).prev < s
       /\ first <= ItemAt(s).prev => ItemAt(s).prev \in VideoKept
       /\ \A v \in VideoKept : v < s => v <= ItemAt(s).prev

LEMMA InitChained ==
  ASSUME RingInit
  PROVE  VideoChained
BY InitFaithful DEF VideoChained, VideoKept, RingInit, Track

LEMMA ClearChained ==
  ASSUME RingTypeOK, RingFaithful, Clear, lastVideo' \in {lastVideo, -1}, lastVideo < next,
         format'["video"] = NoFormat => lastVideo' = -1
  PROVE  VideoChained'
<1>1. Kept' = {} /\ first' = next /\ next' = next
  BY ClearFaithful DEF Clear
<1>2. VideoKept' = {}
  BY <1>1 DEF VideoKept
<1> QED
  BY <1>1, <1>2 DEF VideoChained, RingTypeOK

LEMMA PublishChained ==
  ASSUME RingTypeOK, RingFaithful, VideoChained,
         NEW t \in Track, NEW key \in BOOLEAN, NEW size \in Sizes,
         Publish(t, key, size)
  PROVE  VideoChained'
<1> DEFINE item == NewItem(t, key, size)
<1>1. /\ next' = next + 1 /\ first <= first' /\ {first, first', next} \subseteq Nat
      /\ \A s \in Kept' : \/ s = next /\ ItemAt(s)' = item
                          \/ s \in Kept /\ ItemAt(s)' = ItemAt(s)
  BY PublishKeeps DEF RingTypeOK
<1>2. /\ format' = format /\ format[t] # NoFormat
      /\ lastVideo' = IF t = "video" THEN next ELSE lastVideo
  BY DEF Publish, Announced, RingTypeOK
<1>3. item.track = t /\ item.prev = lastVideo /\ lastVideo \in Int
  BY DEF NewItem, RingTypeOK
<1>4. \A s \in Kept : s \in Int /\ first <= s /\ s < next
  BY <1>1 DEF Kept
<1>5. ASSUME NEW s, s \in Kept, first' <= s
      PROVE  s \in Kept' /\ ItemAt(s)' = ItemAt(s)
  BY <1>1, <1>4, <1>5 DEF Kept
<1>6. ASSUME NEW s \in VideoKept'
      PROVE  \/ s = next /\ t = "video" /\ ItemAt(s)'.prev = lastVideo
             \/ s \in VideoKept /\ ItemAt(s)' = ItemAt(s)
  BY <1>1, <1>3 DEF VideoKept
<1>7. ASSUME NEW s, s \in VideoKept, first' <= s
      PROVE  s \in VideoKept'
  BY <1>5, <1>7 DEF VideoKept
<1>8. first' <= next /\ t = "video" => next \in VideoKept'
  <2> SUFFICES ASSUME first' <= next, t = "video" PROVE next \in VideoKept'
    OBVIOUS
  <2>1. next \in Kept' /\ next \notin Kept
    BY <1>1, <1>4 DEF Kept
  <2> QED
    BY <1>1, <1>3, <2>1 DEF VideoKept
<1>9. \A s \in VideoKept : s \in Kept /\ s \in Int /\ ItemAt(s).prev \in Int
  <2>1. \A s \in Kept : ItemAt(s) \in Item
    BY <1>4, SlotType DEF RingTypeOK, RingFaithful, ItemAt
  <2> QED
    BY <1>4, <2>1 DEF VideoKept, Item
<1>10. ASSUME NEW s \in VideoKept'
       PROVE  /\ s <= lastVideo'
              /\ ItemAt(s)'.prev < s
              /\ first' <= ItemAt(s)'.prev => ItemAt(s)'.prev \in VideoKept'
              /\ \A v \in VideoKept' : v < s => v <= ItemAt(s)'.prev
  <2>1. CASE s = next /\ t = "video" /\ ItemAt(s)'.prev = lastVideo
    <3>1. \A v \in VideoKept' : v < s => v <= lastVideo
      BY <1>1, <1>6, <2>1 DEF VideoChained
    <3>2. first' <= lastVideo => lastVideo \in VideoKept'
      BY <1>1, <1>3, <1>7 DEF VideoChained
    <3> QED
      BY <1>1, <1>2, <2>1, <3>1, <3>2 DEF VideoChained
  <2>2. CASE s \in VideoKept /\ ItemAt(s)' = ItemAt(s)
    <3>1. ItemAt(s).prev \in Int /\ s \in Int /\ s < next
      BY <1>4, <1>9, <2>2
    <3>2. first' <= ItemAt(s).prev => ItemAt(s).prev \in VideoKept'
      BY <1>1, <1>7, <2>2, <3>1 DEF VideoChained
    <3>3. ASSUME NEW v \in VideoKept', v < s PROVE v <= ItemAt(s).prev
      BY <1>1, <1>6, <2>2, <3>1, <3>3 DEF VideoChained
    <3> QED
      BY <1>1, <1>2, <1>3, <2>2, <3>1, <3>2, <3>3 DEF VideoChained
  <2> QED
    BY <1>6, <2>1, <2>2
<1>11. first' <= lastVideo' => lastVideo' \in VideoKept'
  BY <1>1, <1>2, <1>3, <1>7, <1>8 DEF VideoChained
<1> QED
  BY <1>1, <1>2, <1>3, <1>10, <1>11 DEF VideoChained

LEMMA CameraChained ==
  ASSUME RingTypeOK, RingFaithful, VideoChained, [Camera]_ringVars
  PROVE  VideoChained'
<1>1. ASSUME NEW t \in Track, NEW f \in VFormats \cup AFormats, PublishFormat(t, f)
      PROVE  VideoChained'
  <2>1. format'["video"] = NoFormat => format["video"] = NoFormat
    BY <1>1, LiveRingAssumption DEF PublishFormat, RingTypeOK, Track
  <2>2. CASE Changes(t, f)
    BY <1>1, <2>1, <2>2, ClearChained DEF PublishFormat, VideoChained
  <2>3. CASE ~Changes(t, f)
    BY <1>1, <2>1, <2>3 DEF PublishFormat, VideoChained, VideoKept, Kept, ItemAt
  <2> QED
    BY <2>2, <2>3
<1>2. ASSUME NEW t \in Track, NEW key \in BOOLEAN, NEW size \in Sizes,
             Publish(t, key, size)
      PROVE  VideoChained'
  BY <1>2, PublishChained
<1>3. ASSUME Stopped PROVE VideoChained'
  BY <1>3, ClearChained DEF Stopped, VideoChained
<1>4. ASSUME Tick \/ UNCHANGED ringVars PROVE VideoChained'
  BY <1>4 DEF Tick, ringVars, ring, camera, VideoChained, VideoKept, Kept, ItemAt
<1> QED
  BY <1>1, <1>2, <1>3, <1>4 DEF Camera, Track

-----------------------------------------------------------------------------
(* The ring as its consumers see it *)

\* Numbers only grow, and a new epoch leaves the ring empty.
LEMMA CameraMoves ==
  ASSUME RingTypeOK, RingFaithful, [Camera]_ringVars
  PROVE  /\ first <= first' /\ next <= next'
         /\ epoch' # epoch => first' = next'
<1>1. ASSUME NEW t \in Track, NEW f, PublishFormat(t, f)
      PROVE  first <= first' /\ next <= next' /\ (epoch' # epoch => first' = next')
  BY <1>1 DEF PublishFormat, Clear, RingTypeOK, RingFaithful
<1>2. ASSUME NEW t \in Track, NEW key \in BOOLEAN, NEW size \in Sizes,
             Publish(t, key, size)
      PROVE  first <= first' /\ next <= next' /\ epoch' = epoch
  <2>1. next' = next + 1 /\ first <= first'
    BY <1>2, PublishKeeps
  <2>2. epoch' = epoch
    BY <1>2 DEF Publish
  <2> QED
    BY <2>1, <2>2 DEF RingTypeOK
<1>3. ASSUME Stopped
      PROVE  first <= first' /\ next <= next' /\ epoch' = epoch
  BY <1>3 DEF Stopped, Clear, RingTypeOK, RingFaithful
<1>4. ASSUME Tick \/ UNCHANGED ringVars
      PROVE  first <= first' /\ next <= next' /\ epoch' = epoch
  BY <1>4 DEF Tick, ringVars, ring, camera, RingTypeOK
<1> QED
  BY <1>1, <1>2, <1>3, <1>4 DEF Camera, Track

\* position answers a cursor of the present epoch, inside the ring or at its end.
LEMMA PositionInRing ==
  ASSUME RingTypeOK, RingFaithful
  PROVE  /\ Position \in LiveCursor /\ Position.epoch = epoch
         /\ first <= Position.next /\ Position.next <= next
<1>1. CASE Keyframes = {}
  BY <1>1 DEF Position, LiveCursor, RingTypeOK, RingFaithful
<1>2. CASE Keyframes # {}
  <2>1. Keyframes \subseteq Kept
    BY DEF Keyframes
  <2>2. \E s \in Keyframes : \A k \in Keyframes : k <= s
    <3>1. Kept \subseteq Int /\ next \in Int /\ \A s \in Kept : s <= next
      BY DEF Kept, RingTypeOK
    <3>2. Keyframes \subseteq Int /\ \A s \in Keyframes : s <= next
      BY <2>1, <3>1, Zenon
    <3> QED
      BY <1>2, <3>1, <3>2, Greatest, Zenon
  <2> DEFINE s0 == CHOOSE s \in Keyframes : \A k \in Keyframes : k <= s
  <2>3. s0 \in Kept
    BY <2>1, <2>2
  <2>4. s0 \in Nat /\ first <= s0 /\ s0 <= next
    BY <2>3 DEF Kept, RingTypeOK
  <2>5. Position = [next |-> s0, epoch |-> epoch, wait |-> FALSE]
    BY <1>2 DEF Position
  <2> HIDE DEF s0
  <2> QED
    BY <2>4, <2>5 DEF LiveCursor, RingTypeOK
<1> QED
  BY <1>1, <1>2

\* The cursor fetch reads from, and what it returns.
LEMMA FromInRing ==
  ASSUME RingTypeOK, RingFaithful, NEW c \in LiveCursor, HasNew(c)
  PROVE  /\ From(c) \in LiveCursor /\ From(c).epoch = epoch
         /\ first <= From(c).next /\ From(c).next <= next /\ c.next <= From(c).next
         /\ Fetched(From(c)) \subseteq From(c).next..(next - 1)
         /\ \A s \in Fetched(From(c)) : s \in Kept /\ ItemAt(s).seq = s
<1>1. /\ From(c) \in LiveCursor /\ From(c).epoch = epoch
      /\ first <= From(c).next /\ From(c).next <= next /\ c.next <= From(c).next
  <2>1. CASE Behind(c)
    BY <2>1, PositionInRing DEF From, Behind, LiveCursor, RingTypeOK
  <2>2. CASE ~Behind(c)
    BY <2>2 DEF From, Behind, HasNew, LiveCursor, RingTypeOK
  <2> QED
    BY <2>1, <2>2
<1>2. Fetched(From(c)) \subseteq From(c).next..(next - 1)
  BY DEF Fetched
<1>3. From(c).next..(next - 1) \subseteq Kept
  BY <1>1 DEF Kept, LiveCursor, RingTypeOK
<1> QED
  BY <1>1, <1>2, <1>3 DEF RingFaithful

\* The last video of what fetch returns.
LEMMA LatestVideo ==
  ASSUME RingTypeOK, RingFaithful, NEW c \in LiveCursor, HasNew(c),
         NEW V, V \subseteq Fetched(From(c)), V # {}
  PROVE  LET last == CHOOSE s \in V : \A v \in V : v <= s
         IN  last \in V /\ last \in Int /\ last < next
<1>1. V \subseteq Int /\ next \in Int /\ \A s \in V : s < next
  BY FromInRing DEF Kept, RingTypeOK
<1>2. \A s \in V : s <= next
  BY <1>1
<1>3. \E s \in V : \A v \in V : v <= s
  BY <1>1, <1>2, Greatest, Zenon
<1> QED
  BY <1>1, <1>3

RingOK == RingTypeOK /\ RingFaithful /\ VideoChained

LEMMA KeptItems ==
  ASSUME RingOK
  PROVE  /\ \A s \in Kept : /\ s \in Nat /\ first <= s /\ s < next
                            /\ ItemAt(s) \in Item /\ ItemAt(s) # NoItem /\ ItemAt(s).seq = s
         /\ VideoKept \subseteq Kept /\ Keyframes \subseteq VideoKept
         /\ \A s \in VideoKept : s \in Keyframes <=> ItemAt(s).key
         /\ \A s \in VideoKept : ItemAt(s).prev \in Int
         /\ {first, next} \subseteq Nat /\ lastVideo \in Int
<1>1. /\ {first, next} \subseteq Nat /\ lastVideo \in Int
      /\ \A s \in Kept : s \in Nat /\ first <= s /\ s < next
  BY DEF RingOK, RingTypeOK, Kept
<1>2. ASSUME NEW s \in Kept
      PROVE  ItemAt(s) \in Item /\ ItemAt(s) # NoItem /\ ItemAt(s).seq = s
  <2>1. Slot(s) \in SlotIds
    BY <1>1, SlotType
  <2> QED
    BY <2>1 DEF RingOK, RingTypeOK, RingFaithful, ItemAt
<1>3. VideoKept \subseteq Kept /\ Keyframes \subseteq VideoKept
  BY DEF VideoKept, Keyframes, IsKey
<1>4. \A s \in VideoKept : (s \in Keyframes <=> ItemAt(s).key) /\ ItemAt(s).prev \in Int
  BY <1>2 DEF VideoKept, Keyframes, IsKey, Item
<1> QED
  BY <1>1, <1>2, <1>3, <1>4

\* position leaves nothing of the session before the cursor to be decoded from.
LEMMA PositionOnKeyframe ==
  ASSUME RingOK
  PROVE  /\ ~Position.wait =>
              /\ lastVideo # -1 => Position.next <= lastVideo
              /\ \A s \in VideoKept :
                   Position.next <= s /\ ~ItemAt(s).key => Position.next <= ItemAt(s).prev
         /\ \A k \in Keyframes : k <= Position.next
<1> USE KeptItems
<1>1. CASE Keyframes = {}
  <2>1. Position.wait <=> format["video"] # NoFormat
    BY <1>1 DEF Position
  <2>2. ~Position.wait => lastVideo = -1
    BY <2>1 DEF RingOK, VideoChained
  <2>3. lastVideo = -1 => VideoKept = {}
    <3> SUFFICES ASSUME lastVideo = -1, NEW s \in VideoKept PROVE FALSE
      OBVIOUS
    <3>1. s <= -1 /\ s \in Nat
      BY DEF RingOK, VideoChained
    <3> QED
      BY <3>1
  <2> QED
    BY <1>1, <2>2, <2>3
<1>2. CASE Keyframes # {}
  <2>1. Position.next \in Keyframes /\ \A k \in Keyframes : k <= Position.next
    <3>1. Keyframes \subseteq Int /\ next \in Int /\ \A s \in Keyframes : s <= next
      OBVIOUS
    <3>2. \E s \in Keyframes : \A k \in Keyframes : k <= s
      BY ONLY <1>2, <3>1, Greatest, Zenon
    <3> QED
      BY <1>2, <3>2 DEF Position
  <2>2. Position.next <= lastVideo
    BY <2>1 DEF RingOK, VideoChained
  <2>3. ASSUME NEW s \in VideoKept, Position.next <= s, ~ItemAt(s).key
        PROVE  Position.next <= ItemAt(s).prev
    <3>1. Position.next < s
      BY <2>1, <2>3
    <3> QED
      BY <2>1, <3>1 DEF RingOK, VideoChained
  <2> QED
    BY <2>1, <2>2, <2>3
<1> QED
  BY <1>1, <1>2

\* A keyframe at or after the cursor, up to the sample: the videos fetch returns.
LEMMA VideoReleased ==
  ASSUME RingOK, NEW at \in LiveCursor, first <= at.next,
         NEW s \in VideoKept, at.next <= s,
         at.wait => \E k \in Keyframes : at.next <= k /\ k <= s
  PROVE  s \in Fetched(at)
BY KeptItems DEF Fetched, Released, LiveCursor

=============================================================================
