---------------------------- MODULE LiveApi_proofs ----------------------------
(***************************************************************************)
(* Proofs about the players of the HTTP live route, for any number of them  *)
(* and every ring: no player is given a sample twice in one run of the      *)
(* server, and what is marked as a new start can be decoded from its own    *)
(* samples.                                                                 *)
(***************************************************************************)
EXTENDS LiveApi, LiveRing_proofs, FiniteSetTheorems

-----------------------------------------------------------------------------
(* The ring, and what a fragment takes of it *)

LEMMA RestartRing ==
  ASSUME TypeOK, Restart
  PROVE  RingTypeOK' /\ RingFaithful' /\ VideoChained' /\ next' = 0 /\ first' = 0
<1>1. Kept' = {}
  BY DEF Restart, Kept
<1>2. 0 <= Cap
  BY LiveRingAssumption
<1> QED
  BY <1>1, <1>2 DEF Restart, TypeOK, RingTypeOK, RingFaithful, VideoChained, VideoKept,
                    NoFormats, Track

LEMMA StepRingOK ==
  ASSUME TypeOK, RingOK, [Next]_vars
  PROVE  RingOK' /\ ([Camera]_ringVars \/ Restart)
<1>1. [Camera]_ringVars \/ Restart
  BY DEF Next, vars, player
<1>2. CASE [Camera]_ringVars
  BY <1>2, CameraTypeOK, CameraFaithful, CameraChained DEF RingOK
<1>3. CASE Restart
  BY <1>3, RestartRing DEF RingOK
<1> QED
  BY <1>1, <1>2, <1>3

\* The first samples of a set are as many as a fragment takes, and none of the set
\* before one of them is left out.
LEMMA FirstOfBounded ==
  ASSUME NEW S, S \subseteq Int, IsFiniteSet(S), NEW b \in Int, \A s \in S : s <= b
  PROVE  /\ IsFiniteSet(FirstOf(S)) /\ Cardinality(FirstOf(S)) <= MaxSamples
         /\ FirstOf(S) \subseteq S
         /\ \A s \in FirstOf(S) : \A e \in S : e < s => e \in FirstOf(S)
<1> DEFINE F == FirstOf(S)
           Before(s) == {e \in S : e < s}
<1>0. MaxSamples \in Nat \ {0}
  BY LiveApiAssumption
<1>1. F \subseteq S
  BY DEF FirstOf
<1>2. IsFiniteSet(F)
  BY <1>1, FS_Subset
<1>3. \A s \in S : IsFiniteSet(Before(s)) /\ Cardinality(Before(s)) \in Nat
  BY FS_Subset, FS_CardinalityType
<1>4. ASSUME NEW s \in F, NEW e \in S, e < s
      PROVE  e \in F
  <2>1. Before(e) \subseteq Before(s)
    <3> SUFFICES ASSUME NEW x \in S, x < e PROVE x < s
      OBVIOUS
    <3>1. x \in Int /\ e \in Int /\ s \in Int
      BY <1>1
    <3> QED
      BY <1>4, <3>1
  <2>2. Cardinality(Before(e)) <= Cardinality(Before(s))
    BY <1>1, <1>3, <2>1, FS_Subset
  <2>3. Cardinality(Before(s)) < MaxSamples
    BY DEF FirstOf
  <2>4. Cardinality(Before(e)) < MaxSamples
    <3>1. Cardinality(Before(e)) \in Nat /\ Cardinality(Before(s)) \in Nat
      BY <1>1, <1>3
    <3> HIDE DEF Before
    <3> QED
      BY <1>0, <2>2, <2>3, <3>1
  <2> QED
    BY <2>4 DEF FirstOf
<1>5. Cardinality(F) <= MaxSamples
  <2>1. CASE F = {}
    BY <1>0, <2>1, FS_EmptySet
  <2>2. CASE F # {}
    <3>1. F \subseteq Int /\ \A s \in F : s <= b
      BY <1>1
    <3>2. PICK m \in F : \A s \in F : s <= m
      BY ONLY <2>2, <3>1, b \in Int, Greatest, Zenon
    <3>3. F \ {m} \subseteq Before(m)
      BY <1>1, <3>1, <3>2
    <3>4. Cardinality(F \ {m}) <= Cardinality(Before(m))
      BY <1>1, <1>3, <3>3, FS_Subset
    <3>5. Cardinality(F \ {m}) = Cardinality(F) - 1 /\ Cardinality(F) \in Nat
      BY <1>2, FS_RemoveElement, FS_CardinalityType
    <3>6. Cardinality(Before(m)) < MaxSamples /\ Cardinality(Before(m)) \in Nat
      BY <1>1, <1>3 DEF FirstOf
    <3> HIDE DEF F, Before
    <3> QED
      BY <1>0, <3>4, <3>5, <3>6
  <2> QED
    BY <2>1, <2>2
<1> QED
  BY <1>1, <1>2, <1>4, <1>5

\* A cursor that holds the video back, or is on a keyframe, or reads a ring without
\* video: each delta fetched from it comes with the frame it is decoded from.
AtKey(c) == c.wait \/ c.next \in Keyframes \/ format["video"] = NoFormat

LEMMA PositionAtKey ==
  ASSUME RingOK
  PROVE  /\ Position \in LiveCursor /\ Position.epoch = epoch /\ AtKey(Position)
         /\ first <= Position.next /\ Position.next <= next
<1>1. CASE Keyframes = {}
  BY <1>1, PositionInRing DEF RingOK, Position, AtKey
<1>2. CASE Keyframes # {}
  <2>1. Keyframes \subseteq Int /\ next \in Int /\ \A s \in Keyframes : s <= next
    BY KeptItems
  <2>2. \E s \in Keyframes : \A k \in Keyframes : k <= s
    BY ONLY <1>2, <2>1, Greatest, Zenon
  <2> QED
    BY <1>2, <2>2, PositionInRing DEF RingOK, Position, AtKey
<1> QED
  BY <1>1, <1>2

LEMMA FetchedFromKey ==
  ASSUME RingOK, NEW at \in LiveCursor, first <= at.next, AtKey(at),
         NEW s \in Fetched(at), ItemAt(s).track = "video", ~ItemAt(s).key
  PROVE  ItemAt(s).prev \in Fetched(at) /\ ItemAt(s).prev < s
<1> USE KeptItems
<1>1. s \in VideoKept /\ at.next <= s /\ at.next \in Nat
  BY DEF Fetched, Kept, VideoKept, LiveCursor
<1>2. ItemAt(s).prev \in Int /\ ItemAt(s).prev < s
      /\ (first <= ItemAt(s).prev => ItemAt(s).prev \in VideoKept)
  BY <1>1 DEF RingOK, VideoChained
<1>3. PICK k \in Keyframes : at.next <= k /\ k < s
  <2>1. format["video"] # NoFormat
    BY <1>1 DEF RingOK, VideoChained
  <2>2. CASE at.wait
    <3>1. PICK k \in Keyframes : at.next <= k /\ k <= s
      BY <2>2 DEF Fetched, Released
    <3>2. k # s /\ k \in Nat /\ s \in Nat
      BY <1>1
    <3> QED
      BY <3>1, <3>2
  <2>3. CASE at.next \in Keyframes
    BY <1>1, <2>3
  <2> QED
    BY <2>1, <2>2, <2>3 DEF AtKey
<1>4. k <= ItemAt(s).prev
  BY <1>1, <1>3 DEF RingOK, VideoChained
<1>5. ItemAt(s).prev \in VideoKept
  BY <1>1, <1>2, <1>3, <1>4
<1> QED
  BY <1>1, <1>2, <1>3, <1>4, <1>5, VideoReleased

-----------------------------------------------------------------------------
(* Where a player is *)

\* A cursor the player may go on with: after all it got, and one of another epoch
\* only when the ring has let go of all it got.
Beyond(g, c) ==
  /\ g # -1 => g < c.next
  /\ FormatChanged(c) => g < first

\* A cursor that live_fragment just took, whatever the camera did since.
OnKey(c) ==
  /\ c.epoch <= epoch
  /\ c.epoch = epoch => AtKey(c) \/ c.next < first

Follows(S) ==
  \A i \in S : i.track = "video" /\ ~i.key => \E j \in S : j.seq = i.prev

\* What the samples of a fragment being built are, with cursor c and last sample g.
Building(p) ==
  /\ items[p] # {}
  /\ \A i \in items[p] : /\ i.seq \in Nat /\ got[p] < i.seq
                         /\ i.seq < cur[p].next /\ i.seq < next
                         /\ FormatChanged(cur[p]) => i.seq < first
  /\ \E m \in items[p] : \A i \in items[p] : i.seq <= m.seq
  /\ marked[p] => Follows(items[p])

PlayerOK(p) ==
  /\ kept[p] \in LiveCursor \cup {NoCursor}
  /\ step[p] \in {"fetch", "resubscribe", "refetch", "answer"} => cur[p] \in LiveCursor
  /\ -1 <= got[p] /\ got[p] < next
  /\ Beyond(got[p], kept[p])
  /\ step[p] = "subscribe" => got[p] = -1
  /\ step[p] = "resubscribe" => got[p] < first
  /\ step[p] \in {"fetch", "refetch"} => Beyond(got[p], cur[p])
  /\ step[p] = "fetch" /\ marked[p] => OnKey(cur[p])
  /\ step[p] = "refetch" => OnKey(cur[p])
  /\ step[p] = "answer" => Building(p)

FragOK(p) ==
  /\ \A i \in frag[p].items : frag[p].after < i.seq
  /\ frag[p].marked => Follows(frag[p].items)

LEMMA StartPlayers ==
  ASSUME Init
  PROVE  TypeOK /\ RingOK /\ \A p \in Players : PlayerOK(p) /\ FragOK(p)
<1>1. RingOK /\ next = 0 /\ first = 0
  BY InitTypeOK, InitFaithful, InitChained DEF Init, Start, RingInit, RingOK
<1>2. TypeOK
  <2>1. Cardinality({}) <= MaxSamples
    BY FS_EmptySet, LiveApiAssumption
  <2> QED
    BY <1>1, <2>1 DEF Init, TypeOK, RingOK, NoCursor, Cursor
<1> QED
  BY <1>1, <1>2 DEF Init, PlayerOK, FragOK, NoFragments, NoFragment, NoCursor, Beyond, Follows

LEMMA NoFragOK ==
  ASSUME NEW p \in Players, frag'[p] = NoFragment
  PROVE  FragOK(p)'
BY DEF NoFragment, FragOK, Follows

\* The camera: what a player got stays behind its cursors.
LEMMA CameraBeyond ==
  ASSUME RingTypeOK, RingFaithful, [Camera]_ringVars, NEW g \in Int, NEW c, g < next,
         Beyond(g, c)
  PROVE  Beyond(g, c)'
<1>1. {first, first', next, next'} \subseteq Nat /\ first <= first' /\ next <= next'
      /\ (epoch' # epoch => first' = next')
  BY CameraTypeOK, CameraMoves DEF RingTypeOK
<1> QED
  BY <1>1 DEF Beyond, FormatChanged

LEMMA CameraOnKey ==
  ASSUME RingOK, [Camera]_ringVars, NEW c \in LiveCursor, OnKey(c)
  PROVE  OnKey(c)'
<1>0. /\ c.epoch \in Nat /\ epoch \in Nat /\ c.next \in Nat /\ next \in Nat /\ first \in Nat
      /\ RingTypeOK /\ RingFaithful /\ epoch' \in Nat /\ first' \in Nat
      /\ first <= first' /\ next <= next' /\ first' \in Nat
  BY CameraTypeOK, CameraMoves DEF RingOK, RingTypeOK, LiveCursor
<1>1. ASSUME NEW t \in Track, NEW f, PublishFormat(t, f), Changes(t, f)
      PROVE  c.epoch < epoch'
  BY <1>0, <1>1 DEF PublishFormat, OnKey
<1>2. ASSUME UNCHANGED <<slots, first, next, epoch, format>>
      PROVE  OnKey(c)'
  BY <1>2 DEF OnKey, AtKey, Keyframes, Kept, ItemAt
<1>3. ASSUME NEW t \in Track, NEW f, PublishFormat(t, f), ~Changes(t, f)
      PROVE  OnKey(c)'
  <2>1. format' = format
    BY <1>0, <1>3 DEF PublishFormat, Changes, RingTypeOK
  <2> QED
    BY <1>2, <1>3, <2>1 DEF PublishFormat
<1>4. ASSUME NEW t \in Track, NEW key \in BOOLEAN, NEW size \in Sizes,
             Publish(t, key, size)
      PROVE  OnKey(c)'
  <2>1. epoch' = epoch /\ format' = format
    BY <1>4 DEF Publish
  <2>2. c.next \in Keyframes => c.next \in Keyframes' \/ c.next < first'
    <3> SUFFICES ASSUME c.next \in Keyframes, first' <= c.next
                 PROVE  c.next \in Keyframes'
      BY <1>0
    <3>1. c.next \in Kept /\ c.next \in Kept' /\ c.next # next
      BY <1>0, <1>4, PublishKeeps DEF Keyframes, Kept
    <3>2. ItemAt(c.next)' = ItemAt(c.next)
      BY <1>0, <1>4, <3>1, PublishKeeps
    <3> QED
      BY <3>1, <3>2 DEF Keyframes, IsKey
  <2> QED
    BY <1>0, <2>1, <2>2 DEF OnKey, AtKey
<1>5. ASSUME Stopped
      PROVE  OnKey(c)'
  <2>1. first' = next /\ epoch' = epoch /\ format' = format
    BY <1>5 DEF Stopped, Clear
  <2>2. c.next \in Keyframes => c.next < first'
    BY <1>0, <2>1 DEF Keyframes, Kept
  <2> QED
    BY <1>0, <2>1, <2>2 DEF OnKey, AtKey
<1>6. ASSUME Tick \/ UNCHANGED ringVars
      PROVE  OnKey(c)'
  BY <1>2, <1>6 DEF Tick, ringVars, ring
<1>7. c.epoch < epoch' \/ OnKey(c)'
  BY <1>1, <1>3, <1>4, <1>5, <1>6 DEF Camera, Track
<1> QED
  BY <1>0, <1>7 DEF OnKey

LEMMA CameraPlayers ==
  ASSUME TypeOK, RingOK, [Camera]_ringVars, UNCHANGED player,
         NEW p \in Players, PlayerOK(p)
  PROVE  PlayerOK(p)'
<1>1. {first, first', next, next'} \subseteq Nat /\ first <= first' /\ next <= next'
      /\ (epoch' # epoch => first' = next') /\ got[p] \in Int /\ RingTypeOK /\ RingFaithful
  BY CameraTypeOK, CameraMoves DEF RingOK, RingTypeOK, TypeOK
<1>2. UNCHANGED <<kept, step, cur, marked, items, got>>
  BY DEF player
<1>3. Beyond(got[p], kept[p])'
  BY <1>1, <1>2, CameraBeyond DEF PlayerOK
<1>4. step[p] \in {"fetch", "refetch"} => Beyond(got[p], cur[p])'
  BY <1>1, <1>2, CameraBeyond DEF PlayerOK
<1>5. /\ step[p] = "fetch" /\ marked[p] => OnKey(cur[p])'
      /\ step[p] = "refetch" => OnKey(cur[p])'
  BY <1>2, CameraOnKey DEF PlayerOK
<1>6. step[p] = "answer" => Building(p)'
  <2> SUFFICES ASSUME step[p] = "answer" PROVE Building(p)'
    OBVIOUS
  <2>1. Building(p)
    BY DEF PlayerOK
  <2>2. ASSUME NEW i \in items[p]
        PROVE  i.seq < next' /\ (FormatChanged(cur[p])' => i.seq < first')
    BY <1>1, <1>2, <2>1 DEF Building, FormatChanged
  <2> QED
    BY <1>2, <2>1, <2>2 DEF Building
<1> QED
  BY <1>1, <1>2, <1>3, <1>4, <1>5, <1>6 DEF PlayerOK

\* fetch: one run of samples after all the player got, or none.
LEMMA FetchSamplesPlayer ==
  ASSUME TypeOK, RingOK, UNCHANGED ringVars, NEW p \in Players, PlayerOK(p), FetchSamples(p)
  PROVE  /\ PlayerOK(p)'
         /\ Cardinality(items'[p]) <= MaxSamples
<1> DEFINE at == From(cur[p])
           seqs == FirstOf(Fetched(at))
<1>1. /\ cur[p] \in LiveCursor /\ HasNew(cur[p])
      /\ at \in LiveCursor /\ at.epoch = epoch /\ first <= at.next /\ at.next <= next
      /\ cur[p].next <= at.next
      /\ \A s \in Fetched(at) : s \in Kept /\ ItemAt(s).seq = s /\ at.next <= s
  BY FromInRing DEF FetchSamples, PlayerOK, RingOK, Fetched
<1>2. /\ {first, next, epoch, at.next, cur[p].next, cur[p].epoch} \subseteq Nat /\ got[p] \in Int
      /\ \A s \in Fetched(at) : s \in Nat /\ s < next
  BY <1>1, KeptItems DEF LiveCursor, TypeOK, RingTypeOK
<1>3. first' = first /\ next' = next /\ epoch' = epoch
  BY DEF ringVars, ring
<1>4. /\ After(at) \in LiveCursor /\ After(at).next = next /\ After(at).epoch = epoch
  BY <1>1, <1>2 DEF After, LiveCursor
<1>5. Beyond(got[p], cur[p])
  BY DEF FetchSamples, PlayerOK
<1>6. \A s \in Fetched(at) : got[p] < s
  BY <1>1, <1>2, <1>5 DEF Beyond
<1>7. Beyond(got[p], After(at))
  BY <1>2, <1>4 DEF Beyond, FormatChanged, PlayerOK
<1>8. /\ IsFiniteSet(seqs) /\ Cardinality(seqs) <= MaxSamples /\ seqs \subseteq Fetched(at)
      /\ \A s \in seqs : \A e \in Fetched(at) : e < s => e \in seqs
  <2>1. Fetched(at) \subseteq at.next..(next - 1)
    BY DEF Fetched
  <2>2. IsFiniteSet(Fetched(at))
    <3>1. at.next \in Int /\ next - 1 \in Int
      BY <1>2
    <3>2. IsFiniteSet(at.next..(next - 1))
      BY ONLY <3>1, FS_Interval
    <3> QED
      BY ONLY <2>1, <3>2, FS_Subset
  <2>3. Fetched(at) \subseteq Int /\ \A s \in Fetched(at) : s <= next
    BY <1>2
  <2> QED
    BY ONLY <1>2, <2>2, <2>3, FirstOfBounded, next \in Int
<1>9. cur'[p] = After(at) /\ got' = got
      /\ marked'[p] = (marked[p] \/ (Behind(cur[p]) /\ step[p] = "fetch"))
  BY DEF FetchSamples, TypeOK
<1> HIDE DEF at, seqs
<1>10. CASE seqs = {}
  <2>1. kept'[p] = After(at) /\ step'[p] = "idle" /\ items' = items
    BY <1>10 DEF FetchSamples, Nothing, Goto, TypeOK, at, seqs
  <2>2. PlayerOK(p)'
    BY <1>3, <1>4, <1>7, <1>9, <2>1 DEF PlayerOK, Beyond, FormatChanged
  <2> QED
    BY <2>1, <2>2 DEF TypeOK
<1>11. CASE seqs # {}
  <2>1. kept' = kept /\ step'[p] = "answer"
    BY <1>11 DEF FetchSamples, Goto, TypeOK, at, seqs
  <2>2. items' = [items EXCEPT ![p] = {ItemAt(s) : s \in seqs}]
    BY <1>11 DEF FetchSamples, at, seqs
  <2>3. PICK last \in seqs : \A s \in seqs : s <= last
    <3>1. seqs \subseteq Int /\ next \in Int /\ \A s \in seqs : s <= next
      BY <1>2, <1>8
    <3> QED
      BY ONLY <1>11, <3>1, Greatest, Zenon
  <2>4. seqs \subseteq Nat /\ seqs \subseteq Fetched(at) /\ \A s \in seqs : ItemAt(s).seq = s
    BY <1>1, <1>2, <1>8 DEF at
  <2>5. items'[p] = {ItemAt(s) : s \in seqs}
    BY <2>2 DEF TypeOK
  <2>6. Cardinality(items'[p]) <= MaxSamples
    <3> DEFINE T == {ItemAt(s) : s \in seqs}
               f == [s \in seqs |-> ItemAt(s)]
    <3>1. f \in Surjection(seqs, T)
      BY DEF Surjection
    <3>2. Cardinality(T) <= Cardinality(seqs) /\ Cardinality(T) \in Nat /\ Cardinality(seqs) \in Nat
      BY <1>8, <3>1, FS_Surjection, FS_CardinalityType
    <3> HIDE DEF T
    <3>3. MaxSamples \in Nat
      BY LiveApiAssumption
    <3>4. Cardinality(seqs) <= MaxSamples
      BY <1>8
    <3> QED
      BY <2>5, <3>2, <3>3, <3>4 DEF T
  <2>7. marked'[p] => Follows(items'[p])
    <3> SUFFICES ASSUME marked'[p], NEW s \in seqs, ItemAt(s).track = "video", ~ItemAt(s).key
                 PROVE  \E e \in seqs : ItemAt(e).seq = ItemAt(s).prev
      BY <2>5 DEF Follows
    <3>1. AtKey(at)
      <4>1. CASE Behind(cur[p])
        <5>1. at = Position
          BY <4>1 DEF at, From
        <5> QED
          BY <5>1, PositionAtKey
      <4>2. CASE ~Behind(cur[p])
        <5>1. at = cur[p] /\ ~(cur[p].next < first)
          BY <4>2 DEF at, From, Behind
        <5>2. OnKey(cur[p])
          BY <1>9, <4>2 DEF PlayerOK, FetchSamples
        <5> QED
          BY <1>1, <5>1, <5>2 DEF OnKey, HasNew
      <4> QED
        BY <4>1, <4>2
    <3>2. ItemAt(s).prev \in Fetched(at) /\ ItemAt(s).prev < s
      BY <1>1, <2>4, <3>1, FetchedFromKey DEF at
    <3>3. ItemAt(s).prev \in seqs
      BY <1>8, <3>2 DEF at
    <3> QED
      BY <2>4, <3>3
  <2>8. Building(p)'
    BY <1>2, <1>3, <1>4, <1>6, <1>9, <2>3, <2>4, <2>5, <2>7 DEF Building, FormatChanged, at
  <2>9. PlayerOK(p)'
    BY <1>3, <1>4, <1>9, <2>1, <2>8 DEF PlayerOK, Beyond, FormatChanged
  <2> QED
    BY <2>6, <2>9
<1> QED
  BY <1>10, <1>11

\* The steps of a request that leave the ring, and the other players, as they are.
LEMMA RestPlayer ==
  ASSUME TypeOK, UNCHANGED ringVars, NEW p \in Players, PlayerOK(p),
         kept'[p] = kept[p], step'[p] = step[p], cur'[p] = cur[p], got'[p] = got[p],
         marked'[p] = marked[p], items'[p] = items[p]
  PROVE  PlayerOK(p)'
BY DEF PlayerOK, Building, Beyond, OnKey, AtKey, FormatChanged, Keyframes, Kept, ItemAt,
       ringVars, ring

LEMMA NothingPlayer ==
  ASSUME TypeOK, UNCHANGED ringVars, NEW p \in Players, PlayerOK(p),
         step[p] \in {"fetch", "refetch", "answer"},
         Nothing(p, cur[p]), got' = got
  PROVE  PlayerOK(p)'
<1>1. cur[p] \in LiveCursor
  BY DEF PlayerOK
<1>2. Beyond(got[p], cur[p])
  <2>1. CASE step[p] = "answer"
    <3>1. PICK i \in items[p] :
            /\ i.seq \in Nat /\ got[p] < i.seq /\ i.seq < cur[p].next /\ i.seq < next
            /\ FormatChanged(cur[p]) => i.seq < first
      BY <2>1 DEF PlayerOK, Building
    <3>2. got[p] \in Int /\ cur[p].next \in Nat /\ first \in Nat
      BY <1>1 DEF TypeOK, RingTypeOK, LiveCursor
    <3> QED
      BY <3>1, <3>2 DEF Beyond
  <2> QED
    BY <2>1 DEF PlayerOK
<1>3. kept'[p] = cur[p] /\ step'[p] = "idle"
  BY DEF Nothing, Goto, TypeOK
<1> QED
  BY <1>1, <1>2, <1>3 DEF PlayerOK, Beyond, FormatChanged, ringVars, ring

LEMMA AskPlayer ==
  ASSUME TypeOK, UNCHANGED ringVars, NEW p \in Players, PlayerOK(p), Ask(p)
  PROVE  PlayerOK(p)'
<1>1. CASE kept[p] = NoCursor
  <2>1. got[p] = -1
    BY <1>1 DEF PlayerOK, Beyond, NoCursor, TypeOK
  <2> QED
    BY <1>1, <2>1 DEF Ask, Goto, PlayerOK, Beyond, FormatChanged, ringVars, ring, TypeOK
<1>2. CASE kept[p] # NoCursor
  BY <1>2 DEF Ask, Goto, PlayerOK, Beyond, FormatChanged, ringVars, ring, TypeOK
<1> QED
  BY <1>1, <1>2

LEMMA SubscribePlayer ==
  ASSUME TypeOK, RingOK, UNCHANGED ringVars, NEW p \in Players, PlayerOK(p), Subscribe(p)
  PROVE  PlayerOK(p)'
<1>1. /\ Position \in LiveCursor /\ Position.epoch = epoch /\ AtKey(Position)
      /\ first <= Position.next /\ Position.next <= next
  BY PositionAtKey
<1>2. {first, next, epoch, Position.next} \subseteq Nat /\ got[p] \in Int
  BY <1>1 DEF TypeOK, RingTypeOK, LiveCursor
<1>3. cur'[p] = Position /\ got' = got /\ kept' = kept /\ step'[p] \in {"fetch", "refetch"}
  BY DEF Subscribe, Goto, TypeOK
<1>4. got[p] = -1 \/ got[p] < first
  BY DEF Subscribe, PlayerOK
<1>5. /\ epoch' = epoch /\ first' = first /\ next' = next /\ AtKey(Position)'
  BY <1>1 DEF AtKey, Position, Keyframes, Kept, ItemAt, ringVars, ring
<1>6. Position' = Position
  BY DEF Position, Keyframes, Kept, ItemAt, ringVars, ring
<1>7. OnKey(cur[p])'
  BY <1>1, <1>2, <1>3, <1>5, <1>6 DEF OnKey
<1>8. Beyond(got[p], cur[p])'
  BY <1>1, <1>2, <1>3, <1>4, <1>5 DEF Beyond, FormatChanged
<1> QED
  BY <1>1, <1>2, <1>3, <1>5, <1>7, <1>8 DEF PlayerOK, Beyond, FormatChanged

LEMMA ChangedPlayer ==
  ASSUME TypeOK, UNCHANGED ringVars, NEW p \in Players, PlayerOK(p), FetchChanged(p)
  PROVE  PlayerOK(p)'
BY DEF FetchChanged, Goto, PlayerOK, Beyond, FormatChanged, ringVars, ring, TypeOK

LEMMA AnswerPlayer ==
  ASSUME TypeOK, UNCHANGED ringVars, NEW p \in Players, PlayerOK(p), Answer(p)
  PROVE  PlayerOK(p)' /\ FragOK(p)'
<1> DEFINE last == CHOOSE s \in {i.seq : i \in items[p]} : \A i \in items[p] : i.seq <= s
<1>1. Building(p) /\ cur[p] \in LiveCursor
  BY DEF Answer, PlayerOK
<1>2. last \in {i.seq : i \in items[p]}
  BY <1>1 DEF Building
<1>3. PICK i \in items[p] : last = i.seq
  BY <1>2
<1>4. /\ last \in Nat /\ last < cur[p].next /\ last < next
      /\ FormatChanged(cur[p]) => last < first
  BY <1>1, <1>3 DEF Building
<1>5. got'[p] = last /\ kept'[p] = cur[p] /\ step'[p] = "idle"
  BY DEF Answer, Goto, TypeOK
<1>6. frag'[p] = [items |-> items[p], marked |-> marked[p], header |-> format,
                  after |-> got[p], was |-> decoder[p]["video"]]
  BY DEF Answer, NoFragments
<1> HIDE DEF last
<1>7. PlayerOK(p)'
  BY <1>1, <1>4, <1>5 DEF PlayerOK, Beyond, FormatChanged, ringVars, ring
<1>8. FragOK(p)'
  BY <1>1, <1>6 DEF FragOK, Building
<1> QED
  BY <1>7, <1>8

\* A new run of the server: players keep their cursors, and have got nothing of it.
LEMMA RestartPlayer ==
  ASSUME TypeOK, NEW p \in Players, PlayerOK(p), Restart
  PROVE  PlayerOK(p)'
<1>1. next' = 0 /\ first' = 0
  BY RestartRing
<1>2. got'[p] = -1 /\ step'[p] = "idle" /\ kept' = kept /\ cur' = cur
  BY DEF Restart
<1> QED
  BY <1>1, <1>2 DEF PlayerOK, Beyond

-----------------------------------------------------------------------------
(* All players, one step *)

LEMMA ServeOthers ==
  ASSUME TypeOK, NEW q \in Players, (Ask(q) /\ frag' = NoFragments) \/ Serve(q),
         NEW p \in Players, p # q
  PROVE  /\ kept'[p] = kept[p] /\ step'[p] = step[p] /\ cur'[p] = cur[p] /\ got'[p] = got[p]
         /\ marked'[p] = marked[p] /\ items'[p] = items[p] /\ frag'[p] = NoFragment
<1>1. CASE Ask(q) /\ frag' = NoFragments
  BY <1>1 DEF Ask, Goto, NoFragments, TypeOK
<1>2. CASE Answer(q)
  BY <1>2 DEF Answer, Goto, NoFragments, TypeOK
<1>3. CASE Subscribe(q) /\ frag' = NoFragments
  BY <1>3 DEF Subscribe, Goto, NoFragments, TypeOK
<1>4. CASE FetchSamples(q) /\ frag' = NoFragments
  BY <1>4 DEF FetchSamples, Nothing, Goto, NoFragments, TypeOK
<1>5. CASE (FetchNone(q) \/ RefetchChanged(q) \/ AnswerNothing(q)) /\ frag' = NoFragments
  BY <1>5 DEF FetchNone, RefetchChanged, AnswerNothing, Nothing, Goto, NoFragments, TypeOK
<1>6. CASE FetchChanged(q) /\ frag' = NoFragments
  BY <1>6 DEF FetchChanged, Goto, NoFragments, TypeOK
<1> QED
  BY <1>1, <1>2, <1>3, <1>4, <1>5, <1>6 DEF Serve

LEMMA ServePlayer ==
  ASSUME TypeOK, RingOK, UNCHANGED ringVars, NEW q \in Players,
         (Ask(q) /\ frag' = NoFragments) \/ Serve(q),
         NEW p \in Players, PlayerOK(p)
  PROVE  PlayerOK(p)' /\ FragOK(p)'
<1>1. CASE p # q
  BY <1>1, ServeOthers, RestPlayer, NoFragOK
<1>2. CASE p = q
  <2>1. CASE Answer(q)
    BY <1>2, <2>1, AnswerPlayer
  <2>2. CASE ~Answer(q)
    <3>1. frag'[p] = NoFragment
      BY <2>2 DEF Serve, NoFragments
    <3>2. CASE FetchNone(q) \/ RefetchChanged(q) \/ AnswerNothing(q)
      BY <1>2, <3>1, <3>2, NothingPlayer, NoFragOK DEF FetchNone, RefetchChanged, AnswerNothing
    <3> QED
      BY <1>2, <2>2, <3>1, <3>2, NoFragOK, AskPlayer, SubscribePlayer, FetchSamplesPlayer,
         ChangedPlayer DEF Serve
  <2> QED
    BY <2>1, <2>2
<1> QED
  BY <1>1, <1>2

LEMMA ServeTypeOK ==
  ASSUME TypeOK, RingOK, UNCHANGED ringVars, NEW q \in Players, PlayerOK(q),
         (Ask(q) /\ frag' = NoFragments) \/ Serve(q)
  PROVE  TypeOK'
<1>1. RingTypeOK'
  BY CameraTypeOK DEF TypeOK
<1>2. LiveCursor \subseteq Cursor
  BY DEF LiveCursor, Cursor
<1>3. Cardinality({}) <= MaxSamples
  BY FS_EmptySet, LiveApiAssumption
<1>4. CASE Ask(q)
  BY <1>1, <1>4 DEF Ask, Goto, TypeOK
<1>5. CASE Answer(q)
  <2>1. got' \in [Players -> Int]
    <3> DEFINE last == CHOOSE s \in {i.seq : i \in items[q]} : \A i \in items[q] : i.seq <= s
    <3>1. last \in {i.seq : i \in items[q]} /\ \A i \in items[q] : i.seq \in Nat
      BY <1>5 DEF Answer, PlayerOK, Building
    <3>2. last \in Int
      <4>1. PICK i \in items[q] : last = i.seq
        BY <3>1
      <4> HIDE DEF last
      <4> QED
        BY <3>1, <4>1
    <3>3. got' = [got EXCEPT ![q] = last]
      BY <1>5 DEF Answer
    <3> HIDE DEF last
    <3> QED
      BY <3>2, <3>3 DEF TypeOK
  <2>2. items' \in [Players -> SUBSET Item] /\ \A p \in Players : Cardinality(items'[p]) <= MaxSamples
    BY <1>3, <1>5 DEF Answer, TypeOK
  <2> QED
    BY <1>1, <1>5, <2>1, <2>2 DEF Answer, Goto, TypeOK
<1>6. CASE Subscribe(q)
  BY <1>1, <1>2, <1>6, PositionAtKey DEF Subscribe, Goto, TypeOK
<1>7. CASE FetchSamples(q)
  <2> DEFINE at == From(cur[q])
             seqs == FirstOf(Fetched(at))
  <2>1. /\ at \in LiveCursor /\ \A s \in seqs : s \in Kept
    BY <1>7, FromInRing DEF FetchSamples, PlayerOK, RingOK, FirstOf
  <2>2. After(at) \in Cursor
    <3> HIDE DEF at
    <3>1. next \in Int /\ at \in [next : Int, epoch : Nat, wait : BOOLEAN]
      BY <2>1 DEF TypeOK, RingTypeOK, LiveCursor
    <3> QED
      BY <3>1 DEF After, Cursor
  <2>3. \A s \in seqs : ItemAt(s) \in Item
    BY <2>1, KeptItems
  <2>4. Cardinality(items'[q]) <= MaxSamples
    BY <1>7, FetchSamplesPlayer
  <2>5. /\ items' \in [Players -> SUBSET Item]
        /\ \A p \in Players : p # q => items'[p] = items[p]
    BY <1>7, <2>3 DEF FetchSamples, TypeOK
  <2>6. cur' \in [Players -> Cursor] /\ kept' \in [Players -> Cursor]
    BY <1>7, <2>2 DEF FetchSamples, Nothing, TypeOK
  <2>7. /\ marked' \in [Players -> BOOLEAN] /\ got' = got
        /\ step' \in [Players -> {"idle", "subscribe", "fetch", "resubscribe", "refetch", "answer"}]
    BY <1>7 DEF FetchSamples, Nothing, Goto, TypeOK
  <2> QED
    BY <1>1, <2>4, <2>5, <2>6, <2>7 DEF TypeOK
<1>8. CASE FetchNone(q) \/ RefetchChanged(q) \/ FetchChanged(q)
  BY <1>1, <1>8 DEF FetchNone, RefetchChanged, FetchChanged, Nothing, Goto, TypeOK
<1>9. CASE AnswerNothing(q)
  <2>1. items' \in [Players -> SUBSET Item] /\ \A p \in Players : Cardinality(items'[p]) <= MaxSamples
    BY <1>3, <1>9 DEF AnswerNothing, TypeOK
  <2> QED
    BY <1>1, <1>9, <2>1 DEF AnswerNothing, Nothing, Goto, TypeOK
<1> QED
  BY <1>4, <1>5, <1>6, <1>7, <1>8, <1>9 DEF Serve

LEMMA RestartTypeOK ==
  ASSUME TypeOK, Restart
  PROVE  TypeOK'
<1>1. RingTypeOK'
  BY RestartRing
<1>2. Cardinality({}) <= MaxSamples
  BY FS_EmptySet, LiveApiAssumption
<1> QED
  BY <1>1, <1>2 DEF Restart, TypeOK

AllPlayers == \A p \in Players : PlayerOK(p) /\ FragOK(p)

LEMMA StepPlayers ==
  ASSUME TypeOK, RingOK, AllPlayers, [Next]_vars
  PROVE  TypeOK' /\ AllPlayers'
<1>1. CASE Camera /\ frag' = NoFragments /\ UNCHANGED player
  <2>1. TypeOK'
    BY <1>1, CameraTypeOK DEF TypeOK, player
  <2>2. \A p \in Players : frag'[p] = NoFragment
    BY <1>1 DEF NoFragments
  <2> QED
    BY <1>1, <2>1, <2>2, CameraPlayers, NoFragOK DEF AllPlayers
<1>2. ASSUME NEW q \in Players, (Ask(q) /\ frag' = NoFragments) \/ Serve(q), UNCHANGED ringVars
      PROVE  TypeOK' /\ AllPlayers'
  BY <1>2, ServeTypeOK, ServePlayer DEF AllPlayers
<1>3. CASE Restart
  <2>1. \A p \in Players : frag'[p] = NoFragment
    BY <1>3 DEF Restart, NoFragments
  <2> QED
    BY <1>3, <2>1, RestartTypeOK, RestartPlayer, NoFragOK DEF AllPlayers
<1>4. CASE UNCHANGED vars
  <2>1. TypeOK'
    BY <1>4, CameraTypeOK DEF vars, player, TypeOK
  <2>2. ASSUME NEW p \in Players PROVE PlayerOK(p)' /\ FragOK(p)'
    BY <1>4, RestPlayer DEF vars, player, AllPlayers, FragOK
  <2> QED
    BY <2>1, <2>2 DEF AllPlayers
<1> QED
  BY <1>1, <1>2, <1>3, <1>4 DEF Next

\* A player is never given a sample twice within a run of the server, whatever
\* overruns, format changes, stops and restarts come between its requests and
\* between the calls of one, and a fragment marked as a new start can be decoded
\* from its own samples (live_fragment, subscribe, fetch).
THEOREM EachSampleOnce == Spec => []FragmentsFollow
<1> DEFINE Inv == TypeOK /\ RingOK /\ AllPlayers
<1>1. Init => Inv
  BY StartPlayers DEF AllPlayers
<1>2. Inv /\ [Next]_vars => Inv'
  BY StepRingOK, StepPlayers
<1>3. Inv => FragmentsFollow
  BY DEF AllPlayers, FragOK, Follows, FragmentsFollow, NoRepeat, MarkedStartsAtKey
<1> QED
  BY <1>1, <1>2, <1>3, PTL DEF Spec

=============================================================================
