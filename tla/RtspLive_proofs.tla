--------------------------- MODULE RtspLive_proofs ---------------------------
(***************************************************************************)
(* Proofs about the RTSP clients of the ring, for any number of them and    *)
(* every ring: what a connection keeps has its type, no client gets a       *)
(* sample twice or loses its place, and Samples leaves no gap.              *)
(***************************************************************************)
EXTENDS RtspLive, LiveRing_proofs

-----------------------------------------------------------------------------
(* Types *)

LEMMA RingStep ==
  ASSUME [Next]_vars
  PROVE  [Camera]_ringVars
BY DEF Next, Pace, Request, vars

LEMMA StartTypeOK ==
  ASSUME Init
  PROVE  TypeOK /\ RingFaithful
<1>1. RingTypeOK /\ RingFaithful
  BY InitTypeOK, InitFaithful DEF Init, Start
<1>2. NoFormats \in Formats
  BY DEF NoFormats, Formats, Track
<1>3. NoCursor \in LiveCursor
  BY DEF NoCursor, LiveCursor
<1> QED
  BY <1>1, <1>2, <1>3 DEF Init, TypeOK

\* What the ring announces is a header.
LEMMA FormatIsHeader ==
  ASSUME RingTypeOK
  PROVE  format \in Formats
BY DEF RingTypeOK, Formats

LEMMA PaceTypeOK ==
  ASSUME TypeOK, RingFaithful, NEW c \in Clients, Pace(c)
  PROVE  TypeOK'
<1>1. RingTypeOK /\ RingTypeOK'
  BY RingStep, CameraTypeOK DEF Pace, Next, TypeOK
<1> USE <1>1
<1>2. CASE PaceCheck(c) \/ PaceNone(c) \/ PaceChanged(c) \/ PaceHeaderSame(c)
  BY <1>2 DEF PaceCheck, PaceNone, PaceChanged, PaceHeaderSame, TypeOK
<1>3. CASE PaceHeaderOther(c)
  BY <1>3 DEF PaceHeaderOther, TypeOK
<1>4. CASE PaceSubscribe(c)
  BY <1>4, PositionInRing DEF PaceSubscribe, TypeOK
<1>5. CASE PaceSamples(c)
  <2> DEFINE at == From(cursor[c])
             videos == {s \in Fetched(at) : ItemAt(s).track = "video"}
  <2>1. at \in LiveCursor /\ Fetched(at) \subseteq at.next..(next - 1)
    BY <1>5, FromInRing DEF PaceSamples, TypeOK
  <2>2. After(at) \in LiveCursor
    BY <2>1 DEF After, LiveCursor, RingTypeOK
  <2>3. heard' \in [Clients -> Int]
    <3>1. videos = {} \/ (CHOOSE s \in videos : \A v \in videos : v <= s) \in Int
      BY <1>5, LatestVideo DEF PaceSamples, TypeOK
    <3> QED
      BY <1>5, <3>1 DEF PaceSamples, TypeOK
  <2> QED
    BY <1>5, <2>2, <2>3 DEF PaceSamples, TypeOK
<1> QED
  BY <1>2, <1>3, <1>4, <1>5 DEF Pace

LEMMA RequestTypeOK ==
  ASSUME TypeOK, RingFaithful, NEW c \in Clients, Request(c)
  PROVE  TypeOK'
<1>1. RingTypeOK /\ RingTypeOK'
  BY RingStep, CameraTypeOK DEF Request, Next, TypeOK
<1> USE <1>1
<1>2. CASE Describe(c)
  BY <1>2, FormatIsHeader DEF Describe, TypeOK
<1>3. ASSUME NEW t \in Track, Setup(c, t) PROVE TypeOK'
  <2>1. [active[c] EXCEPT ![t] = header[c][t]] \in Formats
    BY <1>3 DEF TypeOK, Formats, Track
  <2>2. active' \in [Clients -> Formats]
    BY <1>3, <2>1 DEF Setup, TypeOK
  <2> QED
    BY <1>3, <2>2 DEF Setup, TypeOK
<1>4. CASE Play(c)
  BY <1>4, PositionInRing DEF Play, TypeOK
<1>5. CASE Pause(c)
  BY <1>5 DEF Pause, TypeOK
<1>6. CASE Teardown(c)
  BY <1>6 DEF Teardown, TypeOK
<1> QED
  BY <1>2, <1>3, <1>4, <1>5, <1>6 DEF Request

LEMMA StepTypeOK ==
  ASSUME TypeOK, RingFaithful, [Next]_vars
  PROVE  TypeOK' /\ RingFaithful'
<1>1. RingTypeOK' /\ RingFaithful'
  BY RingStep, CameraTypeOK, CameraFaithful DEF TypeOK
<1>2. CASE UNCHANGED client
  BY <1>1, <1>2 DEF client, TypeOK
<1> QED
  BY <1>1, <1>2, PaceTypeOK, RequestTypeOK DEF Next, vars, client

\* What a connection keeps has its type, and past DESCRIBE a header with video,
\* whatever the camera and the requests do (session.rs).
THEOREM RtspType == Spec => []TypeOK
<1>1. Init => TypeOK /\ RingFaithful
  BY StartTypeOK
<1>2. TypeOK /\ RingFaithful /\ [Next]_vars => TypeOK' /\ RingFaithful'
  BY StepTypeOK
<1> QED
  BY <1>1, <1>2, PTL DEF Spec

-----------------------------------------------------------------------------
(* Once only, and without gaps *)

\* Where a client is: what it got is behind its cursor, its cursor within the
\* ring's count; and between pace_once's calls, when the epoch it reads is over,
\* what it got has left the ring for good.
Placed(c) ==
  /\ heard[c] < cursor[c].next /\ cursor[c].next <= next
  /\ FormatChanged(cursor[c]) => heard[c] < first
  /\ step[c] \in {"header", "subscribe"} => heard[c] < first

Fresh(c) == \A s \in Seqs(c) : batch[c].heard < s

GaplessOf(c) ==
  batch[c].kind = "samples" =>
    \A i \in batch[c].items :
      \A s \in batch[c].from..(i.seq - 1) : s \in Seqs(c) \/ batch[c].held

LEMMA StartPlaced ==
  ASSUME Init, NEW c \in Clients
  PROVE  Placed(c) /\ Fresh(c) /\ GaplessOf(c)
BY DEF Init, Start, RingInit, NoCursor, NoBatches, NoBatch, Placed, Fresh,
       GaplessOf, Seqs

\* A step that delivers nothing to a client says nothing of it.
LEMMA Undelivered ==
  ASSUME NEW c \in Clients, batch' = NoBatches
  PROVE  Fresh(c)' /\ GaplessOf(c)'
BY DEF NoBatches, NoBatch, Fresh, GaplessOf, Seqs

\* The camera moves the ring under a client.
LEMMA CameraPlaced ==
  ASSUME TypeOK, RingFaithful, Camera, UNCHANGED client,
         NEW c \in Clients, Placed(c)
  PROVE  Placed(c)'
<1>1. /\ first <= first' /\ next <= next' /\ (epoch' # epoch => first' = next')
      /\ RingTypeOK'
  BY CameraMoves, CameraTypeOK DEF TypeOK
<1>2. /\ heard[c] \in Int /\ cursor[c].next \in Nat
      /\ {first, next, first', next'} \subseteq Nat
  BY <1>1 DEF TypeOK, RingTypeOK, LiveCursor
<1>3. heard' = heard /\ cursor' = cursor /\ step' = step
  BY DEF client
<1> QED
  BY <1>1, <1>2, <1>3 DEF Placed, FormatChanged

\* A step of one client leaves the others where they are.
LEMMA OthersPlaced ==
  ASSUME TypeOK, UNCHANGED ringVars, NEW c \in Clients, Placed(c),
         cursor'[c] = cursor[c], heard'[c] = heard[c],
         step'[c] \in {"header", "subscribe"} =>
           step[c] \in {"header", "subscribe"} \/ FormatChanged(cursor[c])
  PROVE  Placed(c)'
BY DEF Placed, FormatChanged, ringVars, ring

\* A client that subscribes: Play begins anew, pace_once after a change of epoch.
LEMMA SubscribePlaced ==
  ASSUME TypeOK, RingFaithful, UNCHANGED ringVars, NEW c \in Clients,
         cursor'[c] = Position, heard'[c] \in Int, heard'[c] < first,
         step'[c] \in {"idle", "ready"}
  PROVE  Placed(c)'
<1>1. /\ Position \in LiveCursor /\ Position.epoch = epoch
      /\ first <= Position.next /\ Position.next <= next
  BY PositionInRing DEF TypeOK
<1>2. first' = first /\ next' = next /\ epoch' = epoch /\ first \in Nat
  BY DEF ringVars, ring, TypeOK, RingTypeOK
<1> QED
  BY <1>1, <1>2 DEF Placed, FormatChanged, LiveCursor

\* fetch: after everything the client got, once each, in one run up to the end.
LEMMA SamplesPlaced ==
  ASSUME TypeOK, RingFaithful, UNCHANGED ringVars,
         NEW c \in Clients, Placed(c), PaceSamples(c)
  PROVE  Placed(c)' /\ Fresh(c)' /\ GaplessOf(c)'
<1> DEFINE at == From(cursor[c])
           seqs == Fetched(at)
           videos == {s \in seqs : ItemAt(s).track = "video"}
<1>1. /\ at \in LiveCursor /\ at.epoch = epoch
      /\ at.next <= next /\ cursor[c].next <= at.next
      /\ seqs \subseteq at.next..(next - 1)
      /\ \A s \in seqs : s \in Kept /\ ItemAt(s).seq = s
  BY FromInRing DEF PaceSamples, TypeOK
<1>2. first' = first /\ next' = next /\ epoch' = epoch /\ next \in Nat
  BY DEF ringVars, ring, TypeOK, RingTypeOK
<1>3. heard[c] \in Int /\ cursor[c] \in LiveCursor
  BY DEF TypeOK
<1>4. cursor'[c] = After(at) /\ step'[c] = "idle"
  BY DEF PaceSamples, TypeOK
<1>5. After(at).next = next /\ After(at).epoch = epoch
  BY <1>1 DEF After, LiveCursor
<1>6. heard'[c] \in Int /\ heard'[c] < next
  <2>1. CASE videos = {}
    BY <1>1, <1>2, <1>3, <2>1 DEF PaceSamples, TypeOK, Placed, LiveCursor
  <2>2. CASE videos # {}
    BY <2>2, LatestVideo DEF PaceSamples, TypeOK
  <2> QED
    BY <2>1, <2>2
<1>7. Placed(c)'
  BY <1>2, <1>4, <1>5, <1>6 DEF Placed, FormatChanged
<1>8. batch'[c] = [kind |-> IF Behind(cursor[c]) THEN "resync" ELSE "samples",
                   items |-> {ItemAt(s) : s \in seqs}, from |-> cursor[c].next,
                   held |-> at.wait, heard |-> heard[c]]
  BY DEF PaceSamples, NoBatches
<1>9. Seqs(c)' = seqs
  BY <1>1, <1>8 DEF Seqs
<1>10. Fresh(c)'
  <2>1. ASSUME NEW s \in seqs PROVE heard[c] < s
    BY <1>1, <1>2, <1>3 DEF Placed, LiveCursor
  <2> QED
    BY <1>8, <1>9, <2>1 DEF Fresh
<1>11. GaplessOf(c)'
  <2> SUFFICES ASSUME ~Behind(cursor[c]), ~at.wait, NEW i \in seqs,
                      NEW s \in cursor[c].next..(ItemAt(i).seq - 1)
               PROVE  s \in seqs
    BY <1>8, <1>9 DEF GaplessOf
  <2>1. at = cursor[c]
    BY DEF From
  <2>2. s \in at.next..(next - 1)
    BY <1>1, <1>2, <1>3, <2>1 DEF LiveCursor
  <2>3. s \in Kept
    BY <2>1, <2>2 DEF Behind, Kept, LiveCursor, TypeOK, RingTypeOK
  <2>4. ItemAt(s) # NoItem
    BY <2>3 DEF RingFaithful
  <2> QED
    BY <2>2, <2>4 DEF Fetched, Released
<1> QED
  BY <1>7, <1>10, <1>11

LEMMA PacePlaced ==
  ASSUME TypeOK, RingFaithful, NEW c \in Clients, Pace(c),
         NEW d \in Clients, Placed(d)
  PROVE  Placed(d)' /\ Fresh(d)' /\ GaplessOf(d)'
<1>1. UNCHANGED ringVars
  BY DEF Pace
<1>2. CASE PaceCheck(c) \/ PaceNone(c) \/ PaceHeaderSame(c) \/ PaceHeaderOther(c)
  <2>1. /\ cursor'[d] = cursor[d] /\ heard'[d] = heard[d]
        /\ step'[d] \in {"header", "subscribe"} => step[d] \in {"header", "subscribe"}
    BY <1>2 DEF PaceCheck, PaceNone, PaceHeaderSame, PaceHeaderOther, TypeOK
  <2>2. batch' = NoBatches
    BY <1>2 DEF Pace, PaceCheck, PaceNone, PaceHeaderSame, PaceHeaderOther,
                PaceSamples, Fetches, HasNew
  <2> QED
    BY <1>1, <2>1, <2>2, OthersPlaced, Undelivered
<1>3. CASE PaceChanged(c)
  <2>1. batch' = NoBatches
    BY <1>3 DEF Pace, PaceChanged, PaceSamples, HasNew, FormatChanged, PaceCheck
  <2>2. /\ cursor'[d] = cursor[d] /\ heard'[d] = heard[d]
        /\ step'[d] \in {"header", "subscribe"} =>
             step[d] \in {"header", "subscribe"} \/ FormatChanged(cursor[d])
    BY <1>3 DEF PaceChanged, TypeOK
  <2> QED
    BY <1>1, <2>1, <2>2, OthersPlaced, Undelivered
<1>4. CASE PaceSubscribe(c)
  <2>1. batch' = NoBatches
    BY <1>4 DEF Pace, PaceSubscribe, PaceSamples, Fetches
  <2>2. CASE d = c
    <3>1. /\ cursor'[d] = Position /\ heard'[d] = heard[d]
          /\ step'[d] = "idle" /\ step[d] = "subscribe"
      BY <1>4, <2>2 DEF PaceSubscribe, TypeOK
    <3>2. heard[d] \in Int /\ heard[d] < first
      BY <3>1 DEF Placed, TypeOK
    <3> QED
      BY <1>1, <2>1, <3>1, <3>2, SubscribePlaced, Undelivered
  <2>3. CASE d # c
    BY <1>1, <1>4, <2>1, <2>3, OthersPlaced, Undelivered DEF PaceSubscribe, TypeOK
  <2> QED
    BY <2>2, <2>3
<1>5. CASE PaceSamples(c)
  <2>1. CASE d = c
    BY <1>1, <1>5, <2>1, SamplesPlaced
  <2>2. CASE d # c
    <3>1. Placed(d)'
      BY <1>1, <1>5, <2>2, OthersPlaced DEF PaceSamples, TypeOK
    <3>2. batch'[d] = NoBatch
      BY <1>5, <2>2 DEF PaceSamples, NoBatches
    <3> QED
      BY <3>1, <3>2 DEF NoBatch, Fresh, GaplessOf, Seqs
  <2> QED
    BY <2>1, <2>2
<1> QED
  BY <1>2, <1>3, <1>4, <1>5 DEF Pace

LEMMA RequestPlaced ==
  ASSUME TypeOK, RingFaithful, NEW c \in Clients, Request(c),
         NEW d \in Clients, Placed(d)
  PROVE  Placed(d)' /\ Fresh(d)' /\ GaplessOf(d)'
<1>1. UNCHANGED ringVars /\ batch' = NoBatches
  BY DEF Request
<1>2. Fresh(d)' /\ GaplessOf(d)'
  BY <1>1, Undelivered
<1>3. CASE Describe(c) \/ (\E t \in Track : Setup(c, t)) \/ Pause(c) \/ Teardown(c)
  BY <1>1, <1>2, <1>3, OthersPlaced DEF Describe, Setup, Pause, Teardown
<1>4. CASE Play(c)
  <2>1. CASE d = c
    <3>1. /\ cursor'[d] = Position /\ heard'[d] = -1
          /\ step'[d] \in {"idle", "ready"}
      BY <1>4, <2>1 DEF Play, Unlocked, TypeOK
    <3>2. -1 \in Int /\ -1 < first
      BY DEF TypeOK, RingTypeOK
    <3> QED
      BY <1>1, <1>2, <3>1, <3>2, SubscribePlaced
  <2>2. CASE d # c
    BY <1>1, <1>2, <1>4, <2>2, OthersPlaced DEF Play, TypeOK
  <2> QED
    BY <2>1, <2>2
<1> QED
  BY <1>3, <1>4 DEF Request

LEMMA StepPlaced ==
  ASSUME TypeOK, RingFaithful, [Next]_vars, NEW d \in Clients,
         Placed(d), Fresh(d), GaplessOf(d)
  PROVE  Placed(d)' /\ Fresh(d)' /\ GaplessOf(d)'
<1>1. CASE Camera /\ batch' = NoBatches /\ UNCHANGED client
  BY <1>1, CameraPlaced, Undelivered
<1>2. CASE \E c \in Clients : Pace(c) \/ Request(c)
  BY <1>2, PacePlaced, RequestPlaced
<1>3. CASE UNCHANGED vars
  BY <1>3 DEF vars, client, ringVars, ring, Placed, Fresh, GaplessOf, Seqs,
              FormatChanged
<1> QED
  BY <1>1, <1>2, <1>3 DEF Next

AllPlaced == \A c \in Clients : Placed(c) /\ Fresh(c) /\ GaplessOf(c)

LEMMA StartAllPlaced ==
  ASSUME Init
  PROVE  AllPlaced
BY StartPlaced DEF AllPlaced

LEMMA StepAllPlaced ==
  ASSUME TypeOK, RingFaithful, AllPlaced, [Next]_vars
  PROVE  AllPlaced'
BY StepPlaced DEF AllPlaced

\* A client is never given a sample twice nor left behind the ring's count,
\* whatever the camera does between fetch, header and subscribe, and whatever
\* requests come in between (pace_once, fetch, position).
THEOREM NothingTwice == Spec => []NoRepeat
<1>1. Init => TypeOK /\ RingFaithful /\ AllPlaced
  BY StartTypeOK, StartAllPlaced
<1>2. TypeOK /\ RingFaithful /\ AllPlaced /\ [Next]_vars
        => TypeOK' /\ RingFaithful' /\ AllPlaced'
  BY StepTypeOK, StepAllPlaced
<1>3. AllPlaced => NoRepeat
  BY DEF AllPlaced, Placed, Fresh, NoRepeat
<1> QED
  BY <1>1, <1>2, <1>3, PTL DEF Spec

\* An answer of samples continues where the client was: what is missing since is
\* video held back until a keyframe (fetch, wait_keyframe).
THEOREM NoGap == Spec => []Gapless
<1>1. Init => TypeOK /\ RingFaithful /\ AllPlaced
  BY StartTypeOK, StartAllPlaced
<1>2. TypeOK /\ RingFaithful /\ AllPlaced /\ [Next]_vars
        => TypeOK' /\ RingFaithful' /\ AllPlaced'
  BY StepTypeOK, StepAllPlaced
<1>3. AllPlaced => Gapless
  BY DEF AllPlaced, GaplessOf, Gapless
<1> QED
  BY <1>1, <1>2, <1>3, PTL DEF Spec

-----------------------------------------------------------------------------
(* Decodable from the first sample on *)

\* A cursor that waits for no keyframe has given its client the video that the
\* next one is decoded from: h is the last video the client got.
FollowsOn(c, h) ==
  ~c.wait =>
    /\ lastVideo # -1 /\ lastVideo < c.next => lastVideo = h
    /\ \A s \in VideoKept :
         c.next <= s /\ ~ItemAt(s).key /\ ItemAt(s).prev # -1 /\ ItemAt(s).prev < c.next
           => ItemAt(s).prev = h

LEMMA PositionFollows ==
  ASSUME RingOK, NEW h
  PROVE  FollowsOn(Position, h)
BY PositionOnKeyframe, KeptItems, PositionInRing DEF FollowsOn, RingOK, LiveCursor

LEMMA FromFollows ==
  ASSUME RingOK, NEW c \in LiveCursor, NEW h, FollowsOn(c, h)
  PROVE  FollowsOn(From(c), h)
BY PositionFollows DEF From

\* fetch: each delta it returns comes with the video it is decoded from, or that
\* was the last the client got.
LEMMA FetchedFollows ==
  ASSUME RingOK, NEW at \in LiveCursor, first <= at.next, NEW h, FollowsOn(at, h),
         NEW s \in Fetched(at), ItemAt(s).track = "video", ~ItemAt(s).key,
         ItemAt(s).prev # -1
  PROVE  \/ ItemAt(s).prev \in Fetched(at)
         \/ ~at.wait /\ ItemAt(s).prev < at.next /\ ItemAt(s).prev = h
<1> USE KeptItems
<1> DEFINE p == ItemAt(s).prev
<1>1. s \in VideoKept /\ at.next <= s /\ at.next \in Nat
  BY DEF Fetched, Kept, VideoKept, LiveCursor
<1>2. p \in Int /\ p < s /\ (first <= p => p \in VideoKept)
  BY <1>1 DEF RingOK, VideoChained
<1>3. \A k \in Keyframes : k <= s => k <= p
  BY <1>1, <1>2 DEF RingOK, VideoChained
<1>4. at.wait => \E k \in Keyframes : at.next <= k /\ k <= p
  BY <1>1, <1>3 DEF Fetched, Released
<1>5. CASE at.next <= p
  BY <1>1, <1>2, <1>4, <1>5, VideoReleased
<1>6. CASE p < at.next
  <2>1. ~at.wait
    BY <1>1, <1>2, <1>4, <1>6
  <2> QED
    BY <1>1, <1>6, <2>1 DEF FollowsOn
<1> QED
  BY <1>1, <1>2, <1>5, <1>6

\* ... and leaves the client with the last video there is.
LEMMA AfterFollows ==
  ASSUME RingOK, NEW at \in LiveCursor, first <= at.next, NEW h, FollowsOn(at, h),
         NEW h1,
         LET V == {s \in Fetched(at) : ItemAt(s).track = "video"}
         IN  h1 = IF V = {} THEN h ELSE CHOOSE s \in V : \A v \in V : v <= s
  PROVE  FollowsOn(After(at), h1)
<1> USE KeptItems
<1> DEFINE V == {s \in Fetched(at) : ItemAt(s).track = "video"}
<1>1. at.next \in Nat /\ After(at).next = next
      /\ (After(at).wait <=> at.wait /\ ~\E k \in Keyframes : at.next <= k)
  BY DEF After, LiveCursor
<1>2. V \subseteq VideoKept /\ \A v \in V : v <= lastVideo
  BY <1>1 DEF Fetched, Kept, VideoKept, RingOK, VideoChained
<1>3. ASSUME ~After(at).wait, lastVideo # -1 PROVE lastVideo = h1
  <2>1. CASE at.next <= lastVideo
    <3>1. lastVideo \in VideoKept
      BY <1>1, <2>1 DEF RingOK, VideoChained
    <3>2. \A k \in Keyframes : k <= lastVideo
      BY DEF RingOK, VideoChained
    <3>3. lastVideo \in V
      BY <1>1, <1>3, <2>1, <3>1, <3>2, VideoReleased DEF VideoKept
    <3> HIDE DEF V
    <3>4. ASSUME NEW s \in V, \A v \in V : v <= s PROVE s = lastVideo
      BY <1>2, <3>3, <3>4
    <3>5. (CHOOSE s \in V : \A v \in V : v <= s) = lastVideo
      BY <1>2, <3>3, <3>4
    <3> QED
      BY <3>3, <3>5 DEF V
  <2>2. CASE lastVideo < at.next
    <3>1. V = {}
      <4> SUFFICES ASSUME NEW v \in V PROVE FALSE
        OBVIOUS
      <4>1. v \in Int /\ at.next <= v /\ v <= lastVideo
        BY <1>2 DEF Fetched
      <4> QED
        BY <1>1, <2>2, <4>1
    <3>2. ~\E k \in Keyframes : at.next <= k
      BY <1>1, <2>2 DEF RingOK, VideoChained
    <3> QED
      BY <1>1, <1>3, <2>2, <3>1, <3>2 DEF FollowsOn
  <2> QED
    BY <1>1, <2>1, <2>2
<1>4. \A s \in VideoKept : ~(After(at).next <= s)
  BY <1>1
<1> QED
  BY <1>3, <1>4 DEF FollowsOn

\* The camera takes nothing from under a cursor of the present epoch.
LEMMA CameraFollows ==
  ASSUME RingOK, [Camera]_ringVars, NEW c \in LiveCursor, NEW h, c.next <= next,
         c.epoch <= epoch, c.epoch = epoch => FollowsOn(c, h)
  PROVE  /\ c.epoch <= epoch'
         /\ c.epoch = epoch' => FollowsOn(c, h)'
<1>0. /\ c.epoch \in Nat /\ epoch \in Nat /\ c.next \in Nat /\ next \in Nat
      /\ RingTypeOK /\ RingFaithful /\ epoch' \in Nat
  BY CameraTypeOK DEF RingOK, RingTypeOK, LiveCursor
<1>1. ASSUME NEW t \in Track, NEW f, PublishFormat(t, f), Changes(t, f)
      PROVE  c.epoch < epoch'
  BY <1>0, <1>1 DEF PublishFormat
<1>2. ASSUME VideoKept' = VideoKept \/ VideoKept' = {}, lastVideo' \in {lastVideo, -1},
             epoch' = epoch, VideoKept' = VideoKept => \A s \in VideoKept : ItemAt(s)' = ItemAt(s)
      PROVE  c.epoch = epoch' => FollowsOn(c, h)'
  BY <1>2 DEF FollowsOn
<1>3. ASSUME NEW t \in Track, NEW f, PublishFormat(t, f), ~Changes(t, f)
      PROVE  epoch' = epoch /\ (c.epoch = epoch' => FollowsOn(c, h)')
  BY <1>2, <1>3 DEF PublishFormat, VideoKept, Kept, ItemAt
<1>4. ASSUME NEW t \in Track, NEW key \in BOOLEAN, NEW size \in Sizes,
             Publish(t, key, size)
      PROVE  epoch' = epoch /\ (c.epoch = epoch' => FollowsOn(c, h)')
  <2>1. epoch' = epoch /\ lastVideo' \in {next, lastVideo}
    BY <1>4 DEF Publish
  <2>2. ASSUME NEW s \in VideoKept'
        PROVE  \/ ItemAt(s)'.prev = lastVideo
               \/ s \in VideoKept /\ ItemAt(s)' = ItemAt(s)
    BY <1>0, <1>4, PublishKeeps DEF VideoKept, NewItem
  <2>3. lastVideo' < c.next => lastVideo' = lastVideo
    BY <1>0, <2>1
  <2> QED
    BY <2>1, <2>2, <2>3 DEF FollowsOn
<1>5. ASSUME Stopped
      PROVE  epoch' = epoch /\ (c.epoch = epoch' => FollowsOn(c, h)')
  <2>1. VideoKept' = {} /\ lastVideo' = -1 /\ epoch' = epoch
    BY <1>0, <1>5, ClearFaithful DEF Stopped, VideoKept
  <2> QED
    BY <1>2, <2>1
<1>6. ASSUME Tick \/ UNCHANGED ringVars
      PROVE  epoch' = epoch /\ (c.epoch = epoch' => FollowsOn(c, h)')
  BY <1>2, <1>6 DEF Tick, ringVars, ring, camera, VideoKept, Kept, ItemAt
<1>7. \/ c.epoch < epoch'
      \/ epoch' = epoch /\ (c.epoch = epoch' => FollowsOn(c, h)')
  BY <1>1, <1>3, <1>4, <1>5, <1>6 DEF Camera, Track
<1> QED
  BY <1>0, <1>7

\* Every cursor of the present epoch goes on from what its client got.
Chained(c) ==
  /\ cursor[c].epoch <= epoch
  /\ cursor[c].epoch = epoch => FollowsOn(cursor[c], heard[c])

\* Decodable and ResyncAtLastKeyframe, of one client.
DecodableOf(c) ==
  \A i \in batch[c].items :
    i.track = "video" /\ ~i.key /\ i.prev # -1 =>
      \/ i.prev \in Seqs(c)
      \/ batch[c].kind = "samples" /\ i.prev = batch[c].heard

ResyncOf(c) ==
  batch[c].kind = "resync" =>
    \A i, j \in batch[c].items : IsKey(i) /\ IsKey(j) => i = j

LEMMA NothingToDecode ==
  ASSUME NEW c \in Clients, batch'[c] = NoBatch
  PROVE  DecodableOf(c)' /\ ResyncOf(c)'
BY DEF NoBatch, DecodableOf, ResyncOf

\* The ring at rest, and the client's cursor too, or just placed by position.
LEMMA RestChained ==
  ASSUME TypeOK, RingOK, UNCHANGED ringVars, NEW c \in Clients, Chained(c),
         \/ cursor'[c] = cursor[c] /\ heard'[c] = heard[c]
         \/ cursor'[c] = Position
  PROVE  Chained(c)'
<1>1. /\ epoch' = epoch /\ epoch \in Nat
      /\ \A d, h : FollowsOn(d, h)' <=> FollowsOn(d', h')
  BY DEF ringVars, ring, camera, TypeOK, RingTypeOK, FollowsOn, VideoKept, Kept, ItemAt
<1> QED
  BY <1>1, PositionFollows, PositionInRing DEF Chained, RingOK

\* fetch: what is delivered can be decoded, and a cursor that was behind gets no
\* keyframe but the newest.
LEMMA SamplesChained ==
  ASSUME TypeOK, RingOK, UNCHANGED ringVars, NEW c \in Clients, Chained(c),
         PaceSamples(c)
  PROVE  Chained(c)' /\ DecodableOf(c)' /\ ResyncOf(c)'
<1> DEFINE at == From(cursor[c])
           seqs == Fetched(at)
           videos == {s \in seqs : ItemAt(s).track = "video"}
           h1 == IF videos = {} THEN heard[c]
                 ELSE CHOOSE s \in videos : \A v \in videos : v <= s
<1>1. /\ cursor[c] \in LiveCursor /\ HasNew(cursor[c])
      /\ at \in LiveCursor /\ at.epoch = epoch /\ first <= at.next
      /\ \A s \in seqs : s \in Kept /\ ItemAt(s).seq = s /\ s \in Int /\ at.next <= s
  BY FromInRing, KeptItems DEF PaceSamples, TypeOK, RingOK, Fetched
<1>2. FollowsOn(at, heard[c])
  BY <1>1, FromFollows DEF Chained, HasNew
<1>3. cursor'[c] = After(at) /\ heard'[c] = h1
  BY DEF PaceSamples, TypeOK
<1>4. batch'[c] = [kind |-> IF Behind(cursor[c]) THEN "resync" ELSE "samples",
                   items |-> {ItemAt(s) : s \in seqs}, from |-> cursor[c].next,
                   held |-> at.wait, heard |-> heard[c]]
  BY DEF PaceSamples, NoBatches
<1>5. Chained(c)'
  <2>1. FollowsOn(After(at), h1)
    BY <1>1, <1>2, AfterFollows
  <2>2. FollowsOn(cursor'[c], heard'[c])
    BY <1>3, <2>1
  <2>3. FollowsOn(cursor[c], heard[c])'
    BY <2>2 DEF ringVars, ring, camera, FollowsOn, VideoKept, Kept, ItemAt
  <2>4. cursor'[c].epoch = epoch /\ epoch' = epoch /\ epoch \in Nat
    BY <1>1, <1>3 DEF After, LiveCursor, ringVars, ring, TypeOK, RingTypeOK
  <2> QED
    BY <2>3, <2>4 DEF Chained
<1>6. Seqs(c)' = seqs
  BY <1>1, <1>4 DEF Seqs
<1>7. DecodableOf(c)'
  <2> SUFFICES ASSUME NEW s \in seqs, ItemAt(s).track = "video", ~ItemAt(s).key,
                      ItemAt(s).prev # -1
               PROVE  \/ ItemAt(s).prev \in seqs
                      \/ ~Behind(cursor[c]) /\ ItemAt(s).prev = heard[c]
    BY <1>4, <1>6 DEF DecodableOf
  <2>1. CASE ~Behind(cursor[c])
    BY <1>1, <1>2, <2>1, FetchedFollows
  <2>2. CASE Behind(cursor[c])
    <3>1. at = Position
      BY <2>2 DEF From
    <3>2. s \in VideoKept
      BY <1>1 DEF VideoKept
    <3>3. ItemAt(s).prev \in Int /\ at.next \in Nat
      BY <1>1, <3>2, KeptItems DEF LiveCursor
    <3>4. at.wait \/ at.next <= ItemAt(s).prev
      BY <1>1, <3>1, <3>2, PositionOnKeyframe
    <3> QED
      BY <1>1, <1>2, <3>3, <3>4, FetchedFollows
  <2> QED
    BY <2>1, <2>2
<1>8. ResyncOf(c)'
  <2> SUFFICES ASSUME Behind(cursor[c]), NEW s \in seqs, NEW u \in seqs,
                      IsKey(ItemAt(s)), IsKey(ItemAt(u))
               PROVE  s = u
    BY <1>4 DEF ResyncOf
  <2>1. at = Position
    BY DEF From
  <2>2. s \in Keyframes /\ u \in Keyframes
    BY <1>1, KeptItems DEF Keyframes
  <2>3. s <= at.next /\ u <= at.next /\ at.next \in Nat
    BY <1>1, <2>1, <2>2, PositionOnKeyframe DEF LiveCursor
  <2> QED
    BY <1>1, <2>3
<1> QED
  BY <1>5, <1>7, <1>8

LEMMA PaceChained ==
  ASSUME TypeOK, RingOK, NEW c \in Clients, Pace(c), NEW d \in Clients, Chained(d)
  PROVE  Chained(d)' /\ DecodableOf(d)' /\ ResyncOf(d)'
<1>1. UNCHANGED ringVars
  BY DEF Pace
<1>2. CASE PaceSamples(c)
  <2>1. CASE d = c
    BY <1>1, <1>2, <2>1, SamplesChained
  <2>2. CASE d # c
    <3>1. /\ cursor'[d] = cursor[d] /\ heard'[d] = heard[d] /\ batch'[d] = NoBatch
      BY <1>2, <2>2 DEF PaceSamples, NoBatches, TypeOK
    <3> QED
      BY <1>1, <3>1, RestChained, NothingToDecode
  <2> QED
    BY <2>1, <2>2
<1>3. CASE PaceCheck(c) \/ PaceNone(c) \/ PaceChanged(c) \/ PaceHeaderSame(c)
             \/ PaceHeaderOther(c) \/ PaceSubscribe(c)
  <2>1. CASE ~PaceSamples(c)
    <3>1. batch'[d] = NoBatch
      BY <2>1 DEF Pace, NoBatches
    <3>2. \/ cursor'[d] = cursor[d] /\ heard'[d] = heard[d]
          \/ cursor'[d] = Position
      BY <1>3 DEF PaceCheck, PaceNone, PaceChanged, PaceHeaderSame, PaceHeaderOther,
                  PaceSubscribe, TypeOK
    <3> QED
      BY <1>1, <3>1, <3>2, RestChained, NothingToDecode
  <2> QED
    BY <1>2, <2>1
<1> QED
  BY <1>2, <1>3 DEF Pace

LEMMA RequestChained ==
  ASSUME TypeOK, RingOK, NEW c \in Clients, Request(c), NEW d \in Clients, Chained(d)
  PROVE  Chained(d)' /\ DecodableOf(d)' /\ ResyncOf(d)'
<1>1. UNCHANGED ringVars /\ batch'[d] = NoBatch
  BY DEF Request, NoBatches
<1>2. \/ cursor'[d] = cursor[d] /\ heard'[d] = heard[d]
      \/ cursor'[d] = Position
  BY DEF Request, Describe, Setup, Pause, Teardown, Play, TypeOK
<1> QED
  BY <1>1, <1>2, RestChained, NothingToDecode

ServedOf(c) == Chained(c) /\ DecodableOf(c) /\ ResyncOf(c)

LEMMA StepChained ==
  ASSUME TypeOK, RingOK, [Next]_vars, NEW d \in Clients, Placed(d), ServedOf(d)
  PROVE  ServedOf(d)'
<1>1. CASE Camera /\ batch' = NoBatches /\ UNCHANGED client
  <2>1. cursor' = cursor /\ heard' = heard /\ batch'[d] = NoBatch
    BY <1>1 DEF client, NoBatches
  <2>2. cursor[d] \in LiveCursor /\ cursor[d].next <= next
    BY DEF TypeOK, Placed
  <2>3. Chained(d)'
    BY <1>1, <2>1, <2>2, CameraFollows DEF Chained, ServedOf
  <2> QED
    BY <2>1, <2>3, NothingToDecode DEF ServedOf
<1>2. CASE \E c \in Clients : Pace(c) \/ Request(c)
  BY <1>2, PaceChained, RequestChained DEF ServedOf
<1>3. CASE UNCHANGED vars
  BY <1>3 DEF vars, client, ringVars, ring, camera, ServedOf, Chained, DecodableOf,
              ResyncOf, Seqs, FollowsOn, VideoKept, Kept, ItemAt
<1> QED
  BY <1>1, <1>2, <1>3 DEF Next

AllServed == VideoChained /\ \A c \in Clients : ServedOf(c)

LEMMA StartAllServed ==
  ASSUME Init
  PROVE  AllServed
<1>1. VideoChained
  BY InitChained DEF Init, Start
<1>2. ASSUME NEW c \in Clients PROVE ServedOf(c)
  BY DEF Init, Start, RingInit, NoBatches, NoBatch, NoCursor, ServedOf, Chained,
         DecodableOf, ResyncOf
<1> QED
  BY <1>1, <1>2 DEF AllServed

LEMMA StepAllServed ==
  ASSUME TypeOK, RingFaithful, AllPlaced, AllServed, [Next]_vars
  PROVE  AllServed'
<1>1. VideoChained'
  BY RingStep, CameraChained DEF TypeOK, AllServed
<1> QED
  BY <1>1, StepChained DEF AllServed, AllPlaced, RingOK, TypeOK

\* No client is sent a delta frame without the frame it is decoded from, and one
\* that was left behind goes on at the newest keyframe the ring has: across
\* overruns, stops, announcements and subscriptions without a keyframe
\* (position, wait_keyframe, fetch).
THEOREM DecodableFromTheStart == Spec => []ServedFromKeys
<1> DEFINE Inv == TypeOK /\ RingFaithful /\ AllPlaced /\ AllServed
<1>1. Init => Inv
  BY StartTypeOK, StartAllPlaced, StartAllServed
<1>2. Inv /\ [Next]_vars => Inv'
  BY StepTypeOK, StepAllPlaced, StepAllServed
<1>3. Inv => ServedFromKeys
  BY DEF AllServed, ServedOf, DecodableOf, ResyncOf, ServedFromKeys, Decodable,
         ResyncAtLastKeyframe
<1> QED
  BY <1>1, <1>2, <1>3, PTL DEF Spec

=============================================================================
