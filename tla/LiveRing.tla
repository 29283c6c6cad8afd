------------------------------ MODULE LiveRing ------------------------------
(***************************************************************************)
(* The live ring of one camera (shared/src/live.rs, LiveStream): the        *)
(* camera's session publishes formats and samples, consumers hold a cursor  *)
(* and read from it.  Every operation runs under the ring's mutex, so each  *)
(* is one action; RtspLive and LiveApi add the consumers.                   *)
(*                                                                         *)
(* A sample keeps what the ring stores (track, keyframe, size, arrival) and *)
(* four ghosts the properties need: its sequence number, the sequence       *)
(* number of the video sample before it in its camera session (the one a    *)
(* delta frame is decoded from; -1 for a session's first), its track's       *)
(* format and the camera session it came from.                              *)
(***************************************************************************)
EXTENDS Integers, FiniteSets

CONSTANTS
  Cap,       \* CAPACITY: slots of the ring
  MaxBytes,  \* max_bytes
  BufferMs,  \* buffer_ms
  Sizes,     \* bytes a sample may have (an empty one is not published)
  VFormats,  \* video formats (codec, width, height) a camera may announce
  AFormats,  \* audio formats (codec, rate)
  NoFormat, NoItem,
  MaxSeq,    \* bound: samples published in one run of the server
  MaxGen,    \* bound: sessions of the camera
  MaxNow     \* bound: the monotonic clock

ASSUME LiveRingAssumption ==
  /\ Cap \in Nat \ {0} /\ MaxBytes \in Nat /\ BufferMs \in Nat
  /\ Sizes \subseteq Nat \ {0}
  /\ MaxSeq \in Nat /\ MaxGen \in Nat /\ MaxNow \in Nat
  /\ NoFormat \notin VFormats \cup AFormats

VARIABLES
  slots,   \* items: Vec<Option<LiveSample>>
  first,   \* the oldest sequence number kept
  next,    \* the sequence number the next sample gets
  bytes,   \* the running total of what is kept
  epoch,   \* which announcement of formats the ring is at
  format,  \* the last format announced for each track
  lastMs,  \* last_sample_ms
  now,     \* the monotonic clock
  up,      \* the tracks the camera's present session has announced
  gen,     \* ghost: sessions of the camera so far
  lastVideo \* ghost: the session's last video sample, or -1

ring == <<slots, first, next, bytes, epoch, format, lastMs>>
camera == <<now, up, gen, lastVideo>>
ringVars == <<ring, camera>>

-----------------------------------------------------------------------------

Track == {"video", "audio"}

\* LiveSample, and the ghosts.
Item == [track : Track, key : BOOLEAN, size : Sizes, mono : Nat, seq : Nat,
         prev : Int, fmt : VFormats \cup AFormats, gen : Nat]

ASSUME NoItemAssumption == NoItem \notin Item

Slot(s) == s % Cap
SlotIds == 0..(Cap - 1)
Kept == first..(next - 1)
ItemAt(s) == slots[Slot(s)]

\* The bytes of the samples from a on, up to the one before b.
SizeOf(items, a, b) ==
  LET upto[s \in a..b] ==
        IF s = a THEN 0 ELSE upto[s - 1] + items[Slot(s - 1)].size
  IN  upto[b]

IsKey(it) == it.track = "video" /\ it.key

\* The keyframes in the ring; last_keyframe is the greatest.
Keyframes ==
  {s \in Kept : ItemAt(s) # NoItem /\ IsKey(ItemAt(s))}

RingInit ==
  /\ slots = [i \in SlotIds |-> NoItem]
  /\ first = 0 /\ next = 0 /\ bytes = 0
  /\ epoch = 1
  /\ format = [t \in Track |-> NoFormat]
  /\ lastMs = 0
  /\ up = {} /\ lastVideo = -1

\* Wrong on purpose: one slot too late.
FullTooLate == next - first > Cap

\* publish's test for the limit of slots.
Full == next - first >= Cap

\* Wrong on purpose: leaves the running total.
ClearNotTheTotal ==
  /\ slots' = [i \in SlotIds |->
                 IF \E s \in Kept : Slot(s) = i THEN NoItem ELSE slots[i]]
  /\ first' = next
  /\ UNCHANGED <<bytes, next>>

\* clear: every kept sample is dropped.
Clear ==
  /\ slots' = [i \in SlotIds |->
                 IF \E s \in Kept : Slot(s) = i THEN NoItem ELSE slots[i]]
  /\ first' = next
  /\ bytes' = 0
  /\ UNCHANGED next

\* What publish_video_format and publish_audio_format take for another format.
Changes(t, f) == format[t] # f

\* A session publishes samples of a track it has announced.
Announced(t) == t \in up

\* publish_video_format and publish_audio_format: only a format that differs
\* starts an epoch and empties the ring.  A session announces a track once.
PublishFormat(t, f) ==
  /\ ~Announced(t)
  /\ up' = up \cup {t}
  /\ format' = [format EXCEPT ![t] = f]
  /\ IF Changes(t, f)
     THEN epoch' = epoch + 1 /\ Clear
     ELSE UNCHANGED <<slots, first, next, bytes, epoch>>
  /\ UNCHANGED <<lastMs, now, gen, lastVideo>>

NewItem(t, key, size) ==
  [track |-> t, key |-> key, size |-> size, mono |-> now, seq |-> next,
   prev |-> lastVideo, fmt |-> format[t], gen |-> gen]

\* publish: at the limit of slots the oldest goes first; then trim drops from
\* the oldest until slots, bytes and age are all within their limits.
Publish(t, key, size) ==
  LET f0 == IF Full THEN first + 1 ELSE first
      s0 == IF Full THEN [slots EXCEPT ![Slot(first)] = NoItem] ELSE slots
      s1 == [s0 EXCEPT ![Slot(next)] = NewItem(t, key, size)]
      b1 == bytes + size - (IF Full THEN ItemAt(first).size ELSE 0)
      left(f) == b1 - SizeOf(s1, f0, f)
      over(f) == /\ f <= next
                 /\ \/ next + 1 - f > Cap
                    \/ left(f) > MaxBytes
                    \/ now - s1[Slot(f)].mono > BufferMs
  IN  /\ Announced(t)
      /\ next < MaxSeq
      /\ \E f \in f0..(next + 1) :
           /\ ~over(f)
           /\ \A g \in f0..(f - 1) : over(g)
           /\ first' = f
           /\ slots' = [i \in SlotIds |->
                          IF \E s \in f0..(f - 1) : Slot(s) = i
                          THEN NoItem ELSE s1[i]]
           /\ bytes' = left(f)
      /\ next' = next + 1
      /\ lastMs' = now
      /\ lastVideo' = IF t = "video" THEN next ELSE lastVideo
      /\ UNCHANGED <<epoch, format, now, up, gen>>

\* Wrong on purpose: the media stays too.
StoppedKeepingMedia ==
  /\ up # {}
  /\ gen < MaxGen
  /\ gen' = gen + 1
  /\ up' = {}
  /\ lastVideo' = -1
  /\ UNCHANGED <<ring, now>>

\* notify_stopped: the session ends; formats stay, the media goes.
Stopped ==
  /\ up # {}
  /\ gen < MaxGen
  /\ gen' = gen + 1
  /\ up' = {}
  /\ Clear
  /\ lastVideo' = -1
  /\ UNCHANGED <<epoch, format, lastMs, now>>

Tick ==
  /\ now < MaxNow
  /\ now' = now + 1
  /\ UNCHANGED <<ring, up, gen, lastVideo>>

Camera ==
  \/ \E f \in VFormats : PublishFormat("video", f)
  \/ \E f \in AFormats : PublishFormat("audio", f)
  \/ \E key \in BOOLEAN, size \in Sizes : Publish("video", key, size)
  \/ \E size \in Sizes : Publish("audio", FALSE, size)
  \/ Stopped
  \/ Tick

\* The ring and its camera alone.
Start == RingInit /\ now = 1 /\ gen = 0
RingSpec == Start /\ [][Camera]_ringVars

-----------------------------------------------------------------------------
(* The cursor of a consumer: position, subscribe and fetch *)

LiveCursor == [next : Nat, epoch : Nat, wait : BOOLEAN]

\* Wrong on purpose: without a keyframe, does not wait for one.
PositionNotWaiting ==
  IF Keyframes # {}
  THEN [next |-> CHOOSE s \in Keyframes : \A k \in Keyframes : k <= s,
        epoch |-> epoch, wait |-> FALSE]
  ELSE [next |-> next, epoch |-> epoch, wait |-> FALSE]

\* Wrong on purpose: on the oldest keyframe.
PositionOnFirstKeyframe ==
  IF Keyframes # {}
  THEN [next |-> CHOOSE s \in Keyframes : \A k \in Keyframes : s <= k,
        epoch |-> epoch, wait |-> FALSE]
  ELSE [next |-> next, epoch |-> epoch, wait |-> format["video"] # NoFormat]

\* position: on the most recent keyframe, or after everything, holding the
\* video until a keyframe comes.
Position ==
  IF Keyframes # {}
  THEN [next |-> CHOOSE s \in Keyframes : \A k \in Keyframes : k <= s,
        epoch |-> epoch, wait |-> FALSE]
  ELSE [next |-> next, epoch |-> epoch, wait |-> format["video"] # NoFormat]

\* fetch has something to answer before its time runs out.
FormatChanged(c) == c.epoch # epoch
HasNew(c) == c.epoch = epoch /\ c.next < next

\* The cursor the samples are read from, moved if it had fallen behind.
Behind(c) == c.next < first
From(c) == IF Behind(c) THEN Position ELSE c

\* Wrong on purpose: holds the video back for everyone.
ReleasedFromKeyframe(c, s) ==
  /\ ItemAt(s) # NoItem
  /\ ItemAt(s).track = "video" => \E k \in Keyframes : c.next <= k /\ k <= s

\* The samples fetch returns: with wait, the video before the first keyframe
\* is held back.
Released(c, s) ==
  /\ ItemAt(s) # NoItem
  /\ (c.wait /\ ItemAt(s).track = "video") =>
       \E k \in Keyframes : c.next <= k /\ k <= s
Fetched(c) == {s \in c.next..(next - 1) : Released(c, s)}

\* Wrong on purpose: one short.
AfterAllButOne(c) ==
  [c EXCEPT !.next = next - 1,
            !.wait = c.wait /\ ~\E k \in Keyframes : c.next <= k]

\* The cursor fetch leaves.
After(c) ==
  [c EXCEPT !.next = next,
            !.wait = c.wait /\ ~\E k \in Keyframes : c.next <= k]

-----------------------------------------------------------------------------
(* Properties of the ring *)

\* The type invariant of the ring (its running total is in BytesExact).
RingTypeOK ==
  /\ slots \in [SlotIds -> Item \cup {NoItem}]
  /\ first \in Nat /\ next \in Nat
  /\ epoch \in Nat /\ lastMs \in Nat /\ now \in Nat /\ gen \in Nat
  /\ format["video"] \in VFormats \cup {NoFormat}
  /\ format["audio"] \in AFormats \cup {NoFormat}
  /\ format \in [Track -> VFormats \cup AFormats \cup {NoFormat}]
  /\ up \subseteq Track /\ \A t \in up : format[t] # NoFormat
  /\ lastVideo \in Int

\* The ring holds the samples first..next-1 and nothing else, each in its own
\* slot: none was overwritten while still counted, none stayed behind after
\* being dropped, at any fill level and after any wrap (publish, drop_oldest,
\* clear and trim share the slots).
RingFaithful ==
  /\ first <= next /\ next - first <= Cap
  /\ \A s \in Kept : ItemAt(s) # NoItem /\ ItemAt(s).seq = s
  /\ \A i \in SlotIds :
       slots[i] # NoItem => slots[i].seq \in Kept /\ Slot(slots[i].seq) = i

\* The running total is the sum of what is kept (drop_oldest's subtraction
\* never takes an unsigned total below zero), and both limits hold after every
\* operation: bytes, and the age of the oldest sample against the newest.
BytesExact ==
  /\ bytes = SizeOf(slots, first, next)
  /\ bytes <= MaxBytes
  /\ \A s \in Kept : ItemAt(next - 1).mono - ItemAt(s).mono <= BufferMs

\* What the ring counts, its samples' bytes among it, is what it holds.
RingCounts == RingTypeOK /\ BytesExact

\* What the ring holds is of one camera session and of the formats it
\* announces now: a header read at any moment describes every sample in it.
OneFormat ==
  \A s \in Kept : /\ ItemAt(s).fmt = format[ItemAt(s).track]
                  /\ ItemAt(s).gen = gen

=============================================================================
