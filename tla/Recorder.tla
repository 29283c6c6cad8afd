------------------------------ MODULE Recorder ------------------------------
(***************************************************************************)
(* The recorder of one camera (shared/src/recorder.rs) with its block       *)
(* builder (shared/src/vms/block_builder.rs): what a session delivers goes  *)
(* into blocks, and the blocks into one file after another.  Every call     *)
(* runs under the recorder's mutex and is one action.                       *)
(*                                                                         *)
(* A call may create files and write blocks, and each of these may fail, so *)
(* a helper of the code is here an operator that returns the set of states  *)
(* it may leave.  What a write does to the bytes is RecordingFile's.        *)
(***************************************************************************)
EXTENDS Integers, Sequences, FiniteSets, SequencesExt

CONSTANTS
  RecordAudio,  \* record_audio
  WaitAudioMs,  \* wait_audio_ms
  RotateMs,     \* rotate_ms; 0: never
  GraceMs,      \* ROTATE_KEYFRAME_GRACE_MS
  BlockSamples, \* max_samples of a block
  BlockMs,      \* max_duration_ms of a block
  MaxPending,   \* MAX_PENDING_BYTES, in samples
  MaxTaken,     \* bound: samples the recorder takes
  MaxSessions,  \* bound: sessions of the camera
  MaxFaults,    \* bound: creations and writes that fail
  MaxNow        \* bound: the monotonic clock

RecorderAssumption ==
  /\ RecordAudio \in BOOLEAN
  /\ {WaitAudioMs, RotateMs, GraceMs, BlockMs} \subseteq Nat
  /\ {BlockSamples, MaxPending} \subseteq Nat \ {0}
  /\ {MaxTaken, MaxSessions, MaxFaults, MaxNow} \subseteq Nat

VARIABLES
  rec,     \* Inner, without its writer's and its builder's own state
  disk,    \* the files created, in order
  faults,  \* creations and writes that failed
  now,     \* the monotonic clock
  up,      \* the tracks the present session has announced
  session, \* its number
  taken    \* ghost: the samples taken, in order; a sample is its place here

vars == <<rec, disk, faults, now, up, session, taken>>

-----------------------------------------------------------------------------

Track == {"video", "audio"}
IsKey(n) == taken'[n].track = "video" /\ taken'[n].key

\* Inner.  A format is the session that announced it, 0 for none; writer and
\* current are places in disk, 0 for none; the builder, here the samples of its
\* block, lives while open.
NewInner == [video |-> 0, audio |-> 0, firstMs |-> 0, pending |-> <<>>,
             open |-> FALSE, writer |-> 0, current |-> 0, startedMs |-> 0,
             block |-> <<>>, blockMs |-> 0]

Init ==
  /\ rec = NewInner
  /\ disk = <<>> /\ faults = 0 /\ now = 1
  /\ up = {} /\ session = 1 /\ taken = <<>>

State == [rec |-> rec, disk |-> disk, faults |-> faults]
Becomes(s) == rec' = s.rec /\ disk' = s.disk /\ faults' = s.faults

\* A creation or a write fails, within the bound.
Failing(s) == IF s.faults < MaxFaults THEN {[s EXCEPT !.faults = @ + 1]} ELSE {}

\* header: the formats announced by now.
NewFile(r) ==
  [video |-> r.video, audio |-> IF RecordAudio THEN r.audio ELSE 0,
   blocks |-> <<>>, state |-> "open"]

\* A file is created and its header is in.
Opened(s) ==
  LET f == Len(s.disk) + 1 IN
    [s EXCEPT !.disk = Append(@, NewFile(s.rec)),
              !.rec = [@ EXCEPT !.writer = f, !.current = f, !.startedMs = now]]

\* ready_to_open
ReadyToOpen(r) ==
  /\ r.video # 0
  /\ \/ r.audio # 0 \/ ~RecordAudio
     \/ Len(r.pending) >= MaxPending
     \/ now - r.firstMs >= WaitAudioMs

\* open_writer
OpenWriter(s) == {[Opened(s) EXCEPT !.rec.open = TRUE]} \cup Failing(s)

\* The writer's close(true), when there is a writer.
CloseFile(s) ==
  IF s.rec.writer = 0 THEN s
  ELSE [s EXCEPT !.disk[s.rec.writer].state = "closed", !.rec.writer = 0]

\* rotate_due
RotateDue(s, block) ==
  LET age == now - s.rec.startedMs IN
    /\ RotateMs > 0 /\ age >= RotateMs
    /\ (\E i \in DOMAIN block : IsKey(block[i])) \/ age >= RotateMs + GraceMs

\* rotate
Rotate(s) ==
  {Opened(CloseFile(s))}
    \cup {[t EXCEPT !.rec.current = 0] : t \in Failing(CloseFile(s))}

\* The writer takes the block, or its write_block fails and it is dropped.
Written(s, block) ==
  IF s.rec.writer = 0 THEN {s}
  ELSE {[s EXCEPT !.disk[s.rec.writer].blocks = Append(@, block)]}
         \cup {[t EXCEPT !.disk[s.rec.writer].state = "dropped", !.rec.writer = 0] :
                 t \in Failing(s)}

\* write_block: rotates first, so that the new file begins with this block.
WriteBlock(s, block) ==
  UNION {Written(t, block) : t \in IF RotateDue(s, block) THEN Rotate(s) ELSE {s}}

\* BlockBuilder.add, and what it emits written.
Add(s, n) ==
  LET block == Append(s.rec.block, n)
      since == IF s.rec.block = <<>> THEN now ELSE s.rec.blockMs
  IN  IF Len(block) >= BlockSamples \/ now - since >= BlockMs
      THEN WriteBlock([s EXCEPT !.rec.block = <<>>], block)
      ELSE {[s EXCEPT !.rec.block = block, !.rec.blockMs = since]}

\* Wrong on purpose: forgets the block being built.
CloseWithoutFlush(s) ==
  {[CloseFile(s) EXCEPT !.rec.block = <<>>, !.rec.open = FALSE, !.rec.current = 0]}

\* close: what the builder has goes first, and may itself rotate.
Close(s) ==
  LET flushed == IF s.rec.block = <<>> THEN {s}
                 ELSE WriteBlock([s EXCEPT !.rec.block = <<>>], s.rec.block)
  IN  {[CloseFile(t) EXCEPT !.rec.open = FALSE, !.rec.current = 0] : t \in flushed}

\* Wrong on purpose: what waited for a file goes on waiting.
ResetKeepingPending(s) ==
  [s EXCEPT !.rec.video = 0, !.rec.audio = 0, !.rec.firstMs = 0]

\* reset
Reset(s) ==
  [s EXCEPT !.rec.video = 0, !.rec.audio = 0, !.rec.firstMs = 0,
            !.rec.pending = <<>>]

-----------------------------------------------------------------------------

FirstMs(r) == IF r.firstMs = 0 THEN now ELSE r.firstMs

\* on_video_format: on an open file it starts over (which no session does: each
\* announces its tracks once, and ends with on_stream_stopped).
OnVideoFormat ==
  /\ "video" \notin up
  /\ up' = up \cup {"video"}
  /\ \E s \in IF rec.open THEN {Reset(t) : t \in Close(State)} ELSE {State} :
       Becomes([s EXCEPT !.rec.video = session, !.rec.firstMs = FirstMs(s.rec)])
  /\ UNCHANGED <<now, session, taken>>

\* on_audio_format: too late once the file is open.
OnAudioFormat ==
  /\ "audio" \notin up
  /\ up' = up \cup {"audio"}
  /\ rec' = IF rec.open THEN rec
            ELSE [rec EXCEPT !.audio = session, !.firstMs = FirstMs(rec)]
  /\ UNCHANGED <<disk, faults, now, session, taken>>

Wanted(r, n) == taken'[n].track = "video" \/ (RecordAudio /\ r.audio # 0)

\* All that wait go into the file just opened, the audio only if it has a track.
AddAll(s) ==
  LET ns == s.rec.pending
      after[k \in 0..Len(ns)] ==
        IF k = 0 THEN {[s EXCEPT !.rec.pending = <<>>]}
        ELSE IF Wanted(s.rec, ns[k]) THEN UNION {Add(t, ns[k]) : t \in after[k - 1]}
        ELSE after[k - 1]
  IN  after[Len(ns)]

\* on_sample, no file open: the sample waits until one opens.
Held(n) ==
  LET s == [State EXCEPT !.rec.pending =
              IF Len(@) < MaxPending THEN Append(@, n) ELSE @]
  IN  IF ~ReadyToOpen(s.rec) THEN {s}
      ELSE UNION {IF t.rec.open THEN AddAll(t) ELSE {t} : t \in OpenWriter(s)}

\* on_sample, a file open: a writer lost to a failure closes it, and the next
\* sample opens another.
Direct(n) ==
  UNION {IF t.rec.writer = 0 THEN Close(t) ELSE {t} : t \in Add(State, n)}

\* on_sample.  Before the video's format the sample is not taken.
OnSample(track, key) ==
  /\ track \in up
  /\ rec.video # 0
  /\ Len(taken) < MaxTaken
  /\ taken' = Append(taken, [track |-> track, key |-> key, session |-> session])
  /\ LET n == Len(taken) + 1 IN
       \/ ~rec.open /\ \E s \in Held(n) : Becomes(s)
       \/ rec.open /\ Wanted(rec, n) /\ \E s \in Direct(n) : Becomes(s)
       \/ rec.open /\ ~Wanted(rec, n) /\ UNCHANGED <<rec, disk, faults>>
  /\ UNCHANGED <<now, up, session>>

\* on_stream_stopped, at the end of every session.
OnStreamStopped ==
  /\ session < MaxSessions
  /\ session' = session + 1
  /\ up' = {}
  /\ taken' = taken
  /\ \E s \in Close(State) : Becomes(Reset(s))
  /\ UNCHANGED now

Tick ==
  /\ now < MaxNow
  /\ now' = now + 1
  /\ UNCHANGED <<rec, disk, faults, up, session, taken>>

Next ==
  \/ OnVideoFormat \/ OnAudioFormat
  \/ \E key \in BOOLEAN : OnSample("video", key)
  \/ OnSample("audio", FALSE)
  \/ OnStreamStopped
  \/ Tick

Spec == Init /\ [][Next]_vars

-----------------------------------------------------------------------------
(* Properties *)

\* The samples in a file, in all of them, and all those not given up.
InFile(f) == UNION {ToSet(disk[f].blocks[i]) : i \in DOMAIN disk[f].blocks}
OnDisk == UNION {InFile(f) : f \in DOMAIN disk}
Kept == OnDisk \cup ToSet(rec.block) \cup ToSet(rec.pending)

Before(A, B) == \A a \in A, b \in B : a < b
InTurn(ns) == \A i, j \in DOMAIN ns : i < j => ns[i] < ns[j]

TypeOK ==
  /\ \A f \in DOMAIN disk :
       /\ disk[f].state \in {"open", "closed", "dropped"}
       /\ {disk[f].video, disk[f].audio} \subseteq 0..session
       /\ \A i \in DOMAIN disk[f].blocks : Len(disk[f].blocks[i]) \in 1..BlockSamples
  /\ {rec.writer, rec.current} \subseteq 0..Len(disk)
  /\ rec.open \in BOOLEAN /\ {rec.video, rec.audio} \subseteq 0..session
  /\ Len(rec.pending) <= MaxPending /\ Len(rec.block) < BlockSamples
  /\ rec.block # <<>> => rec.open
  /\ up \subseteq Track

\* Media is recorded once and in the order it came, over all the files: a
\* sample that waited for the audio, one in the block a rotation moves to the
\* new file, one in the block a close flushes (write_block, rotate, close).
OnceAndInOrder ==
  /\ \A f \in DOMAIN disk : \A i \in DOMAIN disk[f].blocks :
       /\ InTurn(disk[f].blocks[i])
       /\ \A j \in DOMAIN disk[f].blocks :
            i < j => Before(ToSet(disk[f].blocks[i]), ToSet(disk[f].blocks[j]))
  /\ \A f, g \in DOMAIN disk : f < g => Before(InFile(f), InFile(g))
  /\ InTurn(rec.block \o rec.pending)
  /\ Before(OnDisk, ToSet(rec.block \o rec.pending))

\* A session whose media went into a file.
Recorded(k) == \E f \in DOMAIN disk : disk[f].video = k

\* The video samples gone: taken, of a session that is recorded, and no longer
\* anywhere.
VideoTaken ==
  {n \in DOMAIN taken : taken[n].track = "video" /\ Recorded(taken[n].session)}
Gone == VideoTaken \ Kept

\* Nothing is lost but to a failure, and one failure makes at most one hole: a
\* gone sample that follows a kept one counts as the beginning of a hole, and
\* there are no more of these than creations and writes that failed.
OneHolePerFault ==
  Cardinality({n \in Gone : \A m \in VideoTaken :
                 m < n /\ (\A k \in VideoTaken : ~(m < k /\ k < n)) => m \notin Gone})
    <= faults

\* While a session goes on, one failure costs little: the block that failed, or
\* the samples that waited for the file and the next one.  The recorder is never
\* left without a writer and unaware of it (the last lines of on_sample),
\* whichever creation or write fails and whenever: at the opening, a rotation, a
\* close.
LossIsSmall ==
  \E most \in {MaxPending + 1, BlockSamples} :
    /\ MaxPending + 1 <= most /\ BlockSamples <= most
    /\ Cardinality({n \in Gone : taken[n].session = session}) <= faults * most

\* A file holds media of the one session its header describes, and audio only
\* with an audio track in the header (header, reset, on_audio_format).
HeaderDescribesFile ==
  \A f \in DOMAIN disk :
    \A n \in InFile(f) :
      /\ disk[f].video = taken[n].session
      /\ taken[n].track = "audio" => disk[f].audio = taken[n].session

\* The one file not closed is the one being written, which current_file names
\* to whoever must not delete it.
OneFileOpen ==
  /\ \A f \in DOMAIN disk : disk[f].state = "open" <=> f = rec.writer
  /\ rec.writer # 0 => rec.current = rec.writer

\* What is recorded is recorded once, in order and under the header of its
\* session, in the one file that is open (write_block, rotate, close).
FilesSound == TypeOK /\ OnceAndInOrder /\ HeaderDescribesFile /\ OneFileOpen

\* What an error loses is one run of samples, no more than what was in hand.
LostToFaults == OneHolePerFault /\ LossIsSmall

=============================================================================
