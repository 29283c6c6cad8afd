------------------------------- MODULE RtspFile -------------------------------
(***************************************************************************)
(* An RTSP client served from recordings (server/src/rtsp/session.rs over   *)
(* vms/reader.rs): a file by its name, played at the pace of its PTS, or a  *)
(* camera that does not publish, live from the tail of its newest file and  *)
(* from one file to the next.  A thread answers requests and the pacer      *)
(* sends; the pacer holds the media lock over a whole block, naps included. *)
(* The recorder is external.  Time is relative: what the code keeps as an   *)
(* instant is kept as its distance to now.  The pacer tests the state and   *)
(* takes the lock in one step here; RtspLive has the two apart.             *)
(***************************************************************************)
EXTENDS Integers, Sequences, FiniteSets

CONSTANTS
  Films,     \* what the camera may record: files, each a codec and its blocks
  MaxPts,    \* bound: the latest PTS of a film
  MaxRequests, \* bound: requests but TEARDOWN
  MaxWait,   \* PACE_MAX_WAIT_MS
  MaxLag,    \* PACE_MAX_LAG_MS
  Stall      \* LIVE_STALL_MS

Blocks == Seq([pts : Seq(Nat) \ {<<>>}, key : BOOLEAN, bad : BOOLEAN])

\* The times of a file go on, in a block and from one to the next, as the
\* recorder writes them (Recorder!OnceAndInOrder).
GoesOn(blocks) ==
  \A b, c \in 1 .. Len(blocks) :
    \A i \in 1 .. Len(blocks[b].pts), j \in 1 .. Len(blocks[c].pts) :
      b < c \/ (b = c /\ i < j) => blocks[b].pts[i] < blocks[c].pts[j]

RtspFileAssumption ==
  /\ Films \subseteq Seq([codec : STRING, blocks : Blocks])
  /\ \A reel \in Films : \A f \in 1 .. Len(reel) :
       /\ GoesOn(reel[f].blocks)
       /\ \A b \in 1 .. Len(reel[f].blocks) : \A i \in 1 .. Len(reel[f].blocks[b].pts) :
            reel[f].blocks[b].pts[i] <= MaxPts
  /\ {MaxPts, MaxRequests, MaxWait, MaxLag, Stall} \subseteq Nat

VARIABLES
  film,     \* what is recorded
  files,    \* written so far, oldest first: blocks, and whether closed
  asked,    \* requests
  st,       \* "init", "described", "setup", "playing", "paused", "over"
  live,     \* live_mode
  file,     \* vms_file, what the reader has open; 0: none
  pos,      \* the block the reader is at
  atEnd,    \* saw_closed_end
  retried,  \* last_bad_pos; 0: none
  rejected, \* the newer file of another codec
  header,   \* the codec described, or "none"
  codec,    \* the codec set up, or "none"
  anchored, \* first_pts is there
  phase,    \* the track's anchor less its first pts, from now
  age,      \* since anchor_wall, up to what matters
  idle,     \* since last_block_mono, up to Stall
  hand,     \* samples to send of the block in hand: the lock is held
  nap,      \* the first of them waits for its time
  sent,     \* ghost: the last sample sent since PLAY, or 0
  lead,     \* ghost: how far what was sent since it started is ahead of time
  sparse    \* ghost: samples further apart than MaxWait came since then

reader == <<file, pos, atEnd, retried, rejected>>
pacing == <<anchored, phase, age, idle, hand, nap>>
ghosts == <<sent, lead, sparse>>
fvars == <<film, files, asked, st, live, header, codec, reader, pacing, ghosts>>

NotSent == [file |-> 0, pts |-> 0]

FileInit ==
  /\ film \in Films /\ files = <<>> /\ asked = 0 /\ st = "init" /\ live = FALSE /\ header = "none" /\ codec = "none"
  /\ file = 0 /\ pos = 1 /\ atEnd = FALSE /\ retried = 0 /\ rejected = 0
  /\ anchored = FALSE /\ phase = 0 /\ age = 0 /\ idle = 0 /\ hand = <<>> /\ nap = FALSE
  /\ sent = NotSent /\ lead = 0 /\ sparse = FALSE

Most(S) == CHOOSE x \in S : \A y \in S : x >= y
Block(f, b) == film[f].blocks[b]
LastPts(f) == IF files[f].blocks = 0 THEN 0 ELSE Block(f, files[f].blocks).pts[1]
Codec(f) == film[f].codec

-----------------------------------------------------------------------------
(* The recorder, on the newest file.                                       *)

Record ==
  /\ files # <<>> /\ st # "over"
  /\ LET f == Len(files) IN
       /\ ~files[f].closed /\ files[f].blocks < Len(film[f].blocks)
       /\ files' = [files EXCEPT ![f].blocks = @ + 1]
  /\ UNCHANGED <<film, asked, st, live, header, codec, reader, pacing, ghosts>>

\* The file is closed, or is left without a footer, and another begins.
Rotate ==
  /\ Len(files) < Len(film) /\ st # "over"
  /\ \E footer \in BOOLEAN :
       files' = Append([f \in 1 .. Len(files) |-> IF f = Len(files) THEN [files[f] EXCEPT !.closed = footer] ELSE files[f]],
                       [blocks |-> 0, closed |-> FALSE])
  /\ UNCHANGED <<film, asked, st, live, header, codec, reader, pacing, ghosts>>

-----------------------------------------------------------------------------
(* The requests; those that need the media lock wait for it.               *)

Unlocked == hand = <<>>
Asked == asked < MaxRequests /\ asked' = asked + 1
Asks == Unlocked /\ Asked

\* seek_to_last_keyframe, or the start; damaged blocks are in the index.
LastKey(f) ==
  LET ks == {b \in 1 .. files[f].blocks : Block(f, b).key} IN IF ks = {} THEN 1 ELSE Most(ks)

\* open_reader.
OpenReader(f, tail) ==
  file' = f /\ pos' = (IF tail THEN LastKey(f) ELSE 1) /\ atEnd' = FALSE /\ retried' = 0

\* describe of a camera's tail or of one of its files.  The mode changes before
\* anything is found.
Describe(isLive, f) ==
  /\ st # "over" /\ Asks /\ live' = isLive
  /\ IF f \in 1 .. Len(files)
     THEN OpenReader(f, isLive) /\ header' = Codec(f) /\ st' = "described"
     ELSE UNCHANGED <<file, pos, atEnd, retried, header, st>>
  /\ UNCHANGED <<film, files, codec, rejected, pacing, ghosts>>

Setup ==
  /\ st \notin {"init", "over"} /\ Asks
  /\ codec' = header /\ anchored' = FALSE /\ phase' = 0 /\ st' = "setup"
  /\ UNCHANGED <<film, files, live, header, reader, age, idle, hand, nap, ghosts>>

\* seek_to_time: the last block that begins by then.
BlockAt(f, t) ==
  LET bs == {b \in 1 .. files[f].blocks : Block(f, b).pts[1] <= t} IN IF bs = {} THEN 1 ELSE Most(bs)

\* play, from a time when the client gives one and it is not live.
Play ==
  /\ st \in {"setup", "paused"} /\ Asks /\ file # 0
  /\ st' = "playing" /\ age' = 0 /\ idle' = 0
  /\ \/ UNCHANGED <<pos, anchored>>
     \/ ~live /\ anchored' = FALSE /\ \E t \in {1, LastPts(file)} : pos' = BlockAt(file, t)
  /\ IF anchored' THEN UNCHANGED ghosts ELSE sent' = NotSent /\ lead' = 0 /\ sparse' = FALSE
  /\ UNCHANGED <<film, files, live, header, codec, file, atEnd, retried, rejected, phase, hand, nap>>

Pause ==
  /\ st = "playing" /\ Asked /\ st' = "paused"
  /\ UNCHANGED <<film, files, live, header, codec, reader, pacing, ghosts>>

\* TEARDOWN, or the socket.
Teardown ==
  /\ st # "over" /\ st' = "over"
  /\ UNCHANGED <<film, files, asked, live, header, codec, reader, pacing, ghosts>>

-----------------------------------------------------------------------------
(* The pacer.                                                              *)

Reads == st = "playing" /\ Unlocked

\* Wrong on purpose: the newest file is taken for another one.
NewerOrSame == Len(files) # rejected

\* find_most_recent_vms_for_camera finds another that was not refused.
Newer == Len(files) \notin {file, rejected}

\* The file ended, or nothing came for long.
MayLeave(end) == end \/ idle >= Stall

\* switch_to_newer_live_file, or the reader is left where it is.
Switch(end, at, again) ==
  IF MayLeave(end) /\ Newer /\ Codec(Len(files)) = codec
  THEN OpenReader(Len(files), TRUE) /\ anchored' = FALSE /\ age' = 0 /\ idle' = 0 /\ UNCHANGED rejected
  ELSE /\ rejected' = IF MayLeave(end) /\ Newer THEN Len(files) ELSE rejected
       /\ pos' = at /\ retried' = again /\ atEnd' = end /\ UNCHANGED <<file, anchored, age, idle>>

\* Nothing was read: a file played by name is over.
NoBlock(end, at, again) ==
  /\ IF live THEN Switch(end, at, again) /\ UNCHANGED st
     ELSE st' = "over" /\ pos' = at /\ retried' = again /\ atEnd' = end /\ UNCHANGED <<file, rejected, anchored, age, idle>>
  /\ UNCHANGED <<film, files, asked, live, header, codec, phase, hand, nap, ghosts>>

AtBlock == pos <= files[file].blocks

\* decode_block: the checksum and the lengths of what was read are right.
Decodes(n) == ~Block(file, n).bad

\* read_next_block: a block; pace_once goes on to its samples.
ReadBlock ==
  /\ Reads /\ AtBlock /\ Decodes(pos)
  /\ hand' = Block(file, pos).pts /\ nap' = FALSE /\ pos' = pos + 1 /\ retried' = 0 /\ idle' = 0
  /\ UNCHANGED <<film, files, asked, st, live, header, codec, file, atEnd, rejected, anchored, phase, age, ghosts>>

AtDamaged == Reads /\ AtBlock /\ ~Decodes(pos)

\* A damaged one, live, is read again the first time ("ainda nao pronto") ...
ReadAgain == AtDamaged /\ live /\ retried # pos /\ NoBlock(atEnd, pos, pos)

\* ... and else skipped, with nothing read.
SkipBad == AtDamaged /\ (live => retried = pos) /\ NoBlock(atEnd, pos + 1, retried)

\* The end of what is written, or of the file.
ReadEnd == Reads /\ ~AtBlock /\ NoBlock(atEnd \/ files[file].closed, pos, retried)

Sends(p) ==
  /\ hand' = Tail(hand) /\ nap' = FALSE
  /\ sent' = [file |-> file, pts |-> p]
  /\ IF anchored THEN lead' = lead + p - sent.pts /\ sparse' = (sparse \/ p - sent.pts > MaxWait)
                 ELSE lead' = -age /\ sparse' = FALSE

\* There is a time to wait for.
WaitFor(w) == w > 0

\* What is too early or too late for its anchor is sent now, and anchors anew.
Look ==
  /\ hand # <<>> /\ ~nap /\ st # "over"
  /\ LET p == Head(hand)
         from == IF anchored THEN phase ELSE -age - p
         w == from + p
         keeps == w \in -MaxLag .. MaxWait
     IN /\ anchored' = TRUE /\ phase' = IF keeps THEN from ELSE -p
        /\ IF keeps /\ WaitFor(w) THEN nap' = TRUE /\ UNCHANGED <<hand, ghosts>> ELSE Sends(p)
  /\ UNCHANGED <<film, files, asked, st, live, header, codec, reader, age, idle>>

\* The nap is over.
Wake ==
  /\ nap /\ (phase + Head(hand) <= 0 \/ st = "over") /\ Sends(Head(hand))
  /\ UNCHANGED <<film, files, asked, st, live, header, codec, reader, anchored, phase, age, idle>>

\* stop, between two samples.
Leave ==
  /\ hand # <<>> /\ ~nap /\ st = "over" /\ hand' = <<>>
  /\ UNCHANGED <<film, files, asked, st, live, header, codec, reader, anchored, phase, age, idle, nap, ghosts>>

Pacer == ReadBlock \/ ReadAgain \/ SkipBad \/ ReadEnd \/ Look \/ Wake \/ Leave

AtLeast(x, min) == IF x < min THEN min ELSE x
UpTo(x, max) == IF x > max THEN max ELSE x

Tick ==
  /\ st \in {"playing", "paused"} \/ hand # <<>>
  /\ phase' = (IF anchored THEN AtLeast(phase - 1, -(MaxLag + MaxPts + 1)) ELSE phase)
  /\ age' = (IF anchored THEN age ELSE UpTo(age + 1, MaxLag + 1))
  /\ idle' = (IF live THEN UpTo(idle + 1, Stall) ELSE idle)
  /\ lead' = AtLeast(lead - 1, -(MaxLag + MaxPts + 1))
  /\ UNCHANGED <<film, files, asked, st, live, header, codec, reader, anchored, hand, nap, sent, sparse>>

FileNext ==
  \/ Record \/ Rotate
  \/ Describe(TRUE, Len(files)) \/ (\E f \in DOMAIN film : Describe(FALSE, f))
  \/ Setup \/ Play \/ Pause \/ Teardown
  \/ Pacer \/ Tick

FileSpec == FileInit /\ [][FileNext]_fvars

-----------------------------------------------------------------------------
(* Properties.                                                             *)

\* "tocado no ritmo dos PTS": since it began, what was sent is never ahead of
\* time, whatever was paused, late or caught up, unless the recording has
\* samples further apart than what the pacer waits.
Paced == st = "over" \/ lead <= 0 \/ sparse

\* ... and without that exception.
AlwaysPaced == st = "over" \/ lead <= 0

\* Live from files, nothing is sent twice or out of order from one PLAY to the
\* next, across files too.
Onward ==
  [][live /\ live' /\ sent' # NotSent =>
       \/ sent' = sent \/ sent'.file > sent.file
       \/ sent'.file = sent.file /\ sent'.pts > sent.pts]_fvars

\* "um bloco quebrado no meio do dia nao pode impedir de assistir ao resto"
\* (read_next_block): the server ends a play only where the recording ends.
EndsAtTheEnd == [][Pacer /\ st # "over" /\ st' = "over" => pos' > files[file].blocks]_fvars
=============================================================================
