------------------------------ MODULE RtspLive ------------------------------
(***************************************************************************)
(* RTSP clients of the live ring: the requests of a connection (describe,   *)
(* setup, play, ...) on one thread and its pacer on another, in             *)
(* server/src/rtsp/session.rs, over LiveRing.  The pacer tests the          *)
(* connection's state, takes its media lock and keeps it for the whole of   *)
(* pace_once; describe, setup and play need the same lock, PAUSE and        *)
(* TEARDOWN do not.  Inside pace_once the ring's own lock is taken once per *)
(* call, so that the camera may act between fetch, header and subscribe.    *)
(***************************************************************************)
EXTENDS LiveRing

CONSTANTS Clients

\* What live_header_matches compares of a video format.
ASSUME RtspLiveAssumption == \A f \in VFormats : {"codec", "size"} \subseteq DOMAIN f

VARIABLES
  st,      \* the connection: "init", "described", "setup", "playing",
           \* "paused", "over" (stop is set)
  step,    \* where the pacer is: "idle", "ready" (it has seen "playing"),
           \* and in pace_once, with the lock, "header" or "subscribe"
  header,  \* m.header: the formats at DESCRIBE
  active,  \* the formats the client set up, track by track
  cursor,  \* m.cursor
  batch,   \* ghost: what a fetch delivers, and from where, in this very step
  heard    \* ghost: the last video sample delivered since the last PLAY, or -1

client == <<st, step, header, active, cursor, heard>>
vars == <<ringVars, client, batch>>

NoFormats == [t \in Track |-> NoFormat]
NoCursor == [next |-> 0, epoch |-> 0, wait |-> FALSE]
NoBatch == [kind |-> "none", items |-> {}, from |-> 0, held |-> FALSE,
            heard |-> -1]
NoBatches == [c \in Clients |-> NoBatch]

Init ==
  /\ Start
  /\ st = [c \in Clients |-> "init"]
  /\ step = [c \in Clients |-> "idle"]
  /\ header = [c \in Clients |-> NoFormats]
  /\ active = [c \in Clients |-> NoFormats]
  /\ cursor = [c \in Clients |-> NoCursor]
  /\ batch = NoBatches
  /\ heard = [c \in Clients |-> -1]

\* The media lock is free for a request.
Unlocked(c) == step[c] \in {"idle", "ready"}

\* describe, of a camera that has a video format in memory (the other one is
\* served from its file).  It may come again, over a play too.
Describe(c) ==
  /\ st[c] # "over" /\ Unlocked(c)
  /\ format["video"] # NoFormat
  /\ header' = [header EXCEPT ![c] = format]
  /\ st' = [st EXCEPT ![c] = "described"]
  /\ UNCHANGED <<step, active, cursor, heard>>

\* setup, of a track the described header has; it interrupts a play.
Setup(c, t) ==
  /\ st[c] \notin {"init", "over"} /\ Unlocked(c)
  /\ header[c][t] # NoFormat
  /\ active' = [active EXCEPT ![c][t] = header[c][t]]
  /\ st' = [st EXCEPT ![c] = "setup"]
  /\ UNCHANGED <<step, header, cursor, heard>>

\* play: subscribes anew, the first time and after a pause.
Play(c) ==
  /\ st[c] \in {"setup", "paused"} /\ Unlocked(c)
  /\ cursor' = [cursor EXCEPT ![c] = Position]
  /\ st' = [st EXCEPT ![c] = "playing"]
  /\ heard' = [heard EXCEPT ![c] = -1]
  /\ UNCHANGED <<step, header, active>>

Pause(c) ==
  /\ st[c] = "playing"
  /\ st' = [st EXCEPT ![c] = "paused"]
  /\ UNCHANGED <<step, header, active, cursor, heard>>

\* TEARDOWN, or the socket going away.
Teardown(c) ==
  /\ st[c] # "over"
  /\ st' = [st EXCEPT ![c] = "over"]
  /\ UNCHANGED <<step, header, active, cursor, heard>>

\* The pacer's loop: it sees the connection playing.  A request may come in
\* before it gets the lock.
PaceCheck(c) ==
  /\ st[c] = "playing" /\ step[c] = "idle"
  /\ step' = [step EXCEPT ![c] = "ready"]
  /\ UNCHANGED <<st, header, active, cursor, heard>>

\* pace_once begins, unless stop is set by then.
Fetches(c) == step[c] = "ready" /\ st[c] # "over"

\* pace_once, when fetch answers with samples (Samples, or Resync when the
\* cursor had fallen behind).
PaceSamples(c) ==
  /\ Fetches(c)
  /\ HasNew(cursor[c])
  /\ LET at == From(cursor[c])
         seqs == Fetched(at)
         videos == {s \in seqs : ItemAt(s).track = "video"}
     IN  /\ cursor' = [cursor EXCEPT ![c] = After(at)]
         /\ batch' = [NoBatches EXCEPT ![c] =
                        [kind |-> IF Behind(cursor[c]) THEN "resync" ELSE "samples",
                         items |-> {ItemAt(s) : s \in seqs},
                         from |-> cursor[c].next,
                         held |-> at.wait,
                         heard |-> heard[c]]]
         /\ heard' = [heard EXCEPT ![c] =
                        IF videos = {} THEN @
                        ELSE CHOOSE s \in videos : \A v \in videos : v <= s]
  /\ step' = [step EXCEPT ![c] = "idle"]
  /\ UNCHANGED <<st, header, active>>

\* pace_once, when fetch's time runs out.
PaceNone(c) ==
  /\ Fetches(c)
  /\ ~HasNew(cursor[c]) /\ ~FormatChanged(cursor[c])
  /\ step' = [step EXCEPT ![c] = "idle"]
  /\ UNCHANGED <<st, header, active, cursor, heard>>

\* pace_once, when fetch answers that the epoch is another.
PaceChanged(c) ==
  /\ Fetches(c)
  /\ FormatChanged(cursor[c])
  /\ step' = [step EXCEPT ![c] = "header"]
  /\ UNCHANGED <<st, header, active, cursor, heard>>

\* live_header_matches, on the header read now, for the tracks set up: the
\* video's codec against the one set up, its size against the one described.
HeaderMatches(c) ==
  /\ active[c]["video"] # NoFormat =>
       /\ format["video"].codec = active[c]["video"].codec
       /\ format["video"].size = header[c]["video"].size
  /\ active[c]["audio"] # NoFormat => format["audio"] = active[c]["audio"]

\* Wrong on purpose: goes on with the old cursor.
PaceHeaderSameNotSubscribing(c) ==
  /\ step[c] = "header"
  /\ HeaderMatches(c)
  /\ step' = [step EXCEPT ![c] = "idle"]
  /\ UNCHANGED <<st, header, active, cursor, heard>>

\* ... the camera announced the same formats again: go on ...
PaceHeaderSame(c) ==
  /\ step[c] = "header"
  /\ HeaderMatches(c)
  /\ step' = [step EXCEPT ![c] = "subscribe"]
  /\ UNCHANGED <<st, header, active, cursor, heard>>

\* ... or others: end the session, for the client to describe again.
PaceHeaderOther(c) ==
  /\ step[c] = "header"
  /\ ~HeaderMatches(c)
  /\ step' = [step EXCEPT ![c] = "idle"]
  /\ st' = [st EXCEPT ![c] = "over"]
  /\ UNCHANGED <<header, active, cursor, heard>>

PaceSubscribe(c) ==
  /\ step[c] = "subscribe"
  /\ cursor' = [cursor EXCEPT ![c] = Position]
  /\ step' = [step EXCEPT ![c] = "idle"]
  /\ UNCHANGED <<st, header, active, heard>>

Pace(c) ==
  /\ \/ PaceSamples(c)
     \/ /\ PaceCheck(c) \/ PaceNone(c) \/ PaceChanged(c) \/ PaceHeaderSame(c)
           \/ PaceHeaderOther(c) \/ PaceSubscribe(c)
        /\ batch' = NoBatches
  /\ UNCHANGED ringVars

Request(c) ==
  /\ Describe(c) \/ (\E t \in Track : Setup(c, t)) \/ Play(c) \/ Pause(c) \/ Teardown(c)
  /\ batch' = NoBatches
  /\ UNCHANGED ringVars

Next ==
  \/ Camera /\ batch' = NoBatches /\ UNCHANGED client
  \/ \E c \in Clients : Pace(c) \/ Request(c)

Spec == Init /\ [][Next]_vars

\* The pacer is a loop of its own thread: it runs whenever it can.
FairSpec == Spec /\ \A c \in Clients : WF_vars(Pace(c))

-----------------------------------------------------------------------------
(* Properties *)

Formats == {f \in [Track -> VFormats \cup AFormats \cup {NoFormat}] :
              /\ f["video"] \in VFormats \cup {NoFormat}
              /\ f["audio"] \in AFormats \cup {NoFormat}}

\* The type invariant; past DESCRIBE a connection has a header with video.
TypeOK ==
  /\ RingTypeOK
  /\ \A c \in Clients :
       st[c] \notin {"init", "over"} => header[c]["video"] # NoFormat
  /\ st \in [Clients -> {"init", "described", "setup", "playing", "paused", "over"}]
  /\ step \in [Clients -> {"idle", "ready", "header", "subscribe"}]
  /\ header \in [Clients -> Formats] /\ active \in [Clients -> Formats]
  /\ cursor \in [Clients -> LiveCursor]
  /\ heard \in [Clients -> Int]

Seqs(c) == {i.seq : i \in batch[c].items}

\* A client is never left behind the ring's count nor given a sample twice:
\* its cursor is at or before the next number, everything delivered is before
\* its cursor, and what a fetch delivers is after everything it delivered
\* before (fetch, position, clear and publish, with a camera that may stop, change
\* format and overrun the ring in between).
NoRepeat ==
  \A c \in Clients :
    /\ heard[c] < cursor[c].next /\ cursor[c].next <= next
    /\ FormatChanged(cursor[c]) => heard[c] < first
    /\ \A s \in Seqs(c) : batch[c].heard < s

\* Samples, as opposed to Resync, continues where the cursor was: of all the
\* samples since, the ones missing are video held back until a keyframe.
Gapless ==
  \A c \in Clients :
    batch[c].kind = "samples" =>
      \A i \in batch[c].items :
        \A s \in batch[c].from..(i.seq - 1) :
          s \in Seqs(c) \/ batch[c].held

\* A delta frame is delivered only after the frame it is decoded from, where
\* its session has one: the video sample before it is in the same batch, or is
\* the last video the client got.  Holds across overruns, stops,
\* re-announcements and subscriptions without a keyframe (position,
\* wait_keyframe).
Decodable ==
  \A c \in Clients :
    \A i \in batch[c].items :
      i.track = "video" /\ ~i.key /\ i.prev # -1 =>
        \/ i.prev \in Seqs(c)
        \/ batch[c].kind = "samples" /\ i.prev = batch[c].heard

\* A repositioned client starts on the most recent keyframe the ring had: the
\* first video it gets is a keyframe and no later one is in the batch
\* (live.rs:6-7, "quem fica para tras e reposicionado no keyframe mais recente").
ResyncAtLastKeyframe ==
  \A c \in Clients :
    batch[c].kind = "resync" =>
      \A i, j \in batch[c].items : IsKey(i) /\ IsKey(j) => i = j

\* What a client is sent it can decode from its first sample on, and a client
\* that was left behind goes on at the newest keyframe.
ServedFromKeys == TypeOK /\ Decodable /\ ResyncAtLastKeyframe

\* A playing client with samples waiting is served, repositioned or ended: it
\* never stays on a cursor the ring has left, whatever the camera does.
EventuallyServed ==
  \A c \in Clients :
    (st[c] = "playing" /\ (HasNew(cursor[c]) \/ FormatChanged(cursor[c])))
      ~> (st[c] # "playing" \/ (cursor[c].epoch = epoch /\ cursor[c].next = next))

\* "formato da camera mudou; encerrando para o cliente refazer o DESCRIBE"
\* (server/src/rtsp/session.rs:297): a client is only sent samples of the
\* formats it was described.
ServedAsDescribed ==
  \A c \in Clients :
    \A i \in batch[c].items :
      active[c][i.track] # NoFormat => i.fmt = header[c][i.track]

\* "reposicionado no keyframe mais recente (cliente atrasado ou camera
\* reconectou)" (server/src/rtsp/session.rs:304): no client is sent a delta
\* frame that no frame of its session precedes.
RepositionedOnReconnect ==
  \A c \in Clients :
    \A i \in batch[c].items :
      i.track = "video" /\ ~i.key => i.prev # -1

=============================================================================
