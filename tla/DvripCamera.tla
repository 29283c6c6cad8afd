---------------------------- MODULE DvripCamera ----------------------------
(***************************************************************************)
(* A DVRIP camera's video session (dvrip/session.rs): the login and the    *)
(* questions before the video, the reader that finds the next header when  *)
(* it is out of step (dvrip/protocol.rs), and the parser that joins the    *)
(* payloads into the camera's frames (dvrip/media.rs).                     *)
(*                                                                         *)
(* The connection is a sequence of tokens: a message's header, which says  *)
(* how many tokens of payload follow; a frame's mark, which says how many  *)
(* tokens of data follow; a token of data; junk; a text.  A token stands   *)
(* for bytes that come together.  The camera is external.                  *)
(***************************************************************************)
EXTENDS Naturals, FiniteSets, Sequences, SequencesExt

CONSTANTS
  Frames,       \* what the camera films: records of is ("key", "delta", "sound") and len
  MaxPiece,     \* bound: tokens of media in a message
  MaxGlitches,  \* bound: messages the camera frames wrongly
  MaxAlarms,    \* bound: messages of the camera's own
  MaxAhead      \* bound: tokens in the connection

DvripAssumption ==
  /\ Frames \in Seq([is : {"key", "delta", "sound"}, len : Nat])
  /\ {MaxPiece, MaxGlitches, MaxAlarms, MaxAhead} \subseteq Nat

VARIABLES
  at,       \* "login", "config", "claim", "receive" or "over"
  film,     \* the tokens of media the camera has not sent yet
  camera,   \* its glitches, its alarms and the questions it has to answer
  wire,     \* tokens not read yet
  header,   \* the header whose payload is being read
  buf,      \* MediaParser's buffer
  stream,   \* StreamType: "none", "main" or "extra"
  out       \* the frames given to the sink: tokens of each

dvars == <<at, film, camera, wire, header, buf, stream, out>>

Text == "text"
Header(n, of) == [is |-> "head", of |-> of, len |-> n]
Mark(i) == [is |-> "mark", of |-> i, len |-> Frames[i].len]
Data(i) == [is |-> "data", of |-> i, len |-> 0]
Junk == [is |-> "junk", of |-> 0, len |-> 0]
Told(of) == [is |-> Text, of |-> of, len |-> 0]
NoHeader == Header(0, "none")

\* The camera's film, token by token.
Filmed == FlattenSeq([i \in 1 .. Len(Frames) |-> <<Mark(i)>> \o [j \in 1 .. Frames[i].len |-> Data(i)]])

DvripInit ==
  /\ at = "login" /\ film = Filmed /\ camera = [glitches |-> 0, alarms |-> 0, asked |-> 1]
  /\ wire = <<>> /\ header = NoHeader /\ buf = <<>> /\ stream = "none" /\ out = <<>>

-----------------------------------------------------------------------------
(* The camera (external).                                                  *)

Sends(tokens) == wire' = wire \o tokens /\ UNCHANGED <<at, header, buf, stream, out>>

\* It answers what it was asked: the login, the configuration, the claim.
Replies ==
  /\ camera.asked > 0 /\ at \in {"login", "config", "claim"}
  /\ camera' = [camera EXCEPT !.asked = @ - 1]
  /\ Sends(<<Header(1, "answer"), Told(at)>>) /\ UNCHANGED film

\* Something of its own, at any time: a text, an event for instance.
Alarm ==
  /\ camera.alarms < MaxAlarms /\ at # "over" /\ Len(wire) + 2 <= MaxAhead
  /\ camera' = [camera EXCEPT !.alarms = @ + 1]
  /\ Sends(<<Header(1, "alarm"), Told("alarm")>>) /\ UNCHANGED film

\* The next of its film, in a message whose DataLen is right, or too long, or
\* too short, or with junk before it, or in a message of another kind.
Films ==
  /\ at = "receive" /\ film # <<>>
  /\ \E n \in 1 .. MaxPiece :
       /\ n <= Len(film) /\ Len(wire) + n + 2 <= MaxAhead
       /\ film' = SubSeq(film, n + 1, Len(film))
       /\ LET piece == SubSeq(film, 1, n)
          IN \/ Sends(<<Header(n, "media")>> \o piece) /\ UNCHANGED camera
             \/ /\ camera.glitches < MaxGlitches
                /\ camera' = [camera EXCEPT !.glitches = @ + 1]
                /\ \/ Sends(<<Header(n + 1, "media")>> \o piece)
                   \/ Sends(<<Header(n - 1, "media")>> \o piece)
                   \/ Sends(<<Junk, Header(n, "media")>> \o piece)
                   \/ Sends(<<Header(1, "other"), Junk, Header(n, "media")>> \o piece)

-----------------------------------------------------------------------------
(* The parser.                                                             *)

\* find_marker, from a place on; 0 when there is none.
NextMark(b, from) ==
  LET marks == {i \in from .. Len(b) : b[i].is = "mark"} IN IF marks = {} THEN 0 ELSE CHOOSE i \in marks : \A j \in marks : i <= j

\* Wrong on purpose: what follows a mark is a frame before all of it is there.
ParsedShort(b) ==
  LET f[p \in 1 .. Len(b) + 1] ==
        IF p > Len(b) THEN [frames |-> <<>>, rest |-> p]
        ELSE IF b[p].is # "mark"
        THEN IF NextMark(b, p + 1) = 0 THEN [frames |-> <<>>, rest |-> p] ELSE f[NextMark(b, p + 1)]
        ELSE LET end == IF p + b[p].len > Len(b) THEN Len(b) ELSE p + b[p].len
             IN [frames |-> <<SubSeq(b, p, end)>> \o f[end + 1].frames, rest |-> f[end + 1].rest]
  IN f[1]

\* MediaParser::feed: the frames that are complete, and where the rest starts.
\* Out of step, it goes on at the next mark.
Parsed(b) ==
  LET f[p \in 1 .. Len(b) + 1] ==
        IF p > Len(b) THEN [frames |-> <<>>, rest |-> p]
        ELSE IF b[p].is # "mark"
        THEN IF NextMark(b, p + 1) = 0 THEN [frames |-> <<>>, rest |-> p] ELSE f[NextMark(b, p + 1)]
        ELSE IF p + b[p].len > Len(b) THEN [frames |-> <<>>, rest |-> p]
        ELSE [frames |-> <<SubSeq(b, p, p + b[p].len)>> \o f[p + b[p].len + 1].frames, rest |-> f[p + b[p].len + 1].rest]
  IN f[1]

Is(f) == Frames[f[1].of].is

\* handle_video and handle_audio: no video before the first keyframe, and no
\* empty frame.
Emitted(frames) ==
  LET f[i \in 0 .. Len(frames)] ==
        IF i = 0 THEN out
        ELSE IF Len(frames[i]) = 1 THEN f[i - 1]
        ELSE IF Is(frames[i]) = "delta" /\ ~\E j \in 1 .. Len(f[i - 1]) : Is(f[i - 1][j]) = "key" THEN f[i - 1]
        ELSE Append(f[i - 1], frames[i])
  IN f[Len(frames)]

\* feed_media: the payload goes to the buffer, and what it completes to the sink.
Feed(payload) ==
  LET b == buf \o payload
  IN out' = Emitted(Parsed(b).frames) /\ buf' = SubSeq(b, Parsed(b).rest, Len(b))

-----------------------------------------------------------------------------
(* The reader and the session.                                             *)

\* recv, before the video: a message is a header and its payload, and the one
\* that comes is taken for the answer.  A login is of the first message with a
\* SessionID; an alarm has one, and no Ret.
Handshake ==
  /\ at \in {"login", "config", "claim"} /\ Len(wire) >= 2
  /\ wire' = SubSeq(wire, 3, Len(wire))
  /\ LET of == wire[2].of
     IN CASE at = "login"  -> IF of = "login"
                              THEN at' = "config" /\ camera' = [camera EXCEPT !.asked = @ + 1] /\ UNCHANGED stream
                              ELSE at' = "over" /\ UNCHANGED <<camera, stream>>
          [] at = "config" -> /\ at' = "claim" /\ camera' = [camera EXCEPT !.asked = @ + 1]
                              /\ stream' = IF of = "config" THEN "extra" ELSE "main"
          [] at = "claim"  -> at' = "receive" /\ UNCHANGED <<camera, stream>>
  /\ UNCHANGED <<film, header, buf, out>>

\* ...no answer in time: only the login needs one.
Unanswered ==
  /\ at \in {"login", "config", "claim"} /\ wire = <<>>
  /\ CASE at = "login"  -> at' = "over" /\ UNCHANGED <<camera, stream>>
       [] at = "config" -> at' = "claim" /\ camera' = [camera EXCEPT !.asked = @ + 1] /\ stream' = "main"
       [] at = "claim"  -> at' = "receive" /\ UNCHANGED <<camera, stream>>
  /\ UNCHANGED <<film, wire, header, buf, out>>

\* recv_resync: a token that cannot be a header is skipped.
Skip ==
  /\ at = "receive" /\ header = NoHeader /\ wire # <<>> /\ Head(wire).is # "head"
  /\ wire' = Tail(wire)
  /\ UNCHANGED <<at, film, camera, header, buf, stream, out>>

TakeHeader ==
  /\ at = "receive" /\ header = NoHeader /\ wire # <<>> /\ Head(wire).is = "head"
  /\ header' = Head(wire) /\ wire' = Tail(wire)
  /\ UNCHANGED <<at, film, camera, buf, stream, out>>

\* dispatch: media, and whatever is not text, goes to the parser.
Dispatch ==
  /\ header # NoHeader /\ Len(wire) >= header.len
  /\ LET payload == SubSeq(wire, 1, header.len)
     IN IF payload = <<>> \/ (header.of # "media" /\ payload[1].is = Text)
        THEN UNCHANGED <<buf, out>> ELSE Feed(payload)
  /\ wire' = SubSeq(wire, header.len + 1, Len(wire)) /\ header' = NoHeader
  /\ UNCHANGED <<at, film, camera, stream>>

\* read_payload past its deadline: what came of it is thrown away, and the
\* session ends.  (Without a payload to come, so does the silence of four
\* seconds, and a stop ends it between two messages.)
Ends ==
  /\ at = "receive" /\ (header = NoHeader \/ Len(wire) < header.len)
  /\ at' = "over" /\ header' = NoHeader /\ wire' = <<>> /\ buf' = <<>>
  /\ UNCHANGED <<film, camera, stream, out>>

DvripNext ==
  \/ Replies \/ Alarm \/ Films
  \/ Handshake \/ Unanswered \/ Skip \/ TakeHeader \/ Dispatch \/ Ends

DvripSpec == DvripInit /\ [][DvripNext]_dvars

-----------------------------------------------------------------------------
(* Properties.                                                             *)

Whole(f) == f = <<Mark(f[1].of)>> \o [j \in 1 .. Frames[f[1].of].len |-> Data(f[1].of)]
Wrong == {i \in 1 .. Len(out) : ~Whole(out[i])}

\* However the payloads cut the film, the sink gets frames of it in order, none
\* twice, the video from a keyframe on; and each message that was framed wrong
\* makes at most one frame that is not whole: the parser goes on at a mark.
OneWrongPerGlitch ==
  /\ \A i, j \in 1 .. Len(out) : i < j => out[i][1].of < out[j][1].of
  /\ \A i \in 1 .. Len(out) : Is(out[i]) = "delta" => \E j \in 1 .. i - 1 : Is(out[j]) = "key"
  /\ Cardinality(Wrong) <= camera.glitches
=============================================================================
