----------------------------- MODULE MCSessions -----------------------------
(***************************************************************************)
(* Sessions that have to come to an end: small instances of RtspCamera,    *)
(* Ptz, Talk, PlayerDecoder and Wire.                                      *)
(* The components share no state: the variable part says which of them     *)
(* runs in a behaviour, the others stay as they started. One run of the    *)
(* model checker so goes through the whole instance of each of them, and   *)
(* each property is about one.                                             *)
(***************************************************************************)
EXTENDS Naturals, Sequences

CONSTANTS
  Nil,  \* a value nothing else equals
  \* of RtspCamera, Ptz, Talk and Wire, which are proved about
  Transports, MaxWire, MaxFaults, NoRtp, KeepEvery, MaxTime,
  Clients, Addresses, Commands, Fallback, MaxSaves, MaxDrops, MaxAsked,
  Pages, MaxTalks, MaxPosts, Frame, Fill, QueueMax, Pieces, IdleSteps,
  Kinds, MaxMessages, LineMax, HeadMax, BodyMax

VARIABLES
  part,  \* which of the components runs
  step, attempt, retried, audio, told, fed, silent, stop, outcome, wire, udp,
  camera,
  address, kept, control, where, video, registry, last, request, moving,
  logged, ptzCount,
  talks, opened, listed, lock, page, posts,
  browser, gen, fmt, dec, in, software, tried, errors, burst, native, gaveUp,
  asks, questions, support, needed, decodeCount,
  said, gone, net, cut, at, buf, heard, answers, stopped

rtspVars == <<step, attempt, retried, audio, told, fed, silent, stop, outcome, wire,
    udp, camera>>
ptzVars == <<address, kept, control, where, video, registry, last, request, moving,
    logged, ptzCount>>
talkVars == <<talks, opened, listed, lock, page, posts>>
decodeVars == <<browser, gen, fmt, dec, in, software, tried, errors, burst, native,
    gaveUp, asks, questions, support, needed, decodeCount>>
wireVars == <<said, gone, net, cut, at, buf, heard, answers, stopped>>

UdpThenTcp == <<"udp", "tcp">>

RC == INSTANCE RtspCamera

ASSUME CameraAssumption == RC!CameraAssumption

PT == INSTANCE Ptz WITH Nothing <- Nil, count <- ptzCount

ASSUME PtzAssumption == PT!PtzAssumption

TK == INSTANCE Talk

ASSUME TalkAssumption == TK!TalkAssumption

PD == INSTANCE PlayerDecoder WITH
  Formats <- {"f1", "f2"}, MaxRecoveries <- 3, MaxOpens <- 2,
  MaxConfigures <- 2, MaxErrors <- 1, count <- decodeCount

ASSUME PD!DecoderAssumption

\* What clients say: requests of each protocol, with a body and as the last, one
\* whose head is longer than the readers wait for and cannot be parsed, and a frame.
Says(proto, line, head, body, good, last_one) ==
  [proto |-> proto, line |-> line, head |-> head, body |-> body, good |-> good,
   last |-> last_one]
TheKinds ==
  {Says("http", 1, 2, 1, TRUE, FALSE), Says("http", 1, 2, 0, TRUE, TRUE),
   Says("http", 3, 4, 2, FALSE, FALSE), Says("rtsp", 1, 2, 1, TRUE, FALSE),
   Says("rtsp", 1, 2, 0, TRUE, TRUE), Says("rtsp", 1, 4, 0, FALSE, FALSE),
   Says("frame", 0, 1, 1, TRUE, FALSE)}

WI == INSTANCE Wire

ASSUME WireAssumption == WI!WireAssumption

Init ==
  /\ part \in {"rtsp", "ptz", "talk", "decode", "wire"}
  /\ RC!CameraInit /\ (part = "rtsp" \/ (camera.serves = {} /\ camera.sound = FALSE))
  /\ PT!PtzInit /\ (part = "ptz" \/ address = Nil)
  /\ TK!TalkInit
  /\ PD!DecoderInit /\ (part = "decode" \/ (browser.hard = {} /\ browser.soft = {} /\ browser.app = FALSE))
  /\ WI!WireInit /\ (part = "wire" \/ said = <<CHOOSE k \in Kinds : k.proto # "frame">>)

RCStep ==
  /\ part = "rtsp" /\ RC!CameraNext
  /\ UNCHANGED <<part, ptzVars, talkVars, decodeVars, wireVars>>

PTStep ==
  /\ part = "ptz" /\ PT!PtzNext
  /\ UNCHANGED <<part, rtspVars, talkVars, decodeVars, wireVars>>

TKStep ==
  /\ part = "talk" /\ TK!TalkNext
  /\ UNCHANGED <<part, rtspVars, ptzVars, decodeVars, wireVars>>

PDStep ==
  /\ part = "decode" /\ PD!DecoderNext
  /\ UNCHANGED <<part, rtspVars, ptzVars, talkVars, wireVars>>

WIStep ==
  /\ part = "wire" /\ WI!WireNext
  /\ UNCHANGED <<part, rtspVars, ptzVars, talkVars, decodeVars>>

Next == RCStep \/ PTStep \/ TKStep \/ PDStep \/ WIStep

vars == <<part, rtspVars, ptzVars, talkVars, decodeVars, wireVars>>

Spec ==
  /\ Init /\ [][Next]_vars
  /\ WF_rtspVars(part = "rtsp" /\ RC!Goes)
  /\ WF_rtspVars(part = "rtsp" /\ RC!Waits)
  /\ WF_ptzVars(part = "ptz" /\ PT!Tick)
  /\ WF_ptzVars(part = "ptz" /\ PT!Forsake)
  /\ \A t \in TK!Talks : WF_talkVars(part = "talk" /\ TK!Pace(t))
  /\ \A p \in Pages : WF_talkVars(part = "talk" /\ TK!Stop(p))
  /\ WF_decodeVars(part = "decode" /\ PD!Told)
  /\ WF_decodeVars(part = "decode" /\ PD!Fails)

-----------------------------------------------------------------------------
\* The sink hears of the format of a track before it gets its samples,
\* through every fallback of transport; and a session told to stop ends.
RtspCameraSafe == []RC!FormatFirst /\ RC!StopEnds

\* The guardian, the thread of a command session and the announcement of it
\* come and go together; a camera whose register asks for no such session any
\* more ends up without one.
PtzSafe == []PT!NoGhost /\ PT!LeavesWhenUnwanted

\* At most one talk plays on the camera besides those that are being closed,
\* and whoever ends one, the speaker is free again in the end.
TalkSafe == []TK!OneVoice /\ TK!SpeakerFreed

\* Whatever the browser can decode, what plays comes to a decoder that
\* decodes it, to the native way, or to the message that says it cannot.
NeverSilent == PD!NeverSilent

\* On the server's one port, in whatever pieces the bytes arrive and wherever the
\* client goes away: each message is taken whole, once and in its turn, also by the
\* reader that did not read its beginning, it has its one answer in that order, and
\* none stays in the buffer unheard.
WireSafe == WI!WireTypeOK /\ WI!HeardWhole /\ WI!AnswersFollow /\ WI!NothingLeft

=============================================================================
