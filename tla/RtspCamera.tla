----------------------------- MODULE RtspCamera -----------------------------
(***************************************************************************)
(* A camera's RTSP session, from the connection to its end: the handshake  *)
(* that tries the transports in order (session.rs), the client that sends  *)
(* a request and takes the next answer of the wire for its own             *)
(* (rtsp/client.rs, rtsp/wire.rs), and the loop that receives.  Answers    *)
(* and interleaved RTP come mixed by one connection; the RTP of UDP comes  *)
(* to sockets that live as long as the attempt.  The camera is external:   *)
(* it answers in order, late or not at all, and its RTP arrives by the     *)
(* transports the network lets by.                                         *)
(***************************************************************************)
EXTENDS Naturals, Sequences

CONSTANTS
  Transports,  \* the camera's transports in the register, in order
  MaxWire,     \* bound: what is in the connection
  MaxFaults,   \* bound: refusals and falls of the camera
  NoRtp,       \* no_rtp_timeout_ms, in ticks
  KeepEvery,   \* half of the session's timeout, in ticks
  MaxTime      \* bound: ticks of the receiving loop

CameraAssumption ==
  /\ Transports \in Seq({"tcp", "udp"}) /\ {MaxWire, MaxFaults, MaxTime} \subseteq Nat
  /\ {NoRtp, KeepEvery} \subseteq Nat \ {0}

VARIABLES
  step,     \* what the session is at: the request it waits for, or its loop
  attempt,  \* the transport being tried: an index of Transports
  retried,  \* the request was repeated with the credential
  audio,    \* the track of audio: "absent", "wanted" or "set"
  told,     \* the tracks whose format the sink was told
  fed,      \* the tracks of which the sink had a sample
  silent,   \* ticks since RTP, since the keep-alive, and of the loop so far
  stop,     \* the supervisor asked it to stop
  outcome,  \* "none", "ok" or "error"
  wire,     \* answers and RTP of the connection, not read yet
  udp,      \* the tracks with RTP waiting in the sockets of the attempt
  camera    \* what the camera has to answer, sends by and was refused

client == <<attempt, retried, audio, told, fed, silent, outcome>>
cvars == <<step, client, stop, wire, udp, camera>>

None == "none"
Requests == {"OPTIONS", "DESCRIBE", "SETUP video", "SETUP audio", "PLAY", "TEARDOWN", "KEEP"}
Answers == {i \in 1 .. Len(wire) : wire[i].is = "answer"}

CameraInit ==
  /\ step = "OPTIONS" /\ attempt = 0 /\ retried = FALSE /\ audio = "absent"
  /\ told = {} /\ fed = {} /\ silent = [rtp |-> 0, keep |-> 0, time |-> 0] /\ stop = FALSE /\ outcome = None
  /\ wire = <<>> /\ udp = {}
  /\ \E s \in SUBSET {"tcp", "udp"}, a \in BOOLEAN :
       camera = [todo |-> <<"OPTIONS">>, set |-> None, plays |-> None, serves |-> s, sound |-> a, faults |-> 0]

Used == Transports[attempt]

-----------------------------------------------------------------------------
(* The camera (external).                                                  *)

\* The next request is answered: done, a credential asked for, or refused.
Answer ==
  /\ camera.todo # <<>> /\ Len(wire) < MaxWire
  /\ \E s \in {"200", "401", "500"} :
       /\ s = "200" \/ camera.faults < MaxFaults
       /\ wire' = Append(wire, [is |-> "answer", of |-> Head(camera.todo), status |-> s])
       /\ camera' = [camera EXCEPT !.todo = Tail(@), !.faults = @ + (IF s = "200" THEN 0 ELSE 1),
                       !.plays = CASE s = "200" /\ Head(camera.todo) = "PLAY"     -> camera.set
                                   [] s = "200" /\ Head(camera.todo) = "TEARDOWN" -> None
                                   [] OTHER                                       -> @]
  /\ UNCHANGED <<step, client, stop, udp>>

\* RTP of a track it was asked for, by the connection or to the sockets.
Plays ==
  /\ camera.plays # None /\ camera.plays \in camera.serves
  /\ \E t \in {"video"} \cup (IF audio = "set" THEN {"audio"} ELSE {}) :
       IF camera.plays = "tcp"
       THEN Len(wire) < MaxWire /\ wire' = Append(wire, [is |-> "rtp", of |-> t, status |-> None]) /\ UNCHANGED udp
       ELSE Used = "udp" /\ udp' = udp \cup {t} /\ UNCHANGED wire
  /\ UNCHANGED <<step, client, stop, camera>>

AskStop ==
  /\ ~stop /\ stop' = TRUE
  /\ UNCHANGED <<step, client, wire, udp, camera>>

-----------------------------------------------------------------------------
(* The client.                                                             *)

\* A request goes out and its answer is waited for; a SETUP says by what.
Asks(r, at) ==
  /\ step' = r /\ retried' = FALSE /\ UNCHANGED outcome
  /\ camera' = [camera EXCEPT !.todo = Append(@, r), !.set = IF r = "SETUP video" THEN Transports[at] ELSE @]

\* The session is over.
Ends(o) == step' = "ended" /\ outcome' = o /\ retried' = FALSE /\ UNCHANGED camera

\* The next transport of the list, when there is one.
NextTransport ==
  IF attempt < Len(Transports)
  THEN attempt' = attempt + 1 /\ Asks("SETUP video", attempt + 1)
  ELSE UNCHANGED attempt /\ Ends("error")

\* The SETUP of the audio: refused once, the session goes on without it, by
\* every transport.
AudioAfter(good) == IF good THEN "set" ELSE "absent"

\* cleanup_attempt: the sockets close and what was negotiated is forgotten.
Cleanup == audio' = (IF audio = "set" THEN "wanted" ELSE audio) /\ udp' = {}

\* notify_format: once in the life of the session, before the first RTP.
Tells == IF told = {} THEN {"video"} \cup (IF audio = "set" THEN {"audio"} ELSE {}) ELSE told

\* OPTIONS, then DESCRIBE: the tracks, and the first transport.
Described(good, of) ==
  /\ IF step = "OPTIONS"
     THEN /\ IF good THEN Asks("DESCRIBE", 0) ELSE Ends("error")
          /\ UNCHANGED <<attempt, audio>>
     ELSE IF good /\ of = "DESCRIBE"
     THEN audio' = (IF camera.sound THEN "wanted" ELSE "absent") /\ NextTransport
     ELSE Ends("error") /\ UNCHANGED <<attempt, audio>>
  /\ UNCHANGED <<told, silent, udp>>

\* SETUP of the video and of the audio.  An answer that is not a SETUP's has no
\* Transport, and does not serve.
SetUp(good, of) ==
  /\ LET fits == good /\ of \in {"SETUP video", "SETUP audio"}
     IN IF step = "SETUP audio"
        THEN audio' = AudioAfter(fits) /\ Asks("PLAY", attempt) /\ UNCHANGED <<attempt, udp>>
        ELSE IF fits
        THEN Asks(IF audio = "absent" THEN "PLAY" ELSE "SETUP audio", attempt) /\ UNCHANGED <<attempt, audio, udp>>
        ELSE Cleanup /\ NextTransport
  /\ UNCHANGED <<told, silent>>

\* PLAY: by UDP no answer does as well, and the RTP decides.
Played(good, silence) ==
  /\ IF good \/ (silence /\ Used = "udp")
     THEN /\ step' = "validate" /\ told' = Tells /\ silent' = [silent EXCEPT !.rtp = 0]
          /\ UNCHANGED <<retried, outcome, camera>>
     ELSE Asks("TEARDOWN", attempt) /\ UNCHANGED <<told, silent>>
  /\ UNCHANGED <<attempt, audio, udp>>

\* TEARDOWN, answered or not: of a session that ended, or of a failed attempt.
TornDown ==
  /\ Cleanup /\ UNCHANGED <<told, silent>>
  /\ IF outcome = "ok" THEN Ends("ok") /\ UNCHANGED attempt ELSE NextTransport

\* The keep-alive: by TCP no answer ends the session.
KeptAlive(silence) ==
  /\ IF silence /\ Used = "tcp"
     THEN Ends("error") /\ UNCHANGED silent
     ELSE step' = "stream" /\ silent' = [silent EXCEPT !.keep = 0] /\ UNCHANGED <<retried, outcome, camera>>
  /\ UNCHANGED <<attempt, audio, told, udp>>

\* What the answer taken for a request, or the lack of one, leads to.
Proceeds(status, of) ==
  CASE step \in {"OPTIONS", "DESCRIBE"} ->
         Described(status = "200" \/ (step = "OPTIONS" /\ status = "401"), of)
    [] step \in {"SETUP video", "SETUP audio"} -> SetUp(status = "200", of)
    [] step = "PLAY"     -> Played(status = "200", status = None)
    [] step = "TEARDOWN" -> TornDown
    [] step = "KEEP"     -> KeptAlive(status = None)

\* RtspClient::send: the next answer of the wire is this request's, whatever
\* it answers; RTP on the way is thrown away; a 401 repeats it once.
ReadAnswer ==
  /\ step \in Requests /\ wire # <<>> /\ wire' = Tail(wire)
  /\ IF Head(wire).is = "rtp"
     THEN UNCHANGED <<step, attempt, retried, audio, told, silent, outcome, udp, camera>>
     ELSE IF Head(wire).status = "401" /\ ~retried
     THEN /\ retried' = TRUE /\ camera' = [camera EXCEPT !.todo = Append(@, step)]
          /\ UNCHANGED <<step, attempt, audio, told, silent, outcome, udp>>
     ELSE Proceeds(Head(wire).status, Head(wire).of)
  /\ UNCHANGED <<fed, stop>>

\* No answer in time: it is late, or the connection fell.
TimedOut ==
  /\ step \in Requests /\ Answers = {}
  /\ Proceeds(None, None)
  /\ UNCHANGED <<fed, stop, wire>>

-----------------------------------------------------------------------------
(* The session's loops.                                                    *)

\* handle_rtp: the tracks with a depacketizer reach the sink.
Fed(t) == IF t = "video" \/ audio = "set" THEN fed \cup {t} ELSE fed

\* A packet of the transport in use, or an answer nobody waits for.
Takes ==
  IF Used = "udp"
  THEN \/ \E t \in udp : fed' = Fed(t) /\ udp' = udp \ {t} /\ silent' = [silent EXCEPT !.rtp = 0] /\ UNCHANGED wire
       \/ wire # <<>> /\ wire' = Tail(wire) /\ UNCHANGED <<fed, udp, silent>>
  ELSE /\ wire # <<>> /\ wire' = Tail(wire) /\ UNCHANGED udp
       /\ IF Head(wire).is = "rtp" THEN fed' = Fed(Head(wire).of) /\ silent' = [silent EXCEPT !.rtp = 0]
                                   ELSE UNCHANGED <<fed, silent>>

\* RTP of the transport in use is there to be read.
Playing == IF Used = "udp" THEN udp # {} ELSE \E i \in 1 .. Len(wire) : wire[i].is = "rtp"

\* validate_first_rtp: the first RTP of the transport in use decides.
Validate ==
  /\ step = "validate" /\ ~stop /\ Takes
  /\ IF udp' # udp \/ (Used = "tcp" /\ Head(wire).is = "rtp") THEN step' = "stream" ELSE UNCHANGED step
  /\ UNCHANGED <<attempt, retried, audio, told, stop, outcome, camera>>

\* Wrong on purpose: the wait for RTP is left only when its time is over.
GivesUpLate ==
  /\ step = "validate" /\ ~Playing
  /\ Asks("TEARDOWN", attempt)
  /\ UNCHANGED <<attempt, audio, told, fed, silent, stop, wire, udp>>

\* ...none in time, or a stop: this transport is given up.
GivesUp ==
  /\ step = "validate" /\ (stop \/ ~Playing)
  /\ Asks("TEARDOWN", attempt)
  /\ UNCHANGED <<attempt, audio, told, fed, silent, stop, wire, udp>>

\* stream_loop, a read: RTP goes to the sink and answers are let by.
Receive ==
  /\ step = "stream" /\ ~stop /\ Takes
  /\ UNCHANGED <<step, attempt, retried, audio, told, stop, outcome, camera>>

\* ...a turn with nothing to read: too long without RTP ends the session; when
\* half of the session's time has gone, a keep-alive, unless media by TCP is
\* keeping it.
Turn ==
  /\ step = "stream" /\ ~stop /\ wire = <<>> /\ udp = {} /\ silent.time < MaxTime
  /\ LET s == [rtp |-> silent.rtp + 1, keep |-> silent.keep + 1, time |-> silent.time + 1]
     IN IF s.rtp > NoRtp
        THEN Ends("error") /\ silent' = s
        ELSE IF s.keep < KeepEvery
        THEN silent' = s /\ UNCHANGED <<step, retried, outcome, camera>>
        ELSE IF Used = "tcp" /\ s.rtp < KeepEvery
        THEN silent' = [s EXCEPT !.keep = 0] /\ UNCHANGED <<step, retried, outcome, camera>>
        ELSE Asks("KEEP", attempt) /\ silent' = s
  /\ UNCHANGED <<attempt, audio, told, fed, stop, wire, udp>>

\* ...the connection falls: by TCP it is the session's end; by UDP the RTP goes
\* on and only the answers are lost.
Falls ==
  /\ step = "stream" /\ ~stop /\ camera.faults < MaxFaults /\ wire' = <<>>
  /\ IF Used = "tcp"
     THEN step' = "ended" /\ outcome' = "error" /\ camera' = [camera EXCEPT !.faults = @ + 1, !.todo = <<>>]
     ELSE camera' = [camera EXCEPT !.faults = @ + 1, !.todo = <<>>] /\ UNCHANGED <<step, outcome>>
  /\ UNCHANGED <<attempt, retried, audio, told, fed, silent, stop, udp>>

\* Told to stop: TEARDOWN, and the session ends well.
Stops ==
  /\ step = "stream" /\ stop /\ step' = "TEARDOWN" /\ outcome' = "ok" /\ retried' = FALSE
  /\ camera' = [camera EXCEPT !.todo = Append(@, "TEARDOWN")]
  /\ UNCHANGED <<attempt, audio, told, fed, silent, stop, wire, udp>>

Waits == TimedOut \/ GivesUp \/ Stops
Goes == ReadAnswer \/ Validate \/ Receive \/ Turn

CameraNext == Answer \/ Plays \/ AskStop \/ Falls \/ Goes \/ Waits

\* The session's thread runs: it reads what is there, and every wait of it has
\* a deadline that no traffic puts off.
CameraSpec == CameraInit /\ [][CameraNext]_cvars /\ WF_cvars(Goes) /\ WF_cvars(Waits)

-----------------------------------------------------------------------------
(* Properties.                                                             *)

\* The sink hears of a track's format before it gets a sample of the track,
\* through every fallback from one transport to the next ("Formato ANTES do
\* primeiro RTP").
FormatFirst == fed \subseteq told

\* A session told to stop ends, wherever in the handshake it is and whatever
\* the camera answers.
StopEnds == stop ~> step = "ended"
=============================================================================
