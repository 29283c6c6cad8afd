----------------------------- MODULE MCStreams ------------------------------
(***************************************************************************)
(* What is sent and shown: small instances of RtpMedia, DvripCamera,       *)
(* Onvif, RtspFile, PlayerFetch, AppLive, ServerBook and Motion.           *)
(* The components share no state: the variable part says which of them     *)
(* runs in a behaviour, the others stay as they started. One run of the    *)
(* model checker so goes through the whole instance of each of them, and   *)
(* each property is about one.                                             *)
(***************************************************************************)
EXTENDS Naturals, Sequences

CONSTANTS
  Nil, NoPass,    \* values nothing else equals
  \* of all but DvripCamera, which are proved about
  Units, MaxLost, MaxFlight,
  Offsets, Brake, MaxObjects, MaxOrders, MaxRegisters, MaxUnanswered, MaxSets,
  Reels, MaxPts, MaxRequests, MaxWait, MaxLag, Stall,
  Recording, Target, MaxOpens, MaxAsked, MaxFetchFaults, MaxPauses,
  Threads, Lists, MaxViews, MaxListSaves,
  Books, Validity, Slow, MaxBookSaves, MaxStarts,
  Grids, Levels, Top, Unit, Alpha, Delta, Threshold, Scene, MaxGap, Gaps, Left, MaxFrames

VARIABLES
  part,  \* which of the components runs
  rtpCodec, rtpSent, flight, faults, hurt, started, parts, rtpOut,
  at, dvripFilm, dvripCamera, wire, dvripHeader, buf, stream, dvripOut,
  register, saving, objects, made, kept, request, onvifCamera, seen,
  onvifCount,
  vodFilm, files, asked, st, vodLive, file, pos, atEnd, retried, rejected,
  vodHeader, vodCodec, anchored, phase, age, idle, hand, nap, vodSent, lead,
  sparse,
  gen, fetchLive, playing, loops, busy, cursor, ended, waits, pend,
  fetchShown, flights, fetchCount,
  saved, sups, current, asks, writes,
  disk, book, choice, routeShown, up, req, since, saves, starts,
  grid, background, known, motionShown, verdict, same, frames

rtpVars == <<rtpCodec, rtpSent, flight, faults, hurt, started, parts, rtpOut>>
dvripVars == <<at, dvripFilm, dvripCamera, wire, dvripHeader, buf, stream, dvripOut>>
onvifVars == <<register, saving, objects, made, kept, request, onvifCamera, seen,
    onvifCount>>
vodVars == <<vodFilm, files, asked, st, vodLive, file, pos, atEnd, retried, rejected,
    vodHeader, vodCodec, anchored, phase, age, idle, hand, nap, vodSent,
    lead, sparse>>
fetchVars == <<gen, fetchLive, playing, loops, busy, cursor, ended, waits, pend,
    fetchShown, flights, fetchCount>>
viewVars == <<saved, sups, current, asks, writes>>
routeVars == <<disk, book, choice, routeShown, up, req, since, saves, starts>>
motionVars == <<grid, background, known, motionShown, verdict, same, frames>>

RM == INSTANCE RtpMedia WITH
  MaxFaults <- MaxLost, codec <- rtpCodec, sent <- rtpSent, out <- rtpOut

ASSUME RtpAssumption == RM!RtpAssumption

SixUnits == <<1, 1, 3, 1, 2, 2>>

Film ==
  <<[is |-> "delta", len |-> 1], [is |-> "key", len |-> 2], [is |-> "delta", len |-> 2],
    [is |-> "sound", len |-> 1], [is |-> "delta", len |-> 1]>>

DC == INSTANCE DvripCamera WITH
  Frames <- Film, MaxPiece <- 3, MaxGlitches <- 1, MaxAlarms <- 1,
  MaxAhead <- 8, film <- dvripFilm, camera <- dvripCamera,
  header <- dvripHeader, out <- dvripOut

ASSUME DC!DvripAssumption

ON == INSTANCE Onvif WITH
  Clients <- Threads, MaxAsked <- MaxOrders, MaxSaves <- MaxRegisters,
  MaxFaults <- MaxUnanswered,
  camera <- onvifCamera, count <- onvifCount

ASSUME OnvifAssumption == ON!OnvifAssumption

\* A file with a damaged block and a jump past it, one of another codec, and the next.
KeyAt(p) == [pts |-> p, key |-> TRUE, bad |-> FALSE]
DeltaAt(p) == [pts |-> p, key |-> FALSE, bad |-> FALSE]
BadAt(p) == [pts |-> p, key |-> TRUE, bad |-> TRUE]
ThreeFiles ==
  {<<[codec |-> "a", blocks |-> <<KeyAt(<<1, 2>>), BadAt(<<3>>), DeltaAt(<<4>>)>>],
     [codec |-> "b", blocks |-> <<>>],
     [codec |-> "a", blocks |-> <<KeyAt(<<1>>)>>]>>}

RF == INSTANCE RtspFile WITH
  Films <- Reels, film <- vodFilm, live <- vodLive, header <- vodHeader,
  codec <- vodCodec, sent <- vodSent

ASSUME RtspFileAssumption == RF!RtspFileAssumption

PF == INSTANCE PlayerFetch WITH
  MaxFaults <- MaxFetchFaults, live <- fetchLive,
  shown <- fetchShown, count <- fetchCount

ASSUME PlayerFetchAssumption == PF!FetchAssumption

\* Times that go back from one fragment to the next.
TwoFragments == <<<<2, 4>>, <<3, 5>>>>

\* Lists of cameras: one renamed or readdressed, passwords given and left blank,
\* a supervisor with a limit of attempts and one without.
Entry(n, u, p, k) == [name |-> n, url |-> u, pass |-> p, limit |-> k]
Posts ==
  {<<Entry("a", "u", "s", 0), Entry("b", "w", NoPass, 1)>>,
   <<Entry("a", "v", NoPass, 0), Entry("b", "w", "t", 0)>>,
   <<Entry("b", "w", NoPass, 1)>>, <<Entry("c", "u", NoPass, 0)>>}

AL == INSTANCE AppLive WITH
  Requests <- Threads, MaxSaves <- MaxListSaves, None <- Nil

ASSUME AppLiveAssumption == AL!AppLiveAssumption

\* A server with a route in the house and one over the network of the tunnel,
\* and the same server registered anew.
TwoBooks ==
  {[routes |-> <<[url |-> "lan", tail |-> FALSE], [url |-> "net", tail |-> TRUE]>>, pass |-> "p"],
   [routes |-> <<[url |-> "new", tail |-> FALSE]>>, pass |-> "q"]}

SB == INSTANCE ServerBook WITH
  Requests <- Threads, MaxSaves <- MaxBookSaves, None <- Nil,
  shown <- routeShown

ASSUME ServerBookAssumption == SB!ServerBookAssumption

\* What is left of nine levels, in sixteenths, when six of them go in a frame.
SixFrames == <<144, 90, 57, 36, 23, 15>>

MO == INSTANCE Motion WITH shown <- motionShown

ASSUME MotionAssumption == MO!MotionAssumption

Init ==
  /\ part \in {"rtp", "dvrip", "onvif", "vod", "fetch", "view", "route", "motion"}
  /\ RM!RtpInit /\ (part = "rtp" \/ rtpCodec = "nal")
  /\ DC!DvripInit
  /\ ON!OnvifInit /\ (part = "onvif" \/ (onvifCamera.offset = 0 /\ onvifCamera.stops = TRUE))
  /\ RF!FileInit
  /\ PF!FetchInit
  /\ AL!ViewInit /\ (part = "view" \/ saved = CHOOSE l \in Lists : TRUE)
  /\ SB!BookInit /\ (part = "route" \/ disk = Nil)
  /\ MO!MotionInit /\ (part = "motion" \/ grid = 2)

RMStep ==
  /\ part = "rtp" /\ RM!RtpNext
  /\ UNCHANGED <<part, dvripVars, onvifVars, vodVars, fetchVars, viewVars, routeVars, motionVars>>

DCStep ==
  /\ part = "dvrip" /\ DC!DvripNext
  /\ UNCHANGED <<part, rtpVars, onvifVars, vodVars, fetchVars, viewVars, routeVars, motionVars>>

ONStep ==
  /\ part = "onvif" /\ ON!OnvifNext
  /\ UNCHANGED <<part, rtpVars, dvripVars, vodVars, fetchVars, viewVars, routeVars, motionVars>>

RFStep ==
  /\ part = "vod" /\ RF!FileNext
  /\ UNCHANGED <<part, rtpVars, dvripVars, onvifVars, fetchVars, viewVars, routeVars, motionVars>>

PFStep ==
  /\ part = "fetch" /\ PF!FetchNext
  /\ UNCHANGED <<part, rtpVars, dvripVars, onvifVars, vodVars, viewVars, routeVars, motionVars>>

ALStep ==
  /\ part = "view" /\ AL!ViewNext
  /\ UNCHANGED <<part, rtpVars, dvripVars, onvifVars, vodVars, fetchVars, routeVars, motionVars>>

SBStep ==
  /\ part = "route" /\ SB!BookNext
  /\ UNCHANGED <<part, rtpVars, dvripVars, onvifVars, vodVars, fetchVars, viewVars, motionVars>>

MOStep ==
  /\ part = "motion" /\ MO!MotionNext
  /\ UNCHANGED <<part, rtpVars, dvripVars, onvifVars, vodVars, fetchVars, viewVars, routeVars>>

Next == RMStep \/ DCStep \/ ONStep \/ RFStep \/ PFStep \/ ALStep \/ SBStep \/ MOStep

vars == <<part, rtpVars, dvripVars, onvifVars, vodVars, fetchVars, viewVars, routeVars, motionVars>>

Spec == Init /\ [][Next]_vars

-----------------------------------------------------------------------------
\* A packet lost or overtaken spoils only the units it touches: every other
\* comes out whole and once, in order where nothing was overtaken.
SeenThrough == RM!SeenThrough

\* Each message the camera frames wrong makes at most one frame that is not
\* whole, and the frames come in order, from a keyframe on.
OneWrongPerGlitch == DC!OneWrongPerGlitch

\* A stop the client says went through left the camera still, whichever of
\* the two ways it took and whatever failed before.
StopStops == ON!StopStops

\* Recordings are sent at the pace of their timestamps through pauses and
\* delays; and live from files, nothing is sent twice or out of order, across
\* files too.
RtspFileSafe == []RF!Paced /\ RF!Onward

\* No answer to an earlier session gets into the queue of this one, and what
\* is shown never goes back within a session.
PlayerFetchSafe == []PF!NothingStale /\ PF!ForwardOnly

\* However the requests of the page interleave, no supervisor is left
\* connected to a camera with nobody to stop it.
AppLiveSafe == AL!ViewTypeOK /\ AL!NoneLeftRunning

\* A route of the registration that was replaced is not used longer than one
\* choice and one validity after the save.
ServerBookSafe == SB!StoredTypeOK /\ SB!OldRouteFades

\* A picture that stays as it is stops being motion, whatever was shown
\* before it.
StillSettles == MO!StillSettles

=============================================================================
