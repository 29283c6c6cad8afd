-------------------------------- MODULE Ptz --------------------------------
(***************************************************************************)
(* The camera's movement through a DVRIP session: the registry where the   *)
(* HTTP route finds the live session of a camera (ptz.rs), the guardian of *)
(* the command sessions the register asks for (ptz_control.rs and          *)
(* Controles of api/ptz.rs), the session's own thread (DvripSession,       *)
(* run_control) and the request (ptz_route, PtzApi).  One camera, whose    *)
(* video may come by DVRIP too: its session announces itself in the same   *)
(* registry.  A command goes out by the connection that is already logged  *)
(* in, so what a request finds and what is alive when it writes may        *)
(* differ.                                                                 *)
(***************************************************************************)
EXTENDS Naturals, FiniteSets

CONSTANTS
  Clients,       \* requests in progress at the same time
  Addresses,     \* the dvrip:// addresses the register may hold
  Commands,      \* directions and lenses
  Fallback,      \* PTZ_ESQUERDA, what a stop says when no command is known
  MaxSaves,      \* bound: changes of the register
  MaxDrops,      \* bound: connections that fall
  MaxAsked,      \* bound: requests
  Nothing        \* no session, no address, no command

PtzAssumption ==
  /\ Fallback \in Commands
  /\ Nothing \notin Addresses \cup Commands \cup {"control", "video"}

VARIABLES
  address,   \* the setting ptz.<camera>.xaddr, Nothing when it is not dvrip://
  kept,      \* ControlSessions.abertas: the address of the entry, or Nothing
  control,   \* the command session's thread: its phase
  where,     \* the address that thread connects to
  video,     \* the camera's DVRIP video session: its phase
  registry,  \* PtzRegistry: the session announced for the camera
  last,      \* PtzApi.ultimo
  request,   \* each client's request: its phase, its action, what it holds
  moving,    \* what the camera is doing
  logged,    \* gestures given to the interaction log, and those that took
  count      \* saves, drops, requests so far

pvars == <<address, kept, control, where, video, registry, last, request, moving, logged, count>>

Idle == [phase |-> "idle", does |-> Nothing, holds |-> Nothing, says |-> Nothing]

PtzInit ==
  /\ address \in Addresses \cup {Nothing} /\ kept = Nothing
  /\ control = "none" /\ where = Nothing /\ video = "off" /\ registry = Nothing
  /\ last = Nothing /\ request = [c \in Clients |-> Idle] /\ moving = Nothing
  /\ logged = [told |-> 0, took |-> 0] /\ count = [saves |-> 0, drops |-> 0, asked |-> 0]

-----------------------------------------------------------------------------
(* The register.                                                           *)

\* The register gets another address (or one that is not DVRIP).
Save ==
  /\ count.saves < MaxSaves
  /\ \E a \in (Addresses \cup {Nothing}) \ {address} : address' = a
  /\ count' = [count EXCEPT !.saves = @ + 1]
  /\ UNCHANGED <<kept, control, where, video, registry, last, request, moving, logged>>

-----------------------------------------------------------------------------
(* The guardian.  Dropping an entry stops its thread and waits for it, so  *)
(* two command sessions of one camera never run side by side.              *)

\* PtzRegistry::apagar: only one's own.
Leave(s) == registry' = IF registry = s THEN Nothing ELSE registry

\* A thread told to stop is joined.  A live session leaves the registry on its
\* way; one still logging in may get through, announce itself over anybody and
\* leave at once.
Joined ==
  CASE control \in {"live", "leaving"} -> Leave("control")
    [] control = "connecting" -> registry' \in {registry, Nothing}
    [] OTHER -> UNCHANGED registry

\* The entry goes and its thread with it.
DropEntry == kept' = Nothing /\ control' = "none" /\ where' = Nothing /\ Joined

\* Another address: the old session goes and one is started there.
Replace(a) == kept' = a /\ control' = "connecting" /\ where' = a /\ Joined

\* Wrong on purpose: the sessions nobody wants any more stay.
UpkeepKeepsAll ==
  IF address # Nothing /\ registry = Nothing /\ kept # address
  THEN Replace(address)
  ELSE UNCHANGED <<kept, control, where, registry>>

\* Controles::manter for the camera: a session is opened (or changed) when
\* none is announced; what is no longer asked for is closed.
Upkeep ==
  IF address = Nothing
  THEN IF kept # Nothing THEN DropEntry ELSE UNCHANGED <<kept, control, where, registry>>
  ELSE IF registry = Nothing /\ kept # address
       THEN Replace(address)
       ELSE UNCHANGED <<kept, control, where, registry>>

\* The main loop's turn, every 15 s.
Tick == Upkeep /\ UNCHANGED <<address, video, last, request, moving, logged, count>>

-----------------------------------------------------------------------------
(* The sessions.                                                           *)

\* The command session has logged in and announces itself.
Announce ==
  /\ control = "connecting" /\ control' = "live" /\ registry' = "control"
  /\ UNCHANGED <<address, kept, where, video, last, request, moving, logged, count>>

\* Its connection falls or is refused.
Fall ==
  /\ control \in {"connecting", "live"} /\ count.drops < MaxDrops
  /\ control' = IF control = "live" THEN "leaving" ELSE "waiting"
  /\ count' = [count EXCEPT !.drops = @ + 1]
  /\ UNCHANGED <<address, kept, where, video, registry, last, request, moving, logged>>

\* It leaves the registry and waits to try again.
Forsake ==
  /\ control = "leaving" /\ control' = "waiting" /\ Leave("control")
  /\ UNCHANGED <<address, kept, where, video, last, request, moving, logged, count>>

\* Five seconds later it tries again, at the address it was made with.
Reopen ==
  /\ control = "waiting" /\ control' = "connecting"
  /\ UNCHANGED <<address, kept, where, video, registry, last, request, moving, logged, count>>

\* The video's session comes up and announces itself over whoever is there.
VideoUp ==
  /\ video = "off" /\ count.drops < MaxDrops /\ video' = "live" /\ registry' = "video"
  /\ UNCHANGED <<address, kept, control, where, last, request, moving, logged, count>>

\* It falls, and leaves the registry if it is still the one announced.
VideoDown ==
  /\ video = "live" /\ count.drops < MaxDrops /\ video' = "off" /\ Leave("video")
  /\ count' = [count EXCEPT !.drops = @ + 1]
  /\ UNCHANGED <<address, kept, control, where, last, request, moving, logged>>

-----------------------------------------------------------------------------
(* The request.                                                            *)

\* /api/ptz for a known camera.  With no session announced and a DVRIP address
\* in the register, the guardian is called at once and the request waits.
Ask(c) ==
  /\ request[c].phase = "idle" /\ count.asked < MaxAsked
  /\ \E d \in Commands \cup {"stop"} :
       request' = [request EXCEPT ![c] = [Idle EXCEPT !.does = d,
                     !.phase = IF registry = Nothing /\ address # Nothing THEN "waits" ELSE "looks"]]
  /\ IF registry = Nothing /\ address # Nothing THEN Upkeep ELSE UNCHANGED <<kept, control, where, registry>>
  /\ count' = [count EXCEPT !.asked = @ + 1]
  /\ UNCHANGED <<address, video, last, moving, logged>>

\* The session is announced, or three seconds have passed.
Waited(c) ==
  /\ request[c].phase = "waits" /\ request' = [request EXCEPT ![c].phase = "looks"]
  /\ UNCHANGED <<address, kept, control, where, video, registry, last, moving, logged, count>>

\* PtzApi::handle.  Without a session the command would go by ONVIF (modelled
\* in Onvif).  With one, a start notes its command and a stop repeats the one
\* noted.
Begin(c) ==
  /\ request[c].phase = "looks"
  /\ IF registry = Nothing
     THEN request' = [request EXCEPT ![c] = Idle] /\ UNCHANGED last
     ELSE IF request[c].does = "stop"
     THEN /\ request' = [request EXCEPT ![c] = [@ EXCEPT !.phase = "sends", !.holds = registry,
                           !.says = IF last = Nothing THEN Fallback ELSE last]]
          /\ UNCHANGED last
     ELSE /\ request' = [request EXCEPT ![c] = [@ EXCEPT !.phase = "sends", !.holds = registry,
                           !.says = request[c].does]]
          /\ last' = request[c].does
  /\ UNCHANGED <<address, kept, control, where, video, registry, moving, logged, count>>

\* The held session still has its connection.
Writable(s) == IF s = "video" THEN video = "live" ELSE control = "live"

\* DvripControl::mover_ptz writes; the answer is 200 either way, and a 200 is
\* an interaction.  A camera takes the end of a command for the command it is
\* carrying out, and that of the fallback for whatever it is.
Send(c) ==
  /\ request[c].phase = "sends"
  /\ request' = [request EXCEPT ![c] = Idle]
  /\ logged' = [told |-> logged.told + 1,
                took |-> logged.took + (IF Writable(request[c].holds) THEN 1 ELSE 0)]
  /\ moving' = IF ~Writable(request[c].holds) THEN moving
               ELSE IF request[c].does # "stop" THEN request[c].does
               ELSE IF request[c].says \in {moving, Fallback} THEN Nothing ELSE moving
  /\ UNCHANGED <<address, kept, control, where, video, registry, last, count>>

PtzNext ==
  \/ Save \/ Tick \/ Announce \/ Fall \/ Forsake \/ Reopen \/ VideoUp \/ VideoDown
  \/ \E c \in Clients : Ask(c) \/ Waited(c) \/ Begin(c) \/ Send(c)

\* The loop's turn comes; a session that fell leaves.
PtzSpec == PtzInit /\ [][PtzNext]_pvars /\ WF_pvars(Tick) /\ WF_pvars(Forsake)

-----------------------------------------------------------------------------
(* Properties.                                                             *)

\* The guardian's entry, its thread and its address come and go together, and
\* what is announced is somebody's who lives or is on the way out: a request
\* never holds a session whose thread forgot to leave.
NoGhost ==
  /\ (kept # Nothing) <=> (control # "none")
  /\ where = kept
  /\ registry = "control" => control \in {"live", "leaving"}
  /\ registry = "video" => video = "live"

\* A camera whose register no longer asks for a command session ends up
\* without one, alive or not, and without the announcement of one.
LeavesWhenUnwanted == <>[](address = Nothing) => <>[](kept = Nothing /\ registry # "control")

\* "the routes find it there as they find the video's" (ptz_control.rs): a
\* command session that lives is never unreachable.  The code breaks it: the
\* video's session announces itself over it and, leaving, empties the registry.
FoundWhileLive == control = "live" => registry # Nothing

\* "a stop repeats the command that was going" (ptz_api.rs).
StopRepeats == [][\A c \in Clients :
                    request[c].phase = "sends" /\ request[c].does = "stop" /\ request'[c] = Idle
                       /\ Writable(request[c].holds) => moving' = Nothing]_pvars

\* "accepted commands become interactions" (api/ptz.rs).
AcceptedAreTold == logged.told = logged.took
=============================================================================
