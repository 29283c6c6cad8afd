------------------------------- MODULE Onvif -------------------------------
(***************************************************************************)
(* Moving a camera by ONVIF: the clients kept one per camera (OnvifCache   *)
(* of ptz_api.rs), which the saving of the register forgets, and the       *)
(* client itself (onvif.rs), which prepares once, reading the camera's     *)
(* clock, its services and its profile, stamps every token by that clock,  *)
(* and learns what the camera does not answer.  One camera; a request      *)
(* holds the client's lock while it talks.  Hours are a small offset.      *)
(***************************************************************************)
EXTENDS Naturals

CONSTANTS
  Clients,       \* requests in progress at the same time
  MaxObjects,    \* bound: clients made
  MaxAsked,      \* bound: requests
  MaxSaves,      \* bound: saves of the register
  MaxFaults,     \* bound: calls that get no answer
  Offsets,       \* by how much the camera's clock may be off, 0 among them
  MaxSets,       \* bound: times the camera's clock is set
  Brake          \* DURACAO, in ticks of the camera

OnvifAssumption == 0 \in Offsets /\ Brake \in Nat \ {0} /\ MaxObjects \in Nat \ {0}

VARIABLES
  register,  \* how many times the camera's register was saved
  saving,    \* a save has written and not yet forgotten the clients
  objects,   \* the clients made, by number
  made,      \* how many
  kept,      \* OnvifCache's client of the camera: a number, 0 for none
  request,   \* each request: its phase, its action, what it holds
  camera,    \* its clock's offset, how long it still moves, whether it knows Stop
  seen,      \* the last answer: whose action, whether it was good, and the stamp it went with
  count      \* saves of the clock, faults, requests so far

nvars == <<register, saving, objects, made, kept, request, camera, seen, count>>

Blank == [of |-> 0, ready |-> FALSE, delta |-> 0, noStop |-> FALSE, noPresets |-> FALSE]
Resting == [phase |-> "rests", does |-> "none", holds |-> 0]

OnvifInit ==
  /\ register = 0 /\ saving = FALSE
  /\ objects = [o \in 1 .. MaxObjects |-> Blank] /\ made = 0 /\ kept = 0
  /\ request = [c \in Clients |-> Resting]
  /\ camera \in [offset : Offsets, moving : {0}, stops : BOOLEAN]
  /\ seen = [does |-> "none", ok |-> TRUE, late |-> FALSE]
  /\ count = [sets |-> 0, faults |-> 0, asked |-> 0]

-----------------------------------------------------------------------------
(* The camera, and the register.                                           *)

\* The camera is restarted, or its clock is set.
SetClock ==
  /\ count.sets < MaxSets /\ count' = [count EXCEPT !.sets = @ + 1]
  /\ \E f \in Offsets \ {camera.offset} : camera' = [camera EXCEPT !.offset = f]
  /\ UNCHANGED <<register, saving, objects, made, kept, request, seen>>

\* A camera that moves goes on until it is stopped or its order runs out.
Goes ==
  /\ camera.moving > 0 /\ camera' = [camera EXCEPT !.moving = @ - 1]
  /\ UNCHANGED <<register, saving, objects, made, kept, request, seen, count>>

\* The save writes the address and the password...
SaveRegister ==
  /\ ~saving /\ register < MaxSaves /\ register' = register + 1 /\ saving' = TRUE
  /\ UNCHANGED <<objects, made, kept, request, camera, seen, count>>

\* ...and then everything is forgotten.
Forget ==
  /\ saving /\ saving' = FALSE /\ kept' = 0
  /\ UNCHANGED <<register, objects, made, request, camera, seen, count>>

-----------------------------------------------------------------------------
(* The cache.                                                              *)

Actions == {"move", "stop", "presets", "goto", "test"}

\* OnvifCache::client: the one kept, or the register is read for a new one.
Ask(c) ==
  /\ request[c].phase = "rests" /\ count.asked < MaxAsked
  /\ \E a \in Actions :
       request' = [request EXCEPT ![c] =
         IF kept # 0 THEN [phase |-> "calls", does |-> a, holds |-> kept]
         ELSE [phase |-> "makes", does |-> a, holds |-> register]]
  /\ count' = [count EXCEPT !.asked = @ + 1]
  /\ UNCHANGED <<register, saving, objects, made, kept, camera, seen>>

\* ...and kept, unless another request was first (or_insert).
Make(c) ==
  /\ request[c].phase = "makes" /\ made < MaxObjects
  /\ IF kept # 0
     THEN /\ request' = [request EXCEPT ![c].phase = "calls", ![c].holds = kept]
          /\ UNCHANGED <<objects, made, kept>>
     ELSE /\ objects' = [objects EXCEPT ![made + 1].of = request[c].holds]
          /\ made' = made + 1 /\ kept' = made + 1
          /\ request' = [request EXCEPT ![c].phase = "calls", ![c].holds = made + 1]
  /\ UNCHANGED <<register, saving, camera, seen, count>>

-----------------------------------------------------------------------------
(* The client.                                                             *)

\* The camera takes a token stamped near its own clock, with the password the
\* register has now.
Accepts(o) == o.delta = camera.offset /\ o.of = register

\* preparar, once: the clock is an adjustment and may go unread; the services
\* and the profile need the token taken.  The answers are the camera's.
Prepared(o, clockRead, answered) ==
  IF o.ready THEN o
  ELSE LET d == [o EXCEPT !.delta = IF clockRead THEN camera.offset ELSE 0]
       IN [d EXCEPT !.ready = answered /\ Accepts(d)]

\* Wrong on purpose: a camera that did not answer Stop once is left moving.
HaltsNot(o, answered, again) ==
  [ok |-> TRUE, client |-> [o EXCEPT !.noStop = @ \/ ~(answered /\ camera.stops /\ Accepts(o))],
   moving |-> IF answered /\ camera.stops /\ Accepts(o) THEN 0 ELSE camera.moving]

\* parar: Stop, and where it failed once, a move of speed zero from then on.
Halts(o, answered, again) ==
  LET stop == ~o.noStop /\ answered /\ camera.stops /\ Accepts(o)
      zero == again /\ Accepts(o)
  IN [ok |-> stop \/ zero, client |-> [o EXCEPT !.noStop = @ \/ ~stop],
      moving |-> IF stop \/ zero THEN 0 ELSE camera.moving]

\* mover_continuo: the camera moves for as long as the order says.
Moves(o, answered) ==
  [ok |-> answered /\ Accepts(o), client |-> o,
   moving |-> IF answered /\ Accepts(o) THEN Brake ELSE camera.moving]

\* ler_presets: failed once, it is not asked again.
Presets(o, answered) ==
  [ok |-> ~o.noPresets /\ answered /\ Accepts(o),
   client |-> [o EXCEPT !.noPresets = @ \/ ~(answered /\ Accepts(o))], moving |-> camera.moving]

\* A position is gone to, kept or deleted.
Position(o, answered) == [ok |-> answered /\ Accepts(o), client |-> o, moving |-> camera.moving]

Refused(o) == [ok |-> FALSE, client |-> o, moving |-> camera.moving]

\* What the client makes of an order, as far as it could be prepared.
Answer(does, o, answered, again) ==
  IF ~o.ready THEN Refused(o)
  ELSE CASE does = "move" -> Moves(o, answered)
         [] does = "stop" -> Halts(o, answered, again)
         [] does = "presets" -> Presets(o, answered)
         [] does = "goto" -> Position(o, answered)
         [] does = "test" -> [Position(o, TRUE) EXCEPT !.ok = TRUE]

\* The request under the client's lock: the preparation, then its action.
Call(c) ==
  /\ request[c].phase = "calls"
  /\ \E clockRead, answered, again \in BOOLEAN :
       /\ (clockRead /\ answered /\ again) \/ count.faults < MaxFaults
       /\ LET n == request[c].holds
              o == Prepared(objects[n], clockRead, answered)
              r == Answer(request[c].does, o, answered, again)
          IN /\ objects' = [objects EXCEPT ![n] = r.client]
             /\ camera' = [camera EXCEPT !.moving = r.moving]
             /\ seen' = [does |-> request[c].does, ok |-> r.ok,
                         late |-> answered /\ o.ready /\ o.delta # camera.offset]
       /\ count' = [count EXCEPT !.faults = @ + (IF clockRead /\ answered /\ again THEN 0 ELSE 1)]
  /\ request' = [request EXCEPT ![c] = Resting]
  /\ UNCHANGED <<register, saving, made, kept>>

OnvifNext ==
  \/ SetClock \/ Goes \/ SaveRegister \/ Forget
  \/ \E c \in Clients : Ask(c) \/ Make(c) \/ Call(c)

OnvifSpec == OnvifInit /\ [][OnvifNext]_nvars

-----------------------------------------------------------------------------
(* Properties.                                                             *)

\* A stop the client says went through left the camera still, whichever of
\* the two ways it took and whatever failed before.
StopStops == [][\A c \in Clients :
                  request[c].phase = "calls" /\ request'[c] = Resting /\ seen'.does = "stop" /\ seen'.ok
                  => camera'.moving = 0]_nvars

\* "every token is stamped by the camera's time".  The code breaks it: the
\* clock is read once per client, and the client is kept for good.
StampedByCamera == ~seen.late

\* "forgets everything: the register changed".  The code breaks it: a request
\* that read the register before the save keeps its client after it.
CacheIsCurrent == ~saving /\ kept # 0 => objects[kept].of = register
=============================================================================
