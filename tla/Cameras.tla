------------------------------ MODULE Cameras ------------------------------
(***************************************************************************)
(* The cameras a server captures: requests save them in the database        *)
(* (server/src/api/admin.rs), the main loop brings each changed camera to   *)
(* the state saved (server/src/main.rs), and a supervisor thread per camera *)
(* keeps its session alive (shared/src/supervisor.rs).                      *)
(*                                                                         *)
(* A request is a thread of its own and each of its statements is a         *)
(* transaction by itself; so is each of the statements the loop loads the   *)
(* settings with.  Each is an action here.                                  *)
(***************************************************************************)
EXTENDS Integers, Sequences, FiniteSets

CONSTANTS
  Camera,       \* the cameras there may be (names, compared without case)
  Saved,        \* the ones in the database at first, with one address each
  Request,      \* the requests that save a camera
  AtFirst,      \* stands for the request that saved the first ones
  Blank,        \* whether requests may leave their passwords blank, or not
  MaxEndpoints, \* bound: addresses a request gives
  MaxAttempts,  \* max_reconnect_attempts; 0: reconnects for ever
  MaxFaults     \* bound: statements that fail

ASSUME CamerasAssumption ==
  /\ Saved \subseteq Camera /\ IsFiniteSet(Saved)
  /\ IsFiniteSet(Request) /\ AtFirst \notin Request
  /\ Blank \subseteq BOOLEAN
  /\ MaxEndpoints \in Nat \ {0} /\ MaxAttempts \in Nat /\ MaxFaults \in Nat

VARIABLES
  db,      \* the table of cameras: saved ones only, each with its addresses
  req,     \* the requests
  faults,  \* statements that failed
  pending, \* pendentes
  loop,    \* where the main thread is, and its locals
  known,   \* the router's names of cameras
  sups,    \* the supervisors the main thread holds
  threads, \* the supervisors' threads, ended ones too
  stop     \* the process is told to stop

vars == <<db, req, faults, pending, loop, known, sups, threads, stop>>

-----------------------------------------------------------------------------

Put(f, x, v) == [y \in DOMAIN f \cup {x} |-> IF y = x THEN v ELSE f[y]]

Nothing == [x \in {} |-> 0]

\* An address is known by the request that gave it; "" is no password.
Ord == 0..(MaxEndpoints - 1)
Endpoint == [by : Request \cup {AtFirst}, password : {"", "first", "new"}]

\* A supervisor's thread begins.
NewThread(c, cfg) ==
  [camera |-> c, cfg |-> cfg, at |-> "top", stop |-> FALSE, media |-> FALSE,
   attempts |-> 0, dry |-> 0]

FirstCfg ==
  [enabled |-> TRUE, eps |-> Put(Nothing, 0, [by |-> AtFirst, password |-> "first"])]

IdleRequest == [at |-> "idle"]

\* What is left of a request that answered.
Answered(q, at) == [at |-> at, camera |-> q.camera, blank |-> q.blank]

\* ... and of a thread that was waited for.
Joined(t) ==
  [NewThread(t.camera, FirstCfg) EXCEPT !.at = "ended", !.stop = TRUE]

\* run, up to its loop: the cameras are loaded and each has its supervisor.
Init ==
  /\ db = [c \in Saved |-> FirstCfg]
  /\ req = [r \in Request |-> IdleRequest]
  /\ faults = 0 /\ pending = <<>> /\ stop = FALSE
  /\ loop = [at |-> "wait", queue |-> <<>>, loaded |-> Nothing, todo |-> {}, join |-> 0]
  /\ known = Saved
  /\ sups = 1..Cardinality(Saved)
  /\ threads \in {t \in [sups -> {NewThread(c, FirstCfg) : c \in Saved}] :
                    \A i, j \in sups : i # j => t[i].camera # t[j].camera}

Fault == faults < MaxFaults /\ faults' = faults + 1

-----------------------------------------------------------------------------
(* config_cameras_post, statement by statement *)

\* The camera itself: an UPDATE, or an INSERT of one that is new.  When the id
\* of the one inserted cannot be read back, its addresses have no owner and the
\* first of them is refused.
PostCamera(r, c, new, on, n, blank) ==
  LET written == Put(db, c, [enabled |-> on,
                             eps |-> IF new THEN Nothing ELSE db[c].eps])
      failed  == req' = [req EXCEPT ![r] =
                           Answered([camera |-> c, blank |-> blank], "failed")]
  IN
  /\ req[r].at = "idle"
  /\ \/ /\ new # (c \in DOMAIN db) /\ db' = written
        /\ \/ /\ req' = [req EXCEPT ![r] =
                           [at |-> "old", camera |-> c, n |-> n, blank |-> blank,
                            ord |-> 0, old |-> Nothing]]
              /\ UNCHANGED faults
           \/ new /\ failed /\ Fault
     \/ /\ failed /\ UNCHANGED db
        /\ (new = (c \in DOMAIN db) /\ UNCHANGED faults) \/ Fault
  /\ UNCHANGED pending

\* antigas: the passwords that are there; none when they cannot be read.
PostOld(r) ==
  /\ req[r].at = "old"
  /\ LET eps == db[req[r].camera].eps
         read(old) == req' = [req EXCEPT ![r].old = old, ![r].at = "delete"]
     IN  \/ read([o \in DOMAIN eps |-> eps[o].password]) /\ UNCHANGED faults
         \/ read(Nothing) /\ Fault
  /\ UNCHANGED <<db, pending>>

\* The DELETE of the addresses, whose result nobody looks at.
PostDelete(r) ==
  /\ req[r].at = "delete"
  /\ req' = [req EXCEPT ![r].at = "insert"]
  /\ \/ db' = [db EXCEPT ![req[r].camera].eps = Nothing] /\ UNCHANGED faults
     \/ UNCHANGED db /\ Fault
  /\ UNCHANGED pending

\* A blank password keeps the one that was at that position.
Password(q) ==
  IF ~q.blank THEN "new" ELSE IF q.ord \in DOMAIN q.old THEN q.old[q.ord] ELSE ""

\* The INSERT of one address; the position is unique in a camera.
PostInsert(r) ==
  /\ req[r].at = "insert" /\ req[r].ord < req[r].n
  /\ LET q == req[r]
         taken == q.ord \in DOMAIN db[q.camera].eps
     IN  \/ /\ ~taken
            /\ db' = [db EXCEPT ![q.camera].eps =
                        Put(@, q.ord, [by |-> r, password |-> Password(q)])]
            /\ req' = [req EXCEPT ![r].ord = @ + 1]
            /\ UNCHANGED faults
         \/ /\ (taken /\ UNCHANGED faults) \/ Fault
            /\ req' = [req EXCEPT ![r] = Answered(@, "failed")]
            /\ UNCHANGED db
  /\ UNCHANGED pending

\* anotar_pendente, and the answer.
PostNote(r) ==
  /\ req[r].at = "insert" /\ req[r].ord = req[r].n
  /\ req' = [req EXCEPT ![r] = Answered(@, "done")]
  /\ pending' = Append(pending, req[r].camera)
  /\ UNCHANGED <<db, faults>>

Post(r) ==
  /\ \/ \E c \in Camera, new, on \in BOOLEAN, blank \in Blank, n \in 1..MaxEndpoints :
          PostCamera(r, c, new, on, n, blank)
     \/ PostOld(r) \/ PostDelete(r) \/ PostInsert(r) \/ PostNote(r)
  /\ UNCHANGED <<loop, known, sups, threads, stop>>

-----------------------------------------------------------------------------
(* The supervisors *)

\* Wrong on purpose: waits without telling it to stop.
TellNobody(told) == threads

\* signal_stop, or the first half of stop.
Tell(told) ==
  [i \in DOMAIN threads |->
     IF i \in told THEN [threads[i] EXCEPT !.stop = TRUE] ELSE threads[i]]

Becomes(i, t) == threads' = [threads EXCEPT ![i] = t]

\* The thread's loop, and the end of it.
SupTop(i) ==
  /\ threads[i].at = "top"
  /\ Becomes(i, [threads[i] EXCEPT !.at = IF threads[i].stop THEN "ended" ELSE "session"])

\* The session announces its formats and delivers media.
SupMedia(i) ==
  /\ threads[i].at = "session" /\ ~threads[i].media
  /\ Becomes(i, [threads[i] EXCEPT !.media = TRUE, !.dry = 0])

\* Wrong on purpose: every session that falls counts as a failure.
AttemptsCountingAll(i, clean) == IF clean THEN 0 ELSE threads[i].attempts + 1

\* Backoff: a session that brought media, or that stopped because it was told
\* to, starts the count over; another is one more failure.
AttemptsAfter(i, clean) ==
  IF clean \/ threads[i].media THEN 0 ELSE threads[i].attempts + 1

\* The limit of the camera is reached.
GivesUp(attempts) == MaxAttempts > 0 /\ attempts >= MaxAttempts

\* The session ends, its sinks told, and the cycle after it: stop, give up or
\* wait.  Only a session told to stop ends without an error.
SupCycleEnds(i) ==
  /\ threads[i].at = "session"
  /\ \E clean \in {FALSE, threads[i].stop} :
       LET attempts == AttemptsAfter(i, clean) IN
         Becomes(i, [threads[i] EXCEPT
           !.at = IF threads[i].stop \/ GivesUp(attempts) THEN "ended" ELSE "backoff",
           !.attempts = attempts,
           !.media = FALSE,
           !.dry = IF threads[i].media THEN 0 ELSE @ + 1])

\* The wait is over, or was told to stop.
SupBackoffEnds(i) ==
  /\ threads[i].at = "backoff"
  /\ Becomes(i, [threads[i] EXCEPT !.at = "top"])

Sup(i) ==
  /\ i \in DOMAIN threads
  /\ SupTop(i) \/ SupMedia(i) \/ SupCycleEnds(i) \/ SupBackoffEnds(i)
  /\ UNCHANGED <<db, req, faults, pending, loop, known, sups, stop>>

-----------------------------------------------------------------------------
(* The main loop *)

Settings == <<db, req>>

\* tomar_cameras_pendentes, when there are some.
LoopTake ==
  /\ loop.at = "wait" /\ ~stop /\ pending # <<>>
  /\ loop' = [loop EXCEPT !.at = "cameras", !.queue = pending]
  /\ pending' = <<>>
  /\ UNCHANGED <<faults, known, sups, threads>>

\* load_cameras, the table of cameras; none of them when it cannot be read.
LoopCameras ==
  /\ loop.at = "cameras"
  /\ LET loads(cs) == loop' = [loop EXCEPT !.at = "addresses", !.todo = cs,
           !.loaded = [c \in cs |-> [enabled |-> db[c].enabled, eps |-> Nothing]]]
     IN  (loads(DOMAIN db) /\ UNCHANGED faults) \/ (loads({}) /\ Fault)
  /\ UNCHANGED <<pending, known, sups, threads>>

\* ... and each one's addresses; none of them when they cannot be read.
LoopAddresses(c) ==
  /\ loop.at = "addresses" /\ c \in loop.todo
  /\ LET loads(eps) == loop' = [loop EXCEPT !.todo = @ \ {c}, !.loaded[c].eps = eps]
     IN  (loads(db[c].eps) /\ UNCHANGED faults) \/ (loads(Nothing) /\ Fault)
  /\ UNCHANGED <<pending, known, sups, threads>>

\* Wrong on purpose: takes the pending ones after loading.
LoopKnownTaking ==
  /\ loop.at = "addresses" /\ loop.todo = {}
  /\ known' = DOMAIN loop.loaded
  /\ loop' = [loop EXCEPT !.at = "reconcile", !.queue = @ \o pending]
  /\ pending' = <<>>
  /\ UNCHANGED <<faults, sups, threads>>

\* definir_cameras.
LoopKnown ==
  /\ loop.at = "addresses" /\ loop.todo = {}
  /\ known' = DOMAIN loop.loaded
  /\ loop' = [loop EXCEPT !.at = "reconcile"]
  /\ UNCHANGED <<pending, faults, sups, threads>>

Held(c) == {i \in sups : threads[i].camera = c}

\* reconciliar: the supervisor of the camera is taken out and told to stop ...
LoopStopOne ==
  /\ loop.at = "reconcile" /\ loop.queue # <<>>
  /\ \E i \in Held(Head(loop.queue)) :
       /\ sups' = sups \ {i}
       /\ threads' = Tell({i})
       /\ loop' = [loop EXCEPT !.at = "join", !.join = i]
  /\ UNCHANGED <<pending, faults, known>>

\* Wrong on purpose: goes on without waiting.
LoopJoinNotWaiting ==
  /\ loop.at = "join"
  /\ loop' = [loop EXCEPT !.at = "reconcile", !.join = 0]
  /\ UNCHANGED <<pending, faults, known, sups, threads>>

\* ... and the loop waits for its thread ...
LoopJoin ==
  /\ loop.at = "join"
  /\ threads[loop.join].at = "ended"
  /\ loop' = [loop EXCEPT !.at = "reconcile", !.join = 0]
  /\ Becomes(loop.join, Joined(threads[loop.join]))
  /\ UNCHANGED <<pending, faults, known, sups>>

\* ... and starts another when the camera is there and enabled
\* (montar_supervisor).
LoopStart ==
  /\ loop.at = "reconcile" /\ loop.queue # <<>>
  /\ LET c == Head(loop.queue) IN
       /\ Held(c) = {}
       /\ IF c \in DOMAIN loop.loaded /\ loop.loaded[c].enabled
          THEN LET i == Cardinality(DOMAIN threads) + 1 IN
                 /\ threads' = Put(threads, i, NewThread(c, loop.loaded[c]))
                 /\ sups' = sups \cup {i}
          ELSE UNCHANGED <<threads, sups>>
  /\ loop' = [loop EXCEPT !.queue = Tail(@)]
  /\ UNCHANGED <<pending, faults, known>>

LoopBack ==
  /\ loop.at = "reconcile" /\ loop.queue = <<>>
  /\ loop' = [loop EXCEPT !.at = "wait", !.loaded = Nothing]
  /\ UNCHANGED <<pending, faults, known, sups, threads>>

\* The loop ends: all are told to stop, and then each is waited for.
LoopEnds ==
  /\ loop.at = "wait" /\ stop
  /\ threads' = Tell(sups)
  /\ loop' = [loop EXCEPT !.at = "stopping"]
  /\ UNCHANGED <<pending, faults, known, sups>>

LoopJoinLast(i) ==
  /\ loop.at = "stopping" /\ i \in sups
  /\ threads[i].at = "ended"
  /\ sups' = sups \ {i}
  /\ Becomes(i, Joined(threads[i]))
  /\ UNCHANGED <<pending, faults, known, loop>>

LoopStopped ==
  /\ loop.at = "stopping" /\ sups = {}
  /\ loop' = [loop EXCEPT !.at = "over"]
  /\ UNCHANGED <<pending, faults, known, sups, threads>>

Loop ==
  /\ \/ LoopTake \/ LoopCameras \/ LoopKnown \/ LoopStopOne \/ LoopJoin
     \/ LoopStart \/ LoopBack \/ LoopEnds \/ LoopStopped
     \/ \E c \in Camera : LoopAddresses(c)
     \/ \E i \in sups : LoopJoinLast(i)
  /\ UNCHANGED <<Settings, stop>>

\* Ctrl+C, at any moment.
CtrlC ==
  /\ ~stop
  /\ stop' = TRUE
  /\ UNCHANGED <<db, req, faults, pending, loop, known, sups, threads>>

\* The process is gone when the main thread is.
Next ==
  /\ loop.at # "over"
  /\ (\E r \in Request : Post(r)) \/ Loop \/ CtrlC \/ (\E i \in DOMAIN threads : Sup(i))

Spec == Init /\ [][Next]_vars

\* The main thread runs when it can.  A supervisor told to stop does, as its
\* session, its wait and its loop all look at the token; a session that is not
\* may last for ever.
Ids == 1..(Cardinality(Saved) + Cardinality(Request))
FairSpec ==
  /\ Spec
  /\ WF_vars(Loop)
  /\ \A i \in Ids : WF_vars(Sup(i) /\ threads[i].stop)

-----------------------------------------------------------------------------
(* Properties *)

Cfg == [enabled : BOOLEAN, eps : UNION {[S -> Endpoint] : S \in SUBSET Ord}]

\* The type invariant; a supervisor never has more attempts than its limit.
TypeOK ==
  /\ DOMAIN db \subseteq Camera /\ \A c \in DOMAIN db : db[c] \in Cfg
  /\ \A c \in DOMAIN loop.loaded : loop.loaded[c] \in Cfg
  /\ loop.at \in {"wait", "cameras", "addresses", "reconcile", "join", "stopping", "over"}
  /\ \A r \in Request :
       req[r].at \in {"idle", "old", "delete", "insert", "done", "failed"}
  /\ known \subseteq Camera /\ sups \subseteq DOMAIN threads
  /\ DOMAIN threads \subseteq Ids
  /\ \A i \in DOMAIN threads :
       /\ threads[i].cfg \in Cfg
       /\ threads[i].at \in {"top", "session", "backoff", "ended"}
       /\ MaxAttempts > 0 => threads[i].attempts \in 0..MaxAttempts

RequestsOf(c) == {r \in Request : req[r].at # "idle" /\ req[r].camera = c}

\* No request is half way, and the loop has taken every note.
Quiet ==
  /\ \A r \in Request : req[r].at \in {"idle", "done", "failed"}
  /\ loop.at = "wait" /\ pending = <<>> /\ ~stop

\* "Vale no proximo giro do laco principal" (config_cameras_post): when nothing
\* is going on, a camera runs with what the database says of it, all of it, and
\* is known to the router, however the requests' statements fell between the
\* loop's.  A request that answered with an error may leave it otherwise.
SavedIsApplied ==
  Quiet /\ faults = 0 =>
    \A c \in Camera :
      (\A r \in RequestsOf(c) : req[r].at = "done") =>
        /\ {threads[i].cfg : i \in Held(c)} =
             IF c \in DOMAIN db /\ db[c].enabled THEN {db[c]} ELSE {}
        /\ c \in known <=> c \in DOMAIN db

\* A camera never has two threads alive, so that its recordings and its ring
\* have one session at a time ("duas sessoes gravariam o mesmo video",
\* reconciliar), nor one nobody holds and so could stop.
OneSession ==
  \A i \in DOMAIN threads :
    threads[i].at # "ended" =>
      /\ i \in sups \/ i = loop.join
      /\ \A j \in DOMAIN threads :
           threads[j].camera = threads[i].camera /\ threads[j].at # "ended" => i = j

\* A supervisor gives up only after its limit of sessions in a row that never
\* brought media, and does give up then: a camera that falls after delivering
\* is tried for ever (run, Backoff).  dry counts these sessions by themselves.
GivesUpWhenDry ==
  \A i \in DOMAIN threads :
    /\ threads[i].at = "ended" /\ ~threads[i].stop =>
         MaxAttempts > 0 /\ threads[i].dry >= MaxAttempts
    /\ MaxAttempts > 0 /\ threads[i].at \in {"backoff", "top"} =>
         threads[i].dry < MaxAttempts

\* Ctrl+C ends the server, whatever it is doing: taking a camera down to bring
\* it up, in the middle of a connection or of a wait.
EventuallyStops == stop ~> loop.at = "over"

\* What is saved is what runs once nothing is under way and no save failed.
RegisterSound == TypeOK /\ SavedIsApplied

\* "Senha em branco mantem a que havia naquela posicao"
\* (server/src/api/admin.rs:138-139): saved with a blank password and no error, the
\* first address still has the one it had.
BlankKeepsPassword ==
  \A c \in Saved :
    (\A r \in RequestsOf(c) : req[r].at = "done" /\ req[r].blank) =>
      0 \in DOMAIN db[c].eps /\ db[c].eps[0].password = "first"

=============================================================================
