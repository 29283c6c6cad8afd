------------------------------- MODULE AppLive -------------------------------
(* The live view of the app (client/src/live.rs, LiveViewer) over the cameras *)
(* registered in it (client/src/cameras.rs, CameraStore).                     *)
(*                                                                            *)
(* The page asks for one camera at a time; each of its requests runs on a     *)
(* thread of its own.  garantir looks at the current camera under the lock,   *)
(* lets the lock go, takes the current one out (locked) and stops it (not     *)
(* locked), starts the new one (not locked) and stores it (locked): two       *)
(* requests may be anywhere in it.  Storing over another one drops that one,  *)
(* which stops it.                                                            *)
EXTENDS Naturals, Sequences

CONSTANTS
  Requests,   \* the threads that serve the page
  Lists,      \* what the page may save: lists of [name, url, pass, limit]
  NoPass,     \* the password left blank
  MaxViews,   \* bound: supervisors started
  MaxSaves,   \* bound: saves by the page
  None

AppLiveAssumption ==
  /\ {MaxViews, MaxSaves} \subseteq Nat /\ None \notin Nat
  /\ \A l \in Lists : \A i \in DOMAIN l :
       DOMAIN l[i] = {"name", "url", "pass", "limit"}

VARIABLES
  saved,    \* CameraStore.cams
  sups,     \* the supervisors ever started: [cam: an entry, up: still running]
  current,  \* LiveViewer.atual: one of sups, or None
  asks,     \* what each thread is at
  writes

lvars == <<saved, sups, current, asks, writes>>

Idle == [at |-> "idle"]

Names == UNION {{l[i].name : i \in DOMAIN l} : l \in Lists}

ViewTypeOK ==
  /\ current \in DOMAIN sups \cup {None}
  /\ writes \in 0 .. MaxSaves
  /\ \A i \in DOMAIN saved : saved[i].name \in Names

ViewInit ==
  /\ saved \in Lists
  /\ sups = <<>> /\ current = None
  /\ asks = [r \in Requests |-> Idle] /\ writes = 0

At(r, stage) == asks[r].at = stage

Becomes(r, x) == asks' = [asks EXCEPT ![r] = x]

\* Supervisor::stop, and its Drop: told to stop and waited for.
Stopped(i) == [sups EXCEPT ![i].up = FALSE]

----------------------------------------------------------------------------
(* The page saves the cameras: gravar, mesclar_senhas *)

\* The registration a posted one stands for: of the same name, or in the same
\* place of a list as long.
StandsFor(new, i) ==
  LET named == {j \in DOMAIN saved : saved[j].name = new[i].name}
  IN  CASE named /= {} -> CHOOSE j \in named : \A k \in named : j <= k
        [] named = {} /\ Len(new) = Len(saved) -> i
        [] OTHER -> None

\* A password left blank is the one that was there.
Merged(new) ==
  [i \in DOMAIN new |->
     IF new[i].pass = NoPass /\ StandsFor(new, i) /= None
       THEN [new[i] EXCEPT !.pass = saved[StandsFor(new, i)].pass]
       ELSE new[i]]

\* The file and the list are replaced under one lock; what is being watched is
\* not told.
SaveCameras(new) ==
  /\ writes < MaxSaves /\ writes' = writes + 1
  /\ saved' = Merged(new)
  /\ UNCHANGED <<sups, current, asks>>

----------------------------------------------------------------------------
(* A live request: App::live, garantir, live_fragment *)

\* live: the camera as it is registered now.
Ask(r, c) ==
  /\ At(r, "idle")
  /\ \E i \in DOMAIN saved :
       /\ saved[i].name = c /\ \A j \in 1 .. i - 1 : saved[j].name /= c
       /\ Becomes(r, [at |-> "look", cam |-> saved[i]])
  /\ UNCHANGED <<saved, sups, current, writes>>

\* garantir, locked: the current camera goes by its name.
Look(r) ==
  /\ At(r, "look")
  /\ Becomes(r, IF current /= None /\ sups[current].cam.name = asks[r].cam.name
                  THEN [at |-> "wait", on |-> current]
                  ELSE [asks[r] EXCEPT !.at = "take"])
  /\ UNCHANGED <<saved, sups, current, writes>>

\* parar, locked: the current one is taken out.
Take(r) ==
  /\ At(r, "take")
  /\ current' = None
  /\ Becomes(r, [at |-> "stop", cam |-> asks[r].cam, old |-> current])
  /\ UNCHANGED <<saved, sups, writes>>

\* parar: stopped and waited for, with no lock.
StopOld(r) ==
  /\ At(r, "stop")
  /\ sups' = IF asks[r].old = None THEN sups ELSE Stopped(asks[r].old)
  /\ Becomes(r, IF asks[r].cam = None THEN Idle ELSE [at |-> "start", cam |-> asks[r].cam])
  /\ UNCHANGED <<saved, current, writes>>

\* A supervisor for the camera as the request found it.
StartNew(r) ==
  /\ At(r, "start") /\ Len(sups) < MaxViews
  /\ sups' = Append(sups, [cam |-> asks[r].cam, up |-> TRUE])
  /\ Becomes(r, [at |-> "store", new |-> Len(sups) + 1])
  /\ UNCHANGED <<saved, current, writes>>

\* Wrong on purpose: what another request stored is forgotten, not dropped.
StoreForgets(r) ==
  /\ At(r, "store")
  /\ UNCHANGED sups
  /\ current' = asks[r].new
  /\ Becomes(r, [at |-> "wait", on |-> asks[r].new])
  /\ UNCHANGED <<saved, writes>>

\* Stored, locked: what another request stored meanwhile is dropped, and so
\* stopped.
Store(r) ==
  /\ At(r, "store")
  /\ sups' = IF current = None THEN sups ELSE Stopped(current)
  /\ current' = asks[r].new
  /\ Becomes(r, [at |-> "wait", on |-> asks[r].new])
  /\ UNCHANGED <<saved, writes>>

\* live_fragment: a fragment, or nothing once the wait is over.
Answer(r) ==
  /\ At(r, "wait") /\ Becomes(r, Idle)
  /\ UNCHANGED <<saved, sups, current, writes>>

\* encerrar, on leaving: the current one is taken out and stopped.
Close(r) ==
  /\ At(r, "idle")
  /\ Becomes(r, [at |-> "take", cam |-> None])
  /\ UNCHANGED <<saved, sups, current, writes>>

\* Supervisor::run, at the camera's limit of failed attempts: it ends by itself.
GivesUp(i) ==
  /\ sups[i].up /\ sups[i].cam.limit > 0
  /\ sups' = Stopped(i)
  /\ UNCHANGED <<saved, current, asks, writes>>

ViewNext ==
  \/ \E r \in Requests :
       \/ \E c \in Names : Ask(r, c)
       \/ Look(r) \/ Take(r) \/ StopOld(r) \/ StartNew(r) \/ Store(r) \/ Answer(r) \/ Close(r)
  \/ \E new \in Lists : SaveCameras(new)
  \/ \E i \in DOMAIN sups : GivesUp(i)

ViewSpec == ViewInit /\ [][ViewNext]_lvars

----------------------------------------------------------------------------
(* Correctness *)

Held(r) == {i \in DOMAIN sups : \/ At(r, "stop") /\ asks[r].old = i
                                \/ At(r, "store") /\ asks[r].new = i}

\* However the page's requests interleave, a supervisor that runs is the one
\* being watched or is in the hands of a request about to stop or to store it:
\* none is left connected to a camera with nobody to stop it.
NoneLeftRunning ==
  \A i \in DOMAIN sups :
    sups[i].up => i = current \/ \E r \in Requests : i \in Held(r)

\* What is watched is what is registered.
WatchesTheSaved ==
  current /= None =>
    \/ \E i \in DOMAIN saved : saved[i] = sups[current].cam
    \/ \A i \in DOMAIN saved : saved[i].name /= sups[current].cam.name

\* A request that finds its camera current finds it connected or trying.
WaitsOnTheLiving ==
  \A r \in Requests : At(r, "wait") /\ asks[r].on = current => sups[current].up
=============================================================================
