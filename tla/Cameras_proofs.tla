--------------------------- MODULE Cameras_proofs ---------------------------
(***************************************************************************)
(* Proofs about the supervisors, for any cameras, requests and limits: a    *)
(* camera never has two threads alive, a thread gives up exactly when its   *)
(* sessions brought nothing as often as the limit says, and what runs once  *)
(* everything has settled is what was saved.                                *)
(***************************************************************************)
EXTENDS Cameras, FiniteSetTheorems, SequenceTheorems, TLAPS

-----------------------------------------------------------------------------
(* The shape of what the main thread holds *)

Place == {"top", "session", "backoff", "ended"}

\* The threads whose camera is in C and whose configuration is in G.
Thread(C, G) ==
  [camera : C, cfg : G, at : Place, stop : BOOLEAN, media : BOOLEAN,
   attempts : Nat, dry : Nat]

IsThread(t) == \E C, G : t \in Thread(C, G)

\* Threads have the ids 1, 2, ... in the order they began.
Shape == \E n \in Nat : \E C, G : threads \in [1..n -> Thread(C, G)]

IsLoop(l) == \E A, Q, L, T, J : l \in [at : A, queue : Q, loaded : L, todo : T, join : J]

\* The supervisors the main thread has, with the one it is waiting for.
Mine == sups \cup (IF loop.at = "join" THEN {loop.join} ELSE {})

Alive(i) == threads[i].at # "ended"

\* A thread alive is one of the main thread's, and no two of these are of one
\* camera.
Owned ==
  /\ Mine \subseteq DOMAIN threads
  /\ \A i \in DOMAIN threads : Alive(i) => i \in Mine
  /\ \A i, j \in Mine : threads[i].camera = threads[j].camera => i = j

\* The count a thread keeps is the one of its sessions without media.
Counted(t) ==
  /\ t.at # "ended" => (MaxAttempts > 0 => t.attempts < MaxAttempts)
  /\ MaxAttempts > 0 => t.attempts <= MaxAttempts
  /\ t.at \in {"top", "backoff"} => t.dry = t.attempts /\ ~t.media
  /\ t.at = "session" => t.dry = (IF t.media THEN 0 ELSE t.attempts)
  /\ t.at = "ended" /\ ~t.stop => MaxAttempts > 0 /\ t.dry >= MaxAttempts

AllCounted == \A i \in DOMAIN threads : Counted(threads[i])

LEMMA NewIsThread ==
  ASSUME NEW c, NEW cfg
  PROVE  /\ NewThread(c, cfg) \in Thread({c}, {cfg})
         /\ Counted(NewThread(c, cfg))
         /\ NewThread(c, cfg).camera = c /\ NewThread(c, cfg).cfg = cfg
BY CamerasAssumption DEF Thread, Place, NewThread, Counted

LEMMA JoinedIsThread ==
  ASSUME NEW C, NEW G, NEW t \in Thread(C, G)
  PROVE  /\ Joined(t) \in Thread(C, G \cup {FirstCfg})
         /\ Joined(t).camera = t.camera
         /\ Joined(t).at = "ended" /\ Joined(t).cfg = FirstCfg /\ Counted(Joined(t))
<1> DEFINE n == NewThread(t.camera, FirstCfg)
<1>1. n \in Thread(C, G \cup {FirstCfg}) /\ n.camera = t.camera /\ n.cfg = FirstCfg
      /\ n.attempts = 0
  BY DEF Thread, Place, NewThread
<1> HIDE DEF n
<1>2. [n EXCEPT !.at = "ended", !.stop = TRUE] \in Thread(C, G \cup {FirstCfg})
  BY <1>1 DEF Thread, Place
<1>3. /\ [n EXCEPT !.at = "ended", !.stop = TRUE].camera = t.camera
      /\ [n EXCEPT !.at = "ended", !.stop = TRUE].at = "ended"
      /\ [n EXCEPT !.at = "ended", !.stop = TRUE].cfg = FirstCfg
      /\ [n EXCEPT !.at = "ended", !.stop = TRUE].attempts = 0
      /\ [n EXCEPT !.at = "ended", !.stop = TRUE].stop = TRUE
  BY <1>1 DEF Thread, Place
<1>4. Joined(t) = [n EXCEPT !.at = "ended", !.stop = TRUE]
  BY DEF Joined, n
<1> QED
  BY <1>2, <1>3, <1>4, CamerasAssumption DEF Counted

LEMMA StartShape ==
  ASSUME Init
  PROVE  Shape /\ IsLoop(loop) /\ Owned /\ AllCounted
<1>1. Cardinality(Saved) \in Nat
  BY CamerasAssumption, FS_CardinalityType
<1>2. /\ threads \in [1..Cardinality(Saved) -> {NewThread(c, FirstCfg) : c \in Saved}]
      /\ sups = DOMAIN threads
  BY DEF Init
<1>3. ASSUME NEW i \in DOMAIN threads
      PROVE  \E c \in Saved : threads[i] = NewThread(c, FirstCfg)
  BY <1>2, <1>3
<1>4. \A i \in DOMAIN threads :
        threads[i] \in Thread(Saved, {FirstCfg}) /\ Counted(threads[i])
  <2> SUFFICES ASSUME NEW i \in DOMAIN threads
               PROVE  threads[i] \in Thread(Saved, {FirstCfg}) /\ Counted(threads[i])
    OBVIOUS
  <2>1. PICK c \in Saved : threads[i] = NewThread(c, FirstCfg)
    BY <1>3
  <2>2. threads[i] \in Thread({c}, {FirstCfg}) /\ Counted(threads[i])
    BY <2>1, NewIsThread
  <2> QED
    BY <2>2 DEF Thread
<1>5. threads \in [1..Cardinality(Saved) -> Thread(Saved, {FirstCfg})]
  BY <1>2, <1>4
<1>6. loop \in [at : {"wait"}, queue : {<<>>}, loaded : {Nothing}, todo : {{}}, join : {0}]
  BY DEF Init
<1>7. loop.at = "wait" /\ IsLoop(loop)
  BY <1>6 DEF IsLoop
<1>8. \A i, j \in sups : threads[i].camera = threads[j].camera => i = j
  BY <1>2 DEF Init
<1> QED
  BY <1>1, <1>2, <1>4, <1>5, <1>7, <1>8 DEF Shape, Owned, Mine, AllCounted

-----------------------------------------------------------------------------
(* Steps that change one thread *)

LEMMA OneBecomes ==
  ASSUME NEW n \in Nat, NEW C, NEW G, threads \in [1..n -> Thread(C, G)],
         NEW i \in DOMAIN threads, NEW t \in Thread(C, G), Becomes(i, t)
  PROVE  /\ Shape' /\ DOMAIN threads' = DOMAIN threads
         /\ threads'[i] = t
         /\ \A k \in DOMAIN threads : k # i => threads'[k] = threads[k]
<1>1. threads' \in [1..n -> Thread(C, G)]
  BY DEF Becomes
<1>2. Shape'
  BY <1>1 DEF Shape
<1> QED
  BY <1>1, <1>2 DEF Becomes

LEMMA SetAt ==
  ASSUME NEW C, NEW G, NEW r \in Thread(C, G), NEW a \in Place
  PROVE  LET t == [r EXCEPT !.at = a] IN
         /\ t \in Thread(C, G)
         /\ t.camera = r.camera /\ t.cfg = r.cfg /\ t.at = a /\ t.stop = r.stop
         /\ t.media = r.media /\ t.attempts = r.attempts /\ t.dry = r.dry
BY DEF Thread

\* A step of one supervisor's thread.
LEMMA SupStep ==
  ASSUME Shape, AllCounted, NEW i \in DOMAIN threads, Sup(i)
  PROVE  /\ Shape' /\ AllCounted' /\ DOMAIN threads' = DOMAIN threads
         /\ \A k \in DOMAIN threads :
              /\ threads'[k].camera = threads[k].camera
              /\ threads'[k].cfg = threads[k].cfg
              /\ threads'[k].at # "ended" => Alive(k)
<1>0. PICK n \in Nat : \E C, G : threads \in [1..n -> Thread(C, G)]
  BY DEF Shape
<1>1. PICK C, G : threads \in [1..n -> Thread(C, G)]
  BY <1>0
<1> DEFINE T == Thread(C, G)
           r == threads[i]
<1>2. r \in T /\ Counted(r)
  BY <1>1 DEF AllCounted
<1>3. r.at \in Place /\ r.stop \in BOOLEAN /\ r.media \in BOOLEAN
      /\ r.attempts \in Nat /\ r.dry \in Nat
  BY <1>2 DEF Thread
<1>4. \E t \in T : /\ Becomes(i, t) /\ t.camera = r.camera /\ t.cfg = r.cfg
                   /\ Counted(t) /\ r.at # "ended"
  <2>1. CASE SupTop(i)
    <3> DEFINE a == IF r.stop THEN "ended" ELSE "session"
               t == [r EXCEPT !.at = a]
    <3>1. a \in Place /\ r.at = "top" /\ Becomes(i, t)
      BY <2>1 DEF SupTop, Place
    <3>2. a = "ended" => r.stop
      BY <1>3
    <3>3. a = "session" \/ a = "ended"
      BY <1>3
    <3> HIDE DEF a
    <3>4. /\ t \in T /\ t.camera = r.camera /\ t.cfg = r.cfg /\ t.at = a /\ t.stop = r.stop
          /\ t.media = r.media /\ t.attempts = r.attempts /\ t.dry = r.dry
      BY <1>2, <3>1, SetAt
    <3> HIDE DEF t
    <3>5. Counted(t)
      BY <1>2, <1>3, <3>1, <3>2, <3>3, <3>4 DEF Counted
    <3> QED
      BY <3>1, <3>4, <3>5
  <2>2. CASE SupMedia(i)
    <3> DEFINE t == [r EXCEPT !.media = TRUE, !.dry = 0]
    <3>1. Becomes(i, t) /\ r.at = "session"
      BY <2>2 DEF SupMedia
    <3>2. /\ t \in T /\ t.camera = r.camera /\ t.cfg = r.cfg /\ t.at = r.at /\ t.stop = r.stop
          /\ t.media = TRUE /\ t.attempts = r.attempts /\ t.dry = 0
      BY <1>2 DEF Thread
    <3> HIDE DEF t
    <3>3. Counted(t)
      BY <1>2, <3>1, <3>2 DEF Counted
    <3> QED
      BY <3>1, <3>2, <3>3
  <2>3. CASE SupCycleEnds(i)
    <3>1. PICK clean \in {FALSE, r.stop} :
            LET n1 == AttemptsAfter(i, clean) IN
            Becomes(i, [r EXCEPT
              !.at = IF r.stop \/ GivesUp(n1) THEN "ended" ELSE "backoff",
              !.attempts = n1, !.media = FALSE,
              !.dry = IF r.media THEN 0 ELSE r.dry + 1])
      BY <2>3, Zenon DEF SupCycleEnds
    <3> DEFINE n1 == AttemptsAfter(i, clean)
               a == IF r.stop \/ GivesUp(n1) THEN "ended" ELSE "backoff"
               d == IF r.media THEN 0 ELSE r.dry + 1
               t == [r EXCEPT !.at = a, !.attempts = n1, !.media = FALSE, !.dry = d]
    <3>2. Becomes(i, t) /\ r.at = "session"
      BY <2>3, <3>1, Zenon DEF SupCycleEnds
    <3>3. n1 = 0 \/ n1 = r.attempts + 1
      BY DEF AttemptsAfter
    <3>4. r.media => n1 = 0
      BY DEF AttemptsAfter
    <3>5. ~r.media /\ ~r.stop => n1 = r.attempts + 1
      BY DEF AttemptsAfter
    <3>6. (r.media => d = 0) /\ (~r.media => d = r.dry + 1)
      OBVIOUS
    <3>7. /\ a = "ended" /\ ~r.stop => GivesUp(n1)
          /\ a = "backoff" => ~r.stop /\ ~GivesUp(n1)
          /\ a = "ended" \/ a = "backoff"
      BY Zenon
    <3> HIDE DEF n1, a, d
    <3>8. n1 \in Nat /\ d \in Nat /\ a \in Place
      BY <1>3, <3>3, <3>6, <3>7 DEF Place
    <3>9. ~r.stop => d = n1
      BY <1>2, <1>3, <3>2, <3>4, <3>5, <3>6 DEF Counted
    <3>10. /\ t \in T /\ t.camera = r.camera /\ t.cfg = r.cfg /\ t.at = a /\ t.stop = r.stop
           /\ t.media = FALSE /\ t.attempts = n1 /\ t.dry = d
      <4> HIDE DEF r
      <4> QED
        BY <1>2, <3>8 DEF Thread
    <3> HIDE DEF t
    <3>11. Counted(t)
      <4>0. MaxAttempts > 0 => t.attempts <= MaxAttempts
        BY <1>2, <1>3, <3>2, <3>3, <3>10, CamerasAssumption DEF Counted
      <4>1. CASE a = "ended"
        <5>1. ~t.stop => MaxAttempts > 0 /\ t.dry >= MaxAttempts
          BY <3>7, <3>9, <3>10, <4>1 DEF GivesUp
        <5> QED
          BY <3>10, <4>0, <4>1, <5>1 DEF Counted
      <4>2. CASE a = "backoff"
        <5>1. MaxAttempts > 0 => t.attempts < MaxAttempts
          BY <3>7, <3>8, <3>10, <4>2, CamerasAssumption DEF GivesUp
        <5>2. t.dry = t.attempts
          BY <3>7, <3>9, <3>10, <4>2
        <5> QED
          BY <3>10, <4>0, <4>2, <5>1, <5>2 DEF Counted
      <4> QED
        BY <3>7, <4>1, <4>2
    <3> QED
      BY <3>2, <3>10, <3>11
  <2>4. CASE SupBackoffEnds(i)
    <3> DEFINE t == [r EXCEPT !.at = "top"]
    <3>1. Becomes(i, t) /\ r.at = "backoff"
      BY <2>4 DEF SupBackoffEnds
    <3>2. /\ t \in T /\ t.camera = r.camera /\ t.cfg = r.cfg /\ t.at = "top" /\ t.stop = r.stop
          /\ t.media = r.media /\ t.attempts = r.attempts /\ t.dry = r.dry
      <4>1. "top" \in Place
        BY DEF Place
      <4> QED
        BY <1>2, <4>1, SetAt
    <3> HIDE DEF t
    <3>3. Counted(t)
      BY <1>2, <3>1, <3>2 DEF Counted
    <3> QED
      BY <3>1, <3>2, <3>3
  <2> QED
    BY <2>1, <2>2, <2>3, <2>4 DEF Sup
<1>5. PICK t \in T : Becomes(i, t) /\ t.camera = r.camera /\ t.cfg = r.cfg /\ Counted(t) /\ r.at # "ended"
  BY <1>4
<1>6. /\ Shape' /\ DOMAIN threads' = DOMAIN threads /\ threads'[i] = t
      /\ \A k \in DOMAIN threads : k # i => threads'[k] = threads[k]
  BY <1>1, <1>5, OneBecomes
<1>7. AllCounted'
  BY <1>5, <1>6 DEF AllCounted, Counted
<1> QED
  BY <1>5, <1>6, <1>7 DEF Alive

-----------------------------------------------------------------------------
(* The main thread's own place *)

LEMMA LoopKeepsShape ==
  ASSUME IsLoop(loop), [Loop]_loop
  PROVE  IsLoop(loop)'
<1>1. PICK A, Q, L, T, J :
        loop \in [at : A, queue : Q, loaded : L, todo : T, join : J]
  BY DEF IsLoop
<1> DEFINE Within(a, q, l, t, j) ==
             loop' \in [at : A \cup {a}, queue : Q \cup {q}, loaded : L \cup {l},
                        todo : T \cup {t}, join : J \cup {j}]
<1>2. ASSUME NEW a, NEW q, NEW l, NEW t, NEW j, Within(a, q, l, t, j)
      PROVE  IsLoop(loop)'
  <2> DEFINE A1 == A \cup {a}
             Q1 == Q \cup {q}
             L1 == L \cup {l}
             T1 == T \cup {t}
             J1 == J \cup {j}
  <2>1. loop' \in [at : A1, queue : Q1, loaded : L1, todo : T1, join : J1]
    BY <1>2
  <2> HIDE DEF A1, Q1, L1, T1, J1
  <2> QED
    BY <2>1 DEF IsLoop
<1>3. CASE LoopTake
  <2>1. Within("cameras", pending, 0, 0, 0)
    BY <1>1, <1>3 DEF LoopTake
  <2> QED
    BY <1>2, <2>1
<1>4. CASE LoopCameras
  <2>1. PICK cs, loaded : loop' = [loop EXCEPT !.at = "addresses", !.todo = cs, !.loaded = loaded]
    BY <1>4 DEF LoopCameras
  <2>2. Within("addresses", 0, loaded, cs, 0)
    BY <1>1, <2>1
  <2> QED
    BY <1>2, <2>2
<1>5. ASSUME NEW c, LoopAddresses(c)
      PROVE  IsLoop(loop)'
  <2>1. PICK eps : loop' = [loop EXCEPT !.todo = @ \ {c}, !.loaded[c].eps = eps]
    BY <1>5 DEF LoopAddresses
  <2> DEFINE v == [loop.loaded EXCEPT ![c].eps = eps]
  <2>2. loop' = [loop EXCEPT !.todo = @ \ {c}, !.loaded = v]
    BY <1>1, <2>1
  <2> HIDE DEF v
  <2>3. Within(0, 0, v, loop.todo \ {c}, 0)
    BY <1>1, <2>2
  <2> QED
    BY <1>2, <2>3
<1>6. CASE LoopKnown
  <2>1. Within("reconcile", 0, 0, 0, 0)
    BY <1>1, <1>6 DEF LoopKnown
  <2> QED
    BY <1>2, <2>1
<1>7. CASE LoopStopOne
  <2>1. PICK i : loop' = [loop EXCEPT !.at = "join", !.join = i]
    BY <1>7 DEF LoopStopOne
  <2>2. Within("join", 0, 0, 0, i)
    BY <1>1, <2>1
  <2> QED
    BY <1>2, <2>2
<1>8. CASE LoopJoin
  <2>1. Within("reconcile", 0, 0, 0, 0)
    BY <1>1, <1>8 DEF LoopJoin
  <2> QED
    BY <1>2, <2>1
<1>9. CASE LoopStart
  <2>1. loop' = [loop EXCEPT !.queue = Tail(@)]
    BY <1>9 DEF LoopStart
  <2>2. Within(0, Tail(loop.queue), 0, 0, 0)
    BY <1>1, <2>1
  <2> QED
    BY <1>2, <2>2
<1>10. CASE LoopBack
  <2>1. Within("wait", 0, Nothing, 0, 0)
    BY <1>1, <1>10 DEF LoopBack
  <2> QED
    BY <1>2, <2>1
<1>11. CASE LoopEnds
  <2>1. Within("stopping", 0, 0, 0, 0)
    BY <1>1, <1>11 DEF LoopEnds
  <2> QED
    BY <1>2, <2>1
<1>12. CASE LoopStopped
  <2>1. Within("over", 0, 0, 0, 0)
    BY <1>1, <1>12 DEF LoopStopped
  <2> QED
    BY <1>2, <2>1
<1>13. CASE UNCHANGED loop \/ \E i \in sups : LoopJoinLast(i)
  BY <1>13 DEF LoopJoinLast
<1> QED
  BY <1>3, <1>4, <1>5, <1>6, <1>7, <1>8, <1>9, <1>10, <1>11, <1>12, <1>13 DEF Loop

-----------------------------------------------------------------------------
(* What the main thread does to the threads *)

\* They are told to stop.
LEMMA TellKeeps ==
  ASSUME Shape, AllCounted, NEW S, threads' = Tell(S)
  PROVE  /\ Shape' /\ AllCounted' /\ DOMAIN threads' = DOMAIN threads
         /\ \A k \in DOMAIN threads :
              /\ threads'[k].camera = threads[k].camera
              /\ threads'[k].cfg = threads[k].cfg
              /\ threads'[k].at = threads[k].at
<1>0. PICK n \in Nat : \E C, G : threads \in [1..n -> Thread(C, G)]
  BY DEF Shape
<1>1. PICK C, G : threads \in [1..n -> Thread(C, G)]
  BY <1>0
<1>2. ASSUME NEW r \in Thread(C, G), Counted(r)
      PROVE  LET t == [r EXCEPT !.stop = TRUE] IN
             /\ t \in Thread(C, G) /\ Counted(t)
             /\ t.camera = r.camera /\ t.cfg = r.cfg /\ t.at = r.at
  <2> DEFINE t == [r EXCEPT !.stop = TRUE]
  <2>1. /\ t \in Thread(C, G) /\ t.camera = r.camera /\ t.cfg = r.cfg /\ t.at = r.at
        /\ t.stop = TRUE /\ t.media = r.media
        /\ t.attempts = r.attempts /\ t.dry = r.dry
    BY DEF Thread
  <2> HIDE DEF t
  <2>2. Counted(t)
    BY <1>2, <2>1 DEF Counted
  <2> QED
    BY <2>1, <2>2 DEF t
<1>3. /\ DOMAIN threads' = 1..n /\ DOMAIN threads = 1..n
      /\ threads' = [k \in 1..n |-> threads'[k]]
  BY <1>1 DEF Tell
<1>4. ASSUME NEW k \in 1..n
      PROVE  /\ threads'[k] \in Thread(C, G) /\ Counted(threads'[k])
             /\ threads'[k].camera = threads[k].camera
             /\ threads'[k].cfg = threads[k].cfg
             /\ threads'[k].at = threads[k].at
  <2>1. threads[k] \in Thread(C, G) /\ Counted(threads[k])
    BY <1>1, <1>3 DEF AllCounted
  <2>2. CASE k \in S
    <3>1. threads'[k] = [threads[k] EXCEPT !.stop = TRUE]
      BY <1>3, <2>2 DEF Tell
    <3> QED
      BY <1>2, <2>1, <3>1
  <2>3. CASE k \notin S
    BY <1>3, <2>1, <2>3 DEF Tell
  <2> QED
    BY <2>2, <2>3
<1>5. threads' \in [1..n -> Thread(C, G)]
  BY <1>3, <1>4
<1>6. Shape'
  BY <1>5 DEF Shape
<1> QED
  BY <1>3, <1>4, <1>6 DEF AllCounted

\* One that ended is waited for.
LEMMA JoinKeeps ==
  ASSUME Shape, AllCounted, NEW i \in DOMAIN threads,
         Becomes(i, Joined(threads[i]))
  PROVE  /\ Shape' /\ AllCounted' /\ DOMAIN threads' = DOMAIN threads
         /\ \A k \in DOMAIN threads :
              /\ threads'[k].camera = threads[k].camera
              /\ k # i => threads'[k].at = threads[k].at /\ threads'[k].cfg = threads[k].cfg
         /\ threads'[i].at = "ended" /\ threads'[i].cfg = FirstCfg
<1>0. PICK n \in Nat : \E C, G : threads \in [1..n -> Thread(C, G)]
  BY DEF Shape
<1>1. PICK C, G : threads \in [1..n -> Thread(C, G)]
  BY <1>0
<1> DEFINE H == G \cup {FirstCfg}
           t == Joined(threads[i])
<1>2. threads \in [1..n -> Thread(C, H)]
  <2>1. \A k \in 1..n : threads[k] \in Thread(C, H)
    BY <1>1 DEF Thread
  <2> QED
    BY <1>1, <2>1
<1>3. threads[i] \in Thread(C, G)
  BY <1>1
<1>4. t \in Thread(C, H) /\ t.camera = threads[i].camera /\ t.at = "ended" /\ t.cfg = FirstCfg /\ Counted(t)
  <2> DEFINE r == threads[i]
  <2>1. r \in Thread(C, G)
    BY <1>3
  <2> HIDE DEF r
  <2>2. /\ Joined(r) \in Thread(C, G \cup {FirstCfg}) /\ Joined(r).camera = r.camera
        /\ Joined(r).at = "ended" /\ Joined(r).cfg = FirstCfg /\ Counted(Joined(r))
    BY <2>1, JoinedIsThread, Zenon
  <2> QED
    BY <2>2 DEF r
<1>5. Becomes(i, t)
  OBVIOUS
<1> HIDE DEF t, H
<1>6. /\ Shape' /\ DOMAIN threads' = DOMAIN threads /\ threads'[i] = t
      /\ \A k \in DOMAIN threads : k # i => threads'[k] = threads[k]
  BY <1>2, <1>4, <1>5, OneBecomes
<1>7. AllCounted'
  BY <1>4, <1>6 DEF AllCounted, Counted
<1> QED
  BY <1>4, <1>6, <1>7

\* One begins, as the next id.
LEMMA StartKeeps ==
  ASSUME Shape, AllCounted, NEW i, NEW t, \E c, g : t = NewThread(c, g),
         i = Cardinality(DOMAIN threads) + 1,
         threads' = Put(threads, i, t)
  PROVE  /\ Shape' /\ AllCounted' /\ DOMAIN threads' = DOMAIN threads \cup {i}
         /\ i \notin DOMAIN threads
         /\ \A k \in DOMAIN threads : threads'[k] = threads[k]
         /\ threads'[i] = t
<1>0. PICK n \in Nat : \E C, G : threads \in [1..n -> Thread(C, G)]
  BY DEF Shape
<1>1. PICK C, G : threads \in [1..n -> Thread(C, G)]
  BY <1>0
<1>c. PICK c, g : t = NewThread(c, g)
  OBVIOUS
<1> DEFINE D == C \cup {c}
           H == G \cup {g}
<1>2. Cardinality(1..n) = n
  BY <1>1, FS_Interval
<1>3. i = n + 1 /\ DOMAIN threads = 1..n /\ DOMAIN threads \cup {i} = 1..(n + 1)
  BY <1>1, <1>2
<1>4. t \in Thread(D, H) /\ Counted(t) /\ t.camera = c /\ t.cfg = g
  <2>1. t \in Thread({c}, {g}) /\ Counted(t) /\ t.camera = c /\ t.cfg = g
    BY <1>c, NewIsThread
  <2> QED
    BY <2>1 DEF Thread
<1>5. threads' = [k \in 1..(n + 1) |-> IF k = i THEN t ELSE threads[k]]
  BY <1>3 DEF Put
<1>6. \A k \in 1..n : threads'[k] = threads[k] /\ threads[k] \in Thread(D, H)
  <2>1. \A k \in 1..n : threads[k] \in Thread(D, H)
    BY <1>1 DEF Thread
  <2> HIDE DEF D, H
  <2> QED
    BY <1>3, <1>5, <2>1
<1>7. threads'[i] = t
  BY <1>3, <1>5
<1>8. threads' \in [1..(n + 1) -> Thread(D, H)]
  <2> HIDE DEF D, H
  <2> QED
    BY <1>3, <1>4, <1>5, <1>6
<1>9. Shape'
  <2> HIDE DEF D, H
  <2> QED
    BY <1>8 DEF Shape
<1>10. AllCounted'
  BY <1>3, <1>4, <1>5, <1>6, <1>7 DEF AllCounted
<1>11. DOMAIN threads' = DOMAIN threads \cup {i} /\ i \notin DOMAIN threads
  <2>1. DOMAIN threads' = 1..(n + 1)
    BY <1>5
  <2>2. i \notin DOMAIN threads
    BY <1>3
  <2> QED
    BY <1>3, <2>1, <2>2
<1>12. \A k \in DOMAIN threads : threads'[k] = threads[k]
  BY <1>3, <1>6
<1> QED
  BY <1>7, <1>9, <1>10, <1>11, <1>12

-----------------------------------------------------------------------------
(* The invariant, and what follows from it *)

IInv == Shape /\ IsLoop(loop) /\ Owned /\ AllCounted

\* The threads' owner changes only in the main thread.
LEMMA LoopKeeps ==
  ASSUME IInv, Loop
  PROVE  IInv'
<1>1. IsLoop(loop)'
  BY LoopKeepsShape DEF IInv
<1>2. PICK A, Q, L, T, J :
        loop \in [at : A, queue : Q, loaded : L, todo : T, join : J]
  BY DEF IInv, IsLoop
<1>3. CASE LoopTake \/ LoopCameras \/ (\E c \in Camera : LoopAddresses(c))
           \/ LoopKnown \/ LoopBack \/ LoopStopped
  <2>1. threads' = threads /\ sups' = sups
    BY <1>3 DEF LoopTake, LoopCameras, LoopAddresses, LoopKnown, LoopBack, LoopStopped
  <2>2. loop.at # "join"
    BY <1>3 DEF LoopTake, LoopCameras, LoopAddresses, LoopKnown, LoopBack, LoopStopped
  <2>3. loop'.at # "join"
    <3>1. CASE LoopTake \/ LoopKnown \/ LoopBack \/ LoopStopped
      BY <1>2, <3>1 DEF LoopTake, LoopKnown, LoopBack, LoopStopped
    <3>2. CASE LoopCameras
      <4>1. PICK cs, loaded :
              loop' = [loop EXCEPT !.at = "addresses", !.todo = cs, !.loaded = loaded]
        BY <3>2 DEF LoopCameras
      <4> QED
        BY <1>2, <4>1
    <3>3. ASSUME NEW c \in Camera, LoopAddresses(c)
          PROVE  loop'.at # "join"
      <4>1. PICK eps : loop' = [loop EXCEPT !.todo = @ \ {c}, !.loaded[c].eps = eps]
        BY <3>3 DEF LoopAddresses
      <4>2. loop'.at = loop.at
        BY <1>2, <4>1
      <4> QED
        BY <4>2, <2>2
    <3> QED
      BY <1>3, <3>1, <3>2, <3>3
  <2>4. Mine' = Mine
    BY <2>1, <2>2, <2>3 DEF Mine
  <2> QED
    BY <1>1, <2>1, <2>4 DEF IInv, Shape, Owned, AllCounted, Alive
<1>4. CASE LoopStopOne
  <2>1. PICK i \in Held(Head(loop.queue)) :
          /\ sups' = sups \ {i} /\ threads' = Tell({i})
          /\ loop' = [loop EXCEPT !.at = "join", !.join = i]
    BY <1>4 DEF LoopStopOne
  <2>2. i \in sups /\ loop.at = "reconcile" /\ loop'.at = "join" /\ loop'.join = i
    BY <1>2, <1>4, <2>1 DEF LoopStopOne, Held
  <2>3. Mine' = Mine
    BY <2>1, <2>2 DEF Mine
  <2>4. /\ Shape' /\ AllCounted' /\ DOMAIN threads' = DOMAIN threads
        /\ \A k \in DOMAIN threads :
             threads'[k].camera = threads[k].camera /\ threads'[k].at = threads[k].at
    BY <2>1, TellKeeps DEF IInv
  <2> QED
    BY <1>1, <2>3, <2>4 DEF IInv, Owned, Alive
<1>5. CASE LoopJoin
  <2> DEFINE i == loop.join
  <2>1. /\ loop.at = "join" /\ loop'.at = "reconcile" /\ sups' = sups
        /\ Becomes(i, Joined(threads[i]))
    BY <1>2, <1>5 DEF LoopJoin
  <2>2. Mine = sups \cup {i} /\ Mine' = sups
    BY <2>1 DEF Mine
  <2>3. i \in DOMAIN threads
    BY <2>2 DEF IInv, Owned
  <2>4. /\ Shape' /\ AllCounted' /\ DOMAIN threads' = DOMAIN threads
        /\ \A k \in DOMAIN threads :
             /\ threads'[k].camera = threads[k].camera
             /\ k # i => threads'[k].at = threads[k].at
        /\ threads'[i].at = "ended"
    BY <2>1, <2>3, JoinKeeps DEF IInv
  <2> QED
    BY <1>1, <2>2, <2>4 DEF IInv, Owned, Alive
<1>6. CASE LoopStart
  <2> DEFINE c == Head(loop.queue)
             i == Cardinality(DOMAIN threads) + 1
  <2>1. loop.at = "reconcile" /\ loop'.at = "reconcile" /\ Held(c) = {}
    BY <1>2, <1>6 DEF LoopStart
  <2>2. Mine = sups /\ Mine' = sups'
    BY <2>1 DEF Mine
  <2>3. CASE UNCHANGED <<threads, sups>>
    BY <1>1, <2>2, <2>3 DEF IInv, Shape, Owned, AllCounted, Alive
  <2>4. CASE /\ threads' = Put(threads, i, NewThread(c, loop.loaded[c]))
             /\ sups' = sups \cup {i}
    <3> HIDE DEF i
    <3>0. /\ i = Cardinality(DOMAIN threads) + 1 /\ Shape /\ AllCounted
          /\ threads' = Put(threads, i, NewThread(c, loop.loaded[c]))
      BY <2>4 DEF i, IInv
    <3>1. /\ Shape' /\ AllCounted' /\ DOMAIN threads' = DOMAIN threads \cup {i}
          /\ i \notin DOMAIN threads
          /\ \A k \in DOMAIN threads : threads'[k] = threads[k]
          /\ threads'[i].camera = c
      <4> DEFINE t == NewThread(c, loop.loaded[c])
      <4>1. threads' = Put(threads, i, t) /\ (\E d, g : t = NewThread(d, g)) /\ t.camera = c
        BY <3>0, NewIsThread
      <4> HIDE DEF t
      <4> QED
        BY <3>0, <4>1, StartKeeps
    <3>2. \A k \in sups : k \in DOMAIN threads /\ threads[k].camera # c
      BY <2>1, <2>2 DEF IInv, Owned, Held
    <3> HIDE DEF c
    <3>3. Mine' \subseteq DOMAIN threads'
      BY <2>2, <2>4, <3>1, <3>2
    <3>4. \A k \in DOMAIN threads' : Alive(k)' => k \in Mine'
      BY <2>2, <2>4, <3>1 DEF IInv, Owned, Alive
    <3>5. \A k, l \in Mine' : threads'[k].camera = threads'[l].camera => k = l
      BY <2>2, <2>4, <3>1, <3>2 DEF IInv, Owned
    <3> QED
      BY <1>1, <3>1, <3>3, <3>4, <3>5 DEF IInv, Owned
  <2> QED
    BY <1>6, <2>3, <2>4 DEF LoopStart
<1>7. CASE LoopEnds
  <2>1. /\ loop.at = "wait" /\ loop'.at = "stopping" /\ sups' = sups
        /\ threads' = Tell(sups)
    BY <1>2, <1>7 DEF LoopEnds
  <2>2. Mine' = Mine
    BY <2>1 DEF Mine
  <2>3. /\ Shape' /\ AllCounted' /\ DOMAIN threads' = DOMAIN threads
        /\ \A k \in DOMAIN threads :
             threads'[k].camera = threads[k].camera /\ threads'[k].at = threads[k].at
    BY <2>1, TellKeeps DEF IInv
  <2> QED
    BY <1>1, <2>2, <2>3 DEF IInv, Owned, Alive
<1>8. ASSUME NEW i \in sups, LoopJoinLast(i)
      PROVE  IInv'
  <2>1. /\ loop.at = "stopping" /\ loop' = loop /\ sups' = sups \ {i}
        /\ Becomes(i, Joined(threads[i]))
    BY <1>8 DEF LoopJoinLast
  <2>2. Mine = sups /\ Mine' = sups \ {i}
    BY <2>1 DEF Mine
  <2>3. i \in DOMAIN threads
    BY <2>2 DEF IInv, Owned
  <2>4. /\ Shape' /\ AllCounted' /\ DOMAIN threads' = DOMAIN threads
        /\ \A k \in DOMAIN threads :
             /\ threads'[k].camera = threads[k].camera
             /\ k # i => threads'[k].at = threads[k].at
        /\ threads'[i].at = "ended"
    BY <2>1, <2>3, JoinKeeps DEF IInv
  <2> QED
    BY <1>1, <2>2, <2>4 DEF IInv, Owned, Alive
<1> QED
  BY <1>3, <1>4, <1>5, <1>6, <1>7, <1>8 DEF Loop

LEMMA SupKeeps ==
  ASSUME IInv, NEW i \in DOMAIN threads, Sup(i)
  PROVE  IInv'
<1>1. sups' = sups /\ loop' = loop
  BY DEF Sup
<1>2. /\ Shape' /\ AllCounted' /\ DOMAIN threads' = DOMAIN threads
      /\ \A k \in DOMAIN threads :
           /\ threads'[k].camera = threads[k].camera
           /\ threads'[k].at # "ended" => Alive(k)
  BY SupStep DEF IInv
<1>3. Mine' = Mine
  BY <1>1 DEF Mine
<1> QED
  BY <1>1, <1>2, <1>3 DEF IInv, IsLoop, Owned, Alive

LEMMA Inductive == Spec => []IInv
<1>1. Init => IInv
  BY StartShape DEF IInv
<1>2. IInv /\ [Next]_vars => IInv'
  <2> SUFFICES ASSUME IInv, [Next]_vars
               PROVE  IInv'
    OBVIOUS
  <2>1. CASE UNCHANGED <<threads, sups, loop>>
    BY <2>1 DEF IInv, Shape, IsLoop, Owned, Mine, Alive, AllCounted
  <2>2. CASE Loop
    BY <2>2, LoopKeeps
  <2>3. ASSUME NEW i \in DOMAIN threads, Sup(i)
        PROVE  IInv'
    BY <2>3, SupKeeps
  <2>4. ASSUME NEW r \in Request, Post(r)
        PROVE  UNCHANGED <<threads, sups, loop>>
    BY <2>4 DEF Post
  <2> QED
    BY <2>1, <2>2, <2>3, <2>4 DEF Next, CtrlC, vars
<1> QED
  BY <1>1, <1>2, PTL DEF Spec

\* Whatever is saved and however the requests fall between the steps of the main
\* loop, a camera has at most one thread alive, and the main thread holds it or
\* waits for it (reconciliar, Supervisor::stop).
THEOREM OneSessionPerCamera == Spec => []OneSession
<1>1. IInv => OneSession
  <2> SUFFICES ASSUME IInv, NEW i \in DOMAIN threads, threads[i].at # "ended"
               PROVE  /\ i \in sups \/ i = loop.join
                      /\ \A j \in DOMAIN threads :
                           threads[j].camera = threads[i].camera
                           /\ threads[j].at # "ended" => i = j
    BY DEF OneSession
  <2>1. i \in Mine
    BY DEF IInv, Owned, Alive
  <2>2. i \in sups \/ i = loop.join
    BY <2>1 DEF Mine
  <2> QED
    BY <2>1, <2>2 DEF IInv, Owned, Alive
<1> QED
  BY <1>1, Inductive, PTL

\* For any limit, a thread that ended without being told to had that many
\* sessions in a row without media, and one that goes on had fewer (run, Backoff).
THEOREM GivesUpOnlyWhenDry == Spec => []GivesUpWhenDry
<1>1. IInv => GivesUpWhenDry
  BY DEF IInv, AllCounted, Counted, GivesUpWhenDry
<1> QED
  BY <1>1, Inductive, PTL

-----------------------------------------------------------------------------
(* The types of what requests and the main thread keep *)

Addresses == UNION {[S -> Endpoint] : S \in SUBSET Ord}
Configs == UNION {[S -> Cfg] : S \in SUBSET Camera}
Passwords == UNION {[S -> {"", "first", "new"}] : S \in SUBSET Ord}

Working == [at : {"old", "delete", "insert"}, camera : Camera, n : 1..MaxEndpoints,
            blank : BOOLEAN, ord : Nat, old : Passwords]
Finished == [at : {"done", "failed"}, camera : Camera, blank : BOOLEAN]

Busy(r) == req[r].at \in {"old", "delete", "insert"}

LoopType == [at : {"wait", "cameras", "addresses", "reconcile", "join", "stopping", "over"},
             queue : Seq(Camera), loaded : Configs, todo : SUBSET Camera, join : Nat]

Typed ==
  /\ db \in Configs /\ known \subseteq Camera /\ faults \in Nat
  /\ req \in [Request -> {IdleRequest} \cup Working \cup Finished]
  /\ \A r \in Request : Busy(r) => req[r].camera \in DOMAIN db
  /\ pending \in Seq(Camera)
  /\ loop \in LoopType
  /\ loop.todo \subseteq DOMAIN loop.loaded /\ loop.todo \subseteq DOMAIN db
  /\ loop.at = "wait" => loop.queue = <<>>
  /\ loop.at # "addresses" => loop.todo = {}
  /\ loop.at = "join" => loop.join \notin sups
  /\ \A i \in DOMAIN threads : threads[i].camera \in Camera /\ threads[i].cfg \in Cfg

LEMMA PutType ==
  ASSUME NEW S, NEW T, NEW f \in [S -> T], NEW x, NEW v \in T
  PROVE  /\ Put(f, x, v) \in [S \cup {x} -> T]
         /\ Put(f, x, v)[x] = v
         /\ \A y \in S : y # x => Put(f, x, v)[y] = f[y]
BY DEF Put

LEMMA NothingType ==
  ASSUME NEW T
  PROVE  Nothing \in [{} -> T] /\ DOMAIN Nothing = {}
BY DEF Nothing

LEMMA NoAddresses == Nothing \in Addresses /\ Nothing \in Passwords /\ Nothing \in Configs
<1>1. {} \in SUBSET Ord /\ {} \in SUBSET Camera
  OBVIOUS
<1> QED
  BY <1>1, NothingType DEF Addresses, Passwords, Configs

LEMMA CfgType ==
  /\ \A on \in BOOLEAN, eps \in Addresses : [enabled |-> on, eps |-> eps] \in Cfg
  /\ \A g \in Cfg : g.enabled \in BOOLEAN /\ g.eps \in Addresses
  /\ FirstCfg \in Cfg
<1>1. /\ \A on \in BOOLEAN, eps \in Addresses : [enabled |-> on, eps |-> eps] \in Cfg
      /\ \A g \in Cfg : g.enabled \in BOOLEAN /\ g.eps \in Addresses
  BY DEF Cfg, Addresses
<1>2. Put(Nothing, 0, [by |-> AtFirst, password |-> "first"]) \in Addresses
  <2> DEFINE e == [by |-> AtFirst, password |-> "first"]
  <2>1. e \in Endpoint
    BY DEF Endpoint
  <2> HIDE DEF e
  <2>2. Put(Nothing, 0, e) \in [{} \cup {0} -> Endpoint]
    BY <2>1, NothingType, PutType
  <2>3. {} \cup {0} \in SUBSET Ord
    BY CamerasAssumption DEF Ord
  <2> QED
    BY <2>2, <2>3 DEF Addresses, e
<1> QED
  BY <1>1, <1>2 DEF FirstCfg

\* What is put in the table of cameras, and in the addresses of one of them.
LEMMA PutConfig ==
  ASSUME NEW d \in Configs, NEW c \in Camera, NEW g \in Cfg
  PROVE  /\ Put(d, c, g) \in Configs /\ DOMAIN Put(d, c, g) = DOMAIN d \cup {c}
         /\ Put(d, c, g)[c] = g
         /\ \A y \in DOMAIN d : y # c => Put(d, c, g)[y] = d[y]
<1>1. PICK S \in SUBSET Camera : d \in [S -> Cfg]
  BY DEF Configs
<1>2. /\ Put(d, c, g) \in [S \cup {c} -> Cfg] /\ Put(d, c, g)[c] = g
      /\ \A y \in S : y # c => Put(d, c, g)[y] = d[y]
  BY <1>1 DEF Put
<1>3. S \cup {c} \in SUBSET Camera
  OBVIOUS
<1> QED
  BY <1>1, <1>2, <1>3 DEF Configs

LEMMA SetConfig ==
  ASSUME NEW d \in Configs, NEW c \in DOMAIN d, NEW eps \in Addresses
  PROVE  LET e == [d EXCEPT ![c].eps = eps] IN
         /\ e \in Configs /\ DOMAIN e = DOMAIN d
         /\ e[c].enabled = d[c].enabled /\ e[c].eps = eps
         /\ \A y \in DOMAIN d : y # c => e[y] = d[y]
<1>1. PICK S \in SUBSET Camera : d \in [S -> Cfg]
  BY DEF Configs
<1> DEFINE g == [d[c] EXCEPT !.eps = eps]
<1>2. g \in Cfg /\ g.enabled = d[c].enabled /\ g.eps = eps
  BY <1>1 DEF Cfg, Addresses
<1>3. [d EXCEPT ![c].eps = eps] = [d EXCEPT ![c] = g]
  OBVIOUS
<1> HIDE DEF g
<1> QED
  BY <1>1, <1>2, <1>3 DEF Configs

LEMMA PutAddress ==
  ASSUME NEW eps \in Addresses, NEW o \in Ord, NEW e \in Endpoint
  PROVE  Put(eps, o, e) \in Addresses
<1>1. PICK S \in SUBSET Ord : eps \in [S -> Endpoint]
  BY DEF Addresses
<1>2. Put(eps, o, e) \in [S \cup {o} -> Endpoint]
  BY <1>1, PutType
<1>3. S \cup {o} \in SUBSET Ord
  OBVIOUS
<1> QED
  BY <1>2, <1>3 DEF Addresses

LEMMA ConfigsAt ==
  ASSUME NEW d \in Configs
  PROVE  DOMAIN d \subseteq Camera /\ \A c \in DOMAIN d : d[c] \in Cfg
BY DEF Configs

\* What a statement of a request does: to one camera, and it leaves the request
\* under way, failed, or done with its note made.
Touches(r, c) ==
  /\ \A d \in Camera :
       d # c => /\ d \in DOMAIN db' <=> d \in DOMAIN db
                /\ d \in DOMAIN db => db'[d] = db[d]
  /\ \A q \in Request : q # r => req'[q] = req[q]
  /\ req[r].at = "idle" \/ (Busy(r) /\ req[r].camera = c)
  /\ req'[r].at # "idle" /\ req'[r].camera = c
  /\ \/ Busy(r)' /\ pending' = pending
     \/ (req'[r].at = "failed" /\ pending' = pending)
     \/ (req'[r].at = "done" /\ pending' = Append(pending, c) /\ Busy(r))
  /\ faults' \in {faults, faults + 1}

LEMMA RequestTypes ==
  ASSUME Typed, NEW r \in Request
  PROVE  /\ Busy(r) => req[r] \in Working
         /\ req[r].at \in {"idle", "old", "delete", "insert", "done", "failed"}
BY DEF Typed, Busy, IdleRequest, Finished, Working

\* A request's record becomes another.
LEMMA OneRequest ==
  ASSUME Typed, NEW r \in Request, NEW q \in Working \cup Finished,
         req' = [req EXCEPT ![r] = q], UNCHANGED <<loop, known, sups, threads>>,
         db' \in Configs, DOMAIN db \subseteq DOMAIN db', faults' \in {faults, faults + 1},
         pending' \in Seq(Camera),
         q.at \in {"old", "delete", "insert"} => q.camera \in DOMAIN db'
  PROVE  Typed' /\ req'[r] = q /\ \A p \in Request : p # r => req'[p] = req[p]
<1>1. /\ req' \in [Request -> {IdleRequest} \cup Working \cup Finished]
      /\ req'[r] = q /\ \A p \in Request : p # r => req'[p] = req[p]
  BY DEF Typed
<1>2. \A p \in Request : Busy(p)' => req'[p].camera \in DOMAIN db'
  BY <1>1 DEF Typed, Busy
<1>3. faults' \in Nat
  BY DEF Typed
<1> QED
  BY <1>1, <1>2, <1>3 DEF Typed

LEMMA PostCameraStep ==
  ASSUME Typed, NEW r \in Request, NEW c \in Camera, NEW new \in BOOLEAN, NEW on \in BOOLEAN,
         NEW blank \in Blank, NEW n \in 1..MaxEndpoints,
         PostCamera(r, c, new, on, n, blank), UNCHANGED <<loop, known, sups, threads>>
  PROVE  Typed' /\ Touches(r, c)
<1> DEFINE g == [enabled |-> on, eps |-> IF new THEN Nothing ELSE db[c].eps]
           begun == [at |-> "old", camera |-> c, n |-> n, blank |-> blank, ord |-> 0, old |-> Nothing]
           failed == [at |-> "failed", camera |-> c, blank |-> blank]
<1>1. blank \in BOOLEAN
  BY CamerasAssumption
<1>2. begun \in Working /\ failed \in Finished
  BY <1>1, NoAddresses DEF Working, Finished
<1>3. /\ begun.at = "old" /\ begun.camera = c /\ failed.at = "failed" /\ failed.camera = c
      /\ req[r].at = "idle"
  BY DEF PostCamera
<1>4. pending' = pending /\ faults' \in {faults, faults + 1}
  BY DEF PostCamera, Fault
<1>5. \/ /\ db' = Put(db, c, g) /\ new # (c \in DOMAIN db)
         /\ req' = [req EXCEPT ![r] = begun] \/ req' = [req EXCEPT ![r] = failed]
      \/ db' = db /\ req' = [req EXCEPT ![r] = failed]
  BY Zenon DEF PostCamera, Answered
<1>6. CASE db' = Put(db, c, g) /\ new # (c \in DOMAIN db)
  <2>1. g \in Cfg
    <3>1. CASE new
      BY <3>1, NoAddresses, CfgType
    <3>2. CASE ~new
      <4>1. c \in DOMAIN db
        BY <1>6, <3>2
      <4>2. db[c].eps \in Addresses
        BY <4>1, ConfigsAt, CfgType DEF Typed
      <4> QED
        BY <3>2, <4>2, CfgType
    <3> QED
      BY <3>1, <3>2
  <2> HIDE DEF g
  <2>2. /\ db' \in Configs /\ DOMAIN db' = DOMAIN db \cup {c}
        /\ \A y \in DOMAIN db : y # c => db'[y] = db[y]
    <3>1. db \in Configs
      BY DEF Typed
    <3> QED
      BY <1>6, <2>1, <3>1, PutConfig, Zenon
  <2> HIDE DEF begun, failed
  <2>3. /\ Typed' /\ req'[r] \in {begun, failed}
        /\ \A p \in Request : p # r => req'[p] = req[p]
    BY <1>2, <1>3, <1>4, <1>5, <2>2, OneRequest DEF Typed
  <2> QED
    BY <1>3, <1>4, <2>2, <2>3 DEF Touches, Busy
<1>7. CASE db' = db /\ req' = [req EXCEPT ![r] = failed]
  <2> HIDE DEF begun, failed
  <2>1. /\ Typed' /\ req'[r] = failed
        /\ \A p \in Request : p # r => req'[p] = req[p]
    BY <1>2, <1>3, <1>4, <1>7, OneRequest DEF Typed
  <2> QED
    BY <1>3, <1>4, <1>7, <2>1 DEF Touches, Busy
<1> QED
  BY <1>5, <1>6, <1>7

LEMMA PostOldStep ==
  ASSUME Typed, NEW r \in Request, PostOld(r), UNCHANGED <<loop, known, sups, threads>>
  PROVE  Typed' /\ Touches(r, req[r].camera)
<1> DEFINE c == req[r].camera
           eps == db[c].eps
           all == [o \in DOMAIN eps |-> eps[o].password]
<1>1. Busy(r) /\ req[r] \in Working /\ c \in DOMAIN db
  BY RequestTypes DEF PostOld, Busy, Typed
<1>2. eps \in Addresses
  BY <1>1, ConfigsAt, CfgType DEF Typed
<1>3. all \in Passwords
  <2>1. PICK S \in SUBSET Ord : eps \in [S -> Endpoint]
    BY <1>2 DEF Addresses
  <2> HIDE DEF eps
  <2>2. all \in [S -> {"", "first", "new"}]
    BY <2>1 DEF Endpoint
  <2> HIDE DEF all
  <2> QED
    BY <2>2 DEF Passwords
<1>4. PICK old \in {all, Nothing} : req' = [req EXCEPT ![r].old = old, ![r].at = "delete"]
  BY Zenon DEF PostOld
<1> DEFINE q == [req[r] EXCEPT !.old = old, !.at = "delete"]
<1>5. old \in Passwords
  BY <1>3, <1>4, NoAddresses
<1>6. req' = [req EXCEPT ![r] = q]
  BY <1>4
<1>7. q \in Working /\ q.camera = c /\ q.at = "delete"
  BY <1>1, <1>5 DEF Working
<1>8. db' = db /\ pending' = pending /\ faults' \in {faults, faults + 1}
  BY DEF PostOld, Fault
<1> HIDE DEF q
<1>9. Typed' /\ req'[r] = q /\ \A p \in Request : p # r => req'[p] = req[p]
  BY <1>1, <1>6, <1>7, <1>8, OneRequest DEF Typed
<1> QED
  BY <1>1, <1>7, <1>8, <1>9 DEF Touches, Busy

LEMMA PostDeleteStep ==
  ASSUME Typed, NEW r \in Request, PostDelete(r), UNCHANGED <<loop, known, sups, threads>>
  PROVE  Typed' /\ Touches(r, req[r].camera)
<1> DEFINE c == req[r].camera
           q == [req[r] EXCEPT !.at = "insert"]
<1>1. Busy(r) /\ req[r] \in Working /\ c \in DOMAIN db
  BY RequestTypes DEF PostDelete, Busy, Typed
<1>2. req' = [req EXCEPT ![r] = q]
  BY DEF PostDelete
<1>3. q \in Working /\ q.camera = c /\ q.at = "insert"
  BY <1>1 DEF Working
<1>4. pending' = pending /\ faults' \in {faults, faults + 1}
  BY DEF PostDelete, Fault
<1>5. /\ db' \in Configs /\ DOMAIN db' = DOMAIN db
      /\ \A y \in DOMAIN db : y # c => db'[y] = db[y]
  BY <1>1, SetConfig, NoAddresses DEF PostDelete, Typed
<1> HIDE DEF q
<1>6. Typed' /\ req'[r] = q /\ \A p \in Request : p # r => req'[p] = req[p]
  BY <1>1, <1>2, <1>3, <1>4, <1>5, OneRequest DEF Typed
<1> QED
  BY <1>1, <1>3, <1>4, <1>5, <1>6 DEF Touches, Busy

LEMMA PostInsertStep ==
  ASSUME Typed, NEW r \in Request, PostInsert(r), UNCHANGED <<loop, known, sups, threads>>
  PROVE  Typed' /\ Touches(r, req[r].camera)
<1> DEFINE c == req[r].camera
           q == [req[r] EXCEPT !.ord = @ + 1]
           failed == [at |-> "failed", camera |-> c, blank |-> req[r].blank]
           e == [by |-> r, password |-> Password(req[r])]
           eps == Put(db[c].eps, req[r].ord, e)
<1>1. Busy(r) /\ req[r] \in Working /\ c \in DOMAIN db
  BY RequestTypes DEF PostInsert, Busy, Typed
<1>2. pending' = pending /\ faults' \in {faults, faults + 1}
  BY DEF PostInsert, Fault
<1>3. \/ db' = [db EXCEPT ![c].eps = eps] /\ req' = [req EXCEPT ![r] = q]
      \/ db' = db /\ req' = [req EXCEPT ![r] = failed]
  BY DEF PostInsert, Answered
<1>4. /\ q \in Working /\ q.camera = c /\ q.at \in {"old", "delete", "insert"}
      /\ failed \in Finished /\ failed.camera = c /\ failed.at = "failed"
  BY <1>1 DEF Working, Finished
<1>5. eps \in Addresses
  <2>1. req[r].ord \in Ord
    BY <1>1, CamerasAssumption DEF PostInsert, Ord, Working
  <2>2. Password(req[r]) \in {"", "first", "new"}
    <3>1. req[r].old \in Passwords
      BY <1>1 DEF Working
    <3>2. PICK S \in SUBSET Ord : req[r].old \in [S -> {"", "first", "new"}]
      BY <3>1 DEF Passwords
    <3> QED
      BY <3>2 DEF Password
  <2>3. e \in Endpoint
    BY <2>2 DEF Endpoint
  <2>4. db[c].eps \in Addresses
    BY <1>1, ConfigsAt, CfgType DEF Typed
  <2> HIDE DEF e
  <2> QED
    BY <2>1, <2>3, <2>4, PutAddress
<1> HIDE DEF q, failed, eps
<1>6. CASE db' = [db EXCEPT ![c].eps = eps] /\ req' = [req EXCEPT ![r] = q]
  <2>1. /\ db' \in Configs /\ DOMAIN db' = DOMAIN db
        /\ \A y \in DOMAIN db : y # c => db'[y] = db[y]
    BY <1>1, <1>5, <1>6, SetConfig DEF Typed
  <2>2. Typed' /\ req'[r] = q /\ \A p \in Request : p # r => req'[p] = req[p]
    BY <1>1, <1>2, <1>4, <1>6, <2>1, OneRequest DEF Typed
  <2> QED
    BY <1>1, <1>2, <1>4, <2>1, <2>2 DEF Touches, Busy
<1>7. CASE db' = db /\ req' = [req EXCEPT ![r] = failed]
  <2>1. Typed' /\ req'[r] = failed /\ \A p \in Request : p # r => req'[p] = req[p]
    BY <1>1, <1>2, <1>4, <1>7, OneRequest DEF Typed
  <2> QED
    BY <1>1, <1>2, <1>4, <1>7, <2>1 DEF Touches, Busy
<1> QED
  BY <1>3, <1>6, <1>7

LEMMA PostNoteStep ==
  ASSUME Typed, NEW r \in Request, PostNote(r), UNCHANGED <<loop, known, sups, threads>>
  PROVE  Typed' /\ Touches(r, req[r].camera)
<1> DEFINE c == req[r].camera
           q == [at |-> "done", camera |-> c, blank |-> req[r].blank]
<1>1. Busy(r) /\ req[r] \in Working /\ c \in DOMAIN db /\ c \in Camera
  BY RequestTypes DEF PostNote, Busy, Typed, Working
<1>2. /\ req' = [req EXCEPT ![r] = q] /\ pending' = Append(pending, c)
      /\ db' = db /\ faults' = faults
  BY DEF PostNote, Answered
<1>3. q \in Finished /\ q.camera = c /\ q.at = "done"
  BY <1>1 DEF Working, Finished
<1>4. pending' \in Seq(Camera)
  BY <1>1, <1>2 DEF Typed
<1> HIDE DEF q
<1>5. Typed' /\ req'[r] = q /\ \A p \in Request : p # r => req'[p] = req[p]
  BY <1>1, <1>2, <1>3, <1>4, OneRequest DEF Typed
<1> QED
  BY <1>1, <1>2, <1>3, <1>5 DEF Touches, Busy

LEMMA PostStep ==
  ASSUME Typed, NEW r \in Request, Post(r)
  PROVE  Typed' /\ \E c \in Camera : Touches(r, c)
<1>1. UNCHANGED <<loop, known, sups, threads>>
  BY DEF Post
<1>2. Busy(r) => req[r].camera \in Camera
  BY RequestTypes DEF Working
<1> QED
  BY <1>1, <1>2, PostCameraStep, PostOldStep, PostDeleteStep, PostInsertStep, PostNoteStep
     DEF Post, PostOld, PostDelete, PostInsert, PostNote, Busy

-----------------------------------------------------------------------------
(* What is saved is what runs *)

Among(c, s) == \E k \in 1..Len(s) : s[k] = c

\* Every save of the camera answered, and without an error.
Answers(c) ==
  \A r \in Request : req[r].at # "idle" /\ req[r].camera = c => req[r].at = "done"

On(c) == c \in DOMAIN db /\ db[c].enabled

\* The camera runs with what is saved of it.
Applied(c) ==
  /\ \A i \in Held(c) : On(c) /\ threads[i].cfg = db[c]
  /\ On(c) => Held(c) # {}

\* ... and what the main thread read of it is what is saved.
Loaded(c) ==
  /\ c \in DOMAIN loop.loaded <=> c \in DOMAIN db
  /\ c \in DOMAIN db =>
       /\ loop.loaded[c].enabled = db[c].enabled
       /\ c \notin loop.todo => loop.loaded[c].eps = db[c].eps

\* Between two saves of a camera: once its note was taken, each thing the main
\* thread does on the way brings it nearer to what is saved.
Settled(c) ==
  Answers(c) /\ ~Among(c, pending) =>
    /\ ~Among(c, loop.queue) => Applied(c)
    /\ loop.at \in {"wait", "reconcile", "join"} => (c \in known <=> c \in DOMAIN db)
    /\ loop.at \in {"addresses", "reconcile", "join"} => Loaded(c)

Clean ==
  faults = 0 /\ loop.at \notin {"stopping", "over"} => \A c \in Camera : Settled(c)

LEMMA AmongSeq ==
  ASSUME NEW c, NEW s \in Seq(Camera), NEW d \in Camera
  PROVE  /\ ~Among(c, <<>>)
         /\ Among(c, Append(s, d)) <=> Among(c, s) \/ c = d
         /\ s # <<>> => /\ Among(c, s) <=> Among(c, Tail(s)) \/ c = Head(s)
                        /\ Head(s) \in Camera /\ Tail(s) \in Seq(Camera)
                        /\ Len(s) \in Nat /\ Len(Tail(s)) = Len(s) - 1
<1>1. ~Among(c, <<>>)
  BY DEF Among
<1>2. /\ Len(s) \in Nat /\ Len(Append(s, d)) = Len(s) + 1
      /\ Append(s, d)[Len(s) + 1] = d
      /\ \A k \in 1..Len(s) : Append(s, d)[k] = s[k]
  OBVIOUS
<1>3. Among(c, Append(s, d)) <=> Among(c, s) \/ c = d
  <2>1. 1..(Len(s) + 1) = 1..Len(s) \cup {Len(s) + 1}
    BY <1>2
  <2> QED
    BY <1>2, <2>1 DEF Among
<1>4. ASSUME s # <<>>
      PROVE  /\ Among(c, s) <=> Among(c, Tail(s)) \/ c = Head(s)
             /\ Head(s) \in Camera /\ Tail(s) \in Seq(Camera)
             /\ Len(s) \in Nat /\ Len(Tail(s)) = Len(s) - 1
  <2>1. /\ Len(s) \in Nat /\ Len(s) >= 1 /\ Len(Tail(s)) = Len(s) - 1
        /\ Head(s) = s[1] /\ Head(s) \in Camera /\ Tail(s) \in Seq(Camera)
        /\ \A k \in 1..(Len(s) - 1) : Tail(s)[k] = s[k + 1]
    BY <1>4
  <2>2. ASSUME NEW k \in 1..Len(s), s[k] = c, k # 1
        PROVE  Among(c, Tail(s))
    <3>1. k - 1 \in 1..(Len(s) - 1) /\ Tail(s)[k - 1] = c
      BY <2>1, <2>2
    <3> QED
      BY <2>1, <3>1 DEF Among
  <2>3. ASSUME NEW k \in 1..(Len(s) - 1), Tail(s)[k] = c
        PROVE  Among(c, s)
    <3>1. k + 1 \in 1..Len(s) /\ s[k + 1] = c
      BY <2>1, <2>3
    <3> QED
      BY <3>1 DEF Among
  <2>4. 1 \in 1..Len(s)
    BY <2>1
  <2> QED
    BY <2>1, <2>2, <2>3, <2>4 DEF Among
<1> QED
  BY <1>1, <1>3, <1>4

\* A statement of a request: the camera it is about has a save under way, that
\* failed, or whose note waits for the main thread.
LEMMA PostSettles ==
  ASSUME Typed, Clean, NEW r \in Request, Post(r)
  PROVE  Clean'
<1>1. UNCHANGED <<loop, known, sups, threads>>
  BY DEF Post
<1>2. PICK c \in Camera : Touches(r, c)
  BY PostStep
<1>3. pending \in Seq(Camera) /\ faults \in Nat
  BY DEF Typed
<1> SUFFICES ASSUME faults' = 0, loop'.at \notin {"stopping", "over"},
                    NEW d \in Camera, Answers(d)', ~Among(d, pending')
             PROVE  /\ ~Among(d, loop'.queue) => Applied(d)'
                    /\ loop'.at \in {"wait", "reconcile", "join"} =>
                         (d \in known' <=> d \in DOMAIN db')
                    /\ loop'.at \in {"addresses", "reconcile", "join"} => Loaded(d)'
  BY DEF Clean, Settled
<1>4. faults = 0 /\ Settled(d)
  BY <1>1, <1>2, <1>3 DEF Clean, Touches
<1>5. d # c
  <2> SUFFICES ASSUME d = c
               PROVE  FALSE
    OBVIOUS
  <2>1. req'[r].at = "done"
    BY <1>2 DEF Touches, Answers
  <2>2. pending' = Append(pending, c)
    BY <1>2, <2>1 DEF Touches, Busy
  <2> QED
    BY <1>3, <2>2, AmongSeq
<1>6. (d \in DOMAIN db' <=> d \in DOMAIN db) /\ (d \in DOMAIN db => db'[d] = db[d])
  BY <1>2, <1>5 DEF Touches
<1>7. Answers(d)
  <2> SUFFICES ASSUME NEW q \in Request, req[q].at # "idle", req[q].camera = d
               PROVE  req[q].at = "done"
    BY DEF Answers
  <2>1. q # r
    BY <1>2, <1>5 DEF Touches
  <2>2. req'[q] = req[q]
    BY <1>2, <2>1 DEF Touches
  <2> QED
    BY <2>2 DEF Answers
<1>8. ~Among(d, pending)
  <2>1. pending' = pending \/ pending' = Append(pending, c)
    BY <1>2 DEF Touches
  <2>2. Among(d, Append(pending, c)) <=> Among(d, pending) \/ d = c
    BY <1>3, AmongSeq
  <2> QED
    BY <1>5, <2>1, <2>2, Zenon
<1>9. Applied(d) => Applied(d)'
  BY <1>1, <1>6 DEF Applied, On, Held
<1>10. Loaded(d) => Loaded(d)'
  BY <1>1, <1>6 DEF Loaded
<1> QED
  BY <1>1, <1>4, <1>6, <1>7, <1>8, <1>9, <1>10 DEF Settled

\* A step of a thread changes nothing the saves are about.
LEMMA SupSettles ==
  ASSUME IInv, Typed, Clean, NEW i \in DOMAIN threads, Sup(i)
  PROVE  Typed' /\ Clean'
<1>1. UNCHANGED <<db, req, faults, pending, loop, known, sups>>
  BY DEF Sup
<1>2. /\ DOMAIN threads' = DOMAIN threads
      /\ \A k \in DOMAIN threads :
           threads'[k].camera = threads[k].camera /\ threads'[k].cfg = threads[k].cfg
  BY SupStep DEF IInv
<1>3. sups \subseteq DOMAIN threads
  BY DEF IInv, Owned, Mine
<1>4. Typed'
  BY <1>1, <1>2 DEF Typed, Busy
<1>5. ASSUME NEW c \in Camera
      PROVE  Applied(c)' <=> Applied(c)
  <2>1. Held(c)' = Held(c) /\ \A k \in Held(c) : threads'[k].cfg = threads[k].cfg
    BY <1>1, <1>2, <1>3 DEF Held
  <2> QED
    BY <1>1, <2>1 DEF Applied, On
<1>6. \A c \in Camera : Settled(c) => Settled(c)'
  BY <1>1, <1>5 DEF Settled, Answers, Loaded
<1> QED
  BY <1>1, <1>4, <1>6 DEF Clean

\* What was asked of the main thread, and is not over yet.
Work == Cardinality(DOMAIN threads) + Len(pending) + Len(loop.queue)

LEMMA WorkType ==
  ASSUME IInv, Typed
  PROVE  /\ Cardinality(DOMAIN threads) \in Nat
         /\ DOMAIN threads = 1..Cardinality(DOMAIN threads)
         /\ Len(pending) \in Nat /\ Len(loop.queue) \in Nat
<1>1. PICK n \in Nat : DOMAIN threads = 1..n
  BY DEF IInv, Shape
<1>2. Cardinality(1..n) = n
  BY <1>1, FS_Interval
<1>3. pending \in Seq(Camera) /\ loop.queue \in Seq(Camera)
  BY DEF Typed, LoopType
<1> QED
  BY <1>1, <1>2, <1>3

\* A step of the main thread that leaves the supervisors alone.
LEMMA AppliedStays ==
  ASSUME UNCHANGED <<db, sups, threads>>, NEW c
  PROVE  Applied(c)' <=> Applied(c)
BY DEF Applied, On, Held

LEMMA AnswersStay ==
  ASSUME UNCHANGED <<db, req>>, NEW c
  PROVE  (Answers(c)' <=> Answers(c)) /\ (On(c)' <=> On(c))
BY DEF Answers, On

LEMMA LoopTakeSettles ==
  ASSUME IInv, Typed, Clean, LoopTake, UNCHANGED <<db, req>>
  PROVE  Typed' /\ Clean' /\ Work' <= Work
<1>1. /\ loop.at = "wait" /\ loop' = [loop EXCEPT !.at = "cameras", !.queue = pending]
      /\ pending' = <<>> /\ UNCHANGED <<faults, known, sups, threads>>
  BY DEF LoopTake
<1>2. /\ loop \in LoopType /\ pending \in Seq(Camera) /\ loop.queue = <<>>
      /\ loop.todo = {}
  BY <1>1 DEF Typed
<1>3. /\ loop' \in LoopType /\ loop'.at = "cameras" /\ loop'.queue = pending
      /\ loop'.loaded = loop.loaded /\ loop'.todo = {} /\ loop'.join = loop.join
  BY <1>1, <1>2 DEF LoopType
<1>4. Typed'
  BY <1>1, <1>3 DEF Typed, Busy
<1>5. ASSUME NEW c \in Camera, Settled(c)
      PROVE  Settled(c)'
  <2> SUFFICES ASSUME Answers(c)', ~Among(c, loop'.queue)
               PROVE  Applied(c)'
    BY <1>3 DEF Settled
  <2>1. Answers(c) /\ ~Among(c, pending) /\ ~Among(c, loop.queue)
    BY <1>2, <1>3, AnswersStay DEF Among
  <2> QED
    BY <1>1, <1>5, <2>1, AppliedStays DEF Settled
<1>6. Clean'
  BY <1>1, <1>5 DEF Clean
<1>7. Work' = Work
  BY <1>1, <1>2, <1>3, WorkType DEF Work
<1> QED
  BY <1>4, <1>6, <1>7, WorkType DEF Work

LEMMA LoopCamerasSettles ==
  ASSUME IInv, Typed, Clean, LoopCameras, UNCHANGED <<db, req>>
  PROVE  Typed' /\ Clean' /\ Work' <= Work
<1> DEFINE read(cs) == [c \in cs |-> [enabled |-> db[c].enabled, eps |-> Nothing]]
<1>1. /\ loop.at = "cameras" /\ UNCHANGED <<pending, known, sups, threads>>
      /\ faults' \in {faults, faults + 1}
  BY DEF LoopCameras, Fault
<1>2. PICK cs \in {DOMAIN db, {}} :
        /\ loop' = [loop EXCEPT !.at = "addresses", !.todo = cs, !.loaded = read(cs)]
        /\ cs = DOMAIN db \/ faults' = faults + 1
  BY Zenon DEF LoopCameras, Fault
<1>3. loop \in LoopType /\ pending \in Seq(Camera) /\ faults \in Nat /\ db \in Configs
  BY DEF Typed
<1>4. /\ read(cs) \in Configs /\ DOMAIN read(cs) = cs
      /\ \A c \in cs : read(cs)[c].enabled = db[c].enabled
  <2>1. cs \subseteq DOMAIN db /\ cs \in SUBSET Camera
    BY <1>2, <1>3, ConfigsAt
  <2>2. \A c \in cs : [enabled |-> db[c].enabled, eps |-> Nothing] \in Cfg
    BY <1>3, <2>1, ConfigsAt, CfgType, NoAddresses
  <2>3. read(cs) \in [cs -> Cfg]
    BY <2>2
  <2> QED
    BY <2>1, <2>3 DEF Configs
<1> HIDE DEF read
<1>5. /\ loop' \in LoopType /\ loop'.at = "addresses" /\ loop'.queue = loop.queue
      /\ loop'.loaded = read(cs) /\ loop'.todo = cs /\ loop'.join = loop.join
  <2>1. cs \in SUBSET Camera
    BY <1>2, <1>3, ConfigsAt
  <2> QED
    BY <1>2, <1>3, <1>4, <2>1 DEF LoopType
<1>6. Typed'
  BY <1>1, <1>3, <1>4, <1>5 DEF Typed, Busy
<1>7. ASSUME NEW c \in Camera, Settled(c), faults' = 0
      PROVE  Settled(c)'
  <2> SUFFICES ASSUME Answers(c)', ~Among(c, pending')
               PROVE  /\ ~Among(c, loop'.queue) => Applied(c)'
                      /\ Loaded(c)'
    BY <1>5 DEF Settled
  <2>1. Answers(c) /\ ~Among(c, pending)
    BY <1>1, AnswersStay
  <2>2. ~Among(c, loop'.queue) => Applied(c)'
    BY <1>1, <1>5, <1>7, <2>1, AppliedStays DEF Settled
  <2>3. cs = DOMAIN db
    BY <1>2, <1>3, <1>7
  <2>4. Loaded(c)'
    BY <1>4, <1>5, <2>3 DEF Loaded
  <2> QED
    BY <2>2, <2>4
<1>8. Clean'
  BY <1>1, <1>3, <1>5, <1>7 DEF Clean
<1>9. Work' = Work
  BY <1>1, <1>5 DEF Work
<1> QED
  BY <1>6, <1>8, <1>9, WorkType DEF Work

LEMMA LoopAddressesSettles ==
  ASSUME IInv, Typed, Clean, NEW a \in Camera, LoopAddresses(a), UNCHANGED <<db, req>>
  PROVE  Typed' /\ Clean' /\ Work' <= Work
<1>1. /\ loop.at = "addresses" /\ a \in loop.todo
      /\ UNCHANGED <<pending, known, sups, threads>> /\ faults' \in {faults, faults + 1}
  BY DEF LoopAddresses, Fault
<1>2. PICK eps \in {db[a].eps, Nothing} :
        /\ loop' = [loop EXCEPT !.todo = @ \ {a}, !.loaded[a].eps = eps]
        /\ eps = db[a].eps \/ faults' = faults + 1
  BY Zenon DEF LoopAddresses, Fault
<1>3. /\ loop \in LoopType /\ pending \in Seq(Camera) /\ faults \in Nat /\ db \in Configs
      /\ a \in DOMAIN loop.loaded /\ loop.loaded \in Configs
  BY <1>1 DEF Typed, LoopType
<1> DEFINE l == [loop.loaded EXCEPT ![a].eps = eps]
<1>4. /\ loop'.at = "addresses" /\ loop'.queue = loop.queue /\ loop'.loaded = l
      /\ loop'.todo = loop.todo \ {a} /\ loop'.join = loop.join
      /\ l \in Configs => loop' \in LoopType
  BY <1>1, <1>2, <1>3 DEF LoopType
<1>5. eps \in Addresses
  <2>1. a \in DOMAIN db
    BY <1>1 DEF Typed
  <2>2. db[a].eps \in Addresses
    BY <1>3, <2>1, ConfigsAt, CfgType
  <2> QED
    BY <1>2, <2>2, NoAddresses
<1>6. CASE TRUE
  <2>1. /\ l \in Configs /\ DOMAIN l = DOMAIN loop.loaded
        /\ l[a].enabled = loop.loaded[a].enabled /\ l[a].eps = eps
        /\ \A y \in DOMAIN l : y # a => l[y] = loop.loaded[y]
    BY <1>3, <1>5, SetConfig
  <2> HIDE DEF l
  <2>2. Typed'
    BY <1>1, <1>3, <1>4, <2>1 DEF Typed, Busy
  <2>3. ASSUME NEW c \in Camera, Settled(c), faults' = 0
        PROVE  Settled(c)'
    <3> SUFFICES ASSUME Answers(c)', ~Among(c, pending')
                 PROVE  /\ ~Among(c, loop'.queue) => Applied(c)'
                        /\ Loaded(c)'
      BY <1>4 DEF Settled
    <3>1. Answers(c) /\ ~Among(c, pending)
      BY <1>1, AnswersStay
    <3>2. ~Among(c, loop'.queue) => Applied(c)'
      BY <1>1, <1>4, <2>3, <3>1, AppliedStays DEF Settled
    <3>3. eps = db[a].eps /\ Loaded(c)
      BY <1>1, <1>2, <1>3, <2>3, <3>1 DEF Settled
    <3>4. Loaded(c)'
      BY <1>4, <2>1, <3>3 DEF Loaded
    <3> QED
      BY <3>2, <3>4
  <2>4. Clean'
    BY <1>1, <1>3, <1>4, <2>3 DEF Clean
  <2>5. Work' = Work
    BY <1>1, <1>4 DEF Work
  <2> QED
    BY <2>2, <2>4, <2>5, WorkType DEF Work
<1> QED
  BY <1>6

LEMMA LoopKnownSettles ==
  ASSUME IInv, Typed, Clean, LoopKnown, UNCHANGED <<db, req>>
  PROVE  Typed' /\ Clean' /\ Work' <= Work
<1>1. /\ loop.at = "addresses" /\ loop.todo = {} /\ known' = DOMAIN loop.loaded
      /\ loop' = [loop EXCEPT !.at = "reconcile"]
      /\ UNCHANGED <<pending, faults, sups, threads>>
  BY DEF LoopKnown
<1>2. loop \in LoopType /\ pending \in Seq(Camera) /\ loop.loaded \in Configs
  BY DEF Typed, LoopType
<1>3. /\ loop' \in LoopType /\ loop'.at = "reconcile" /\ loop'.queue = loop.queue
      /\ loop'.loaded = loop.loaded /\ loop'.todo = {} /\ loop'.join = loop.join
  BY <1>1, <1>2 DEF LoopType
<1>4. known' \subseteq Camera
  BY <1>1, <1>2, ConfigsAt
<1>5. Typed'
  BY <1>1, <1>3, <1>4 DEF Typed, Busy
<1>6. ASSUME NEW c \in Camera, Settled(c)
      PROVE  Settled(c)'
  <2> SUFFICES ASSUME Answers(c)', ~Among(c, pending')
               PROVE  /\ ~Among(c, loop'.queue) => Applied(c)'
                      /\ c \in known' <=> c \in DOMAIN db'
                      /\ Loaded(c)'
    BY DEF Settled
  <2>1. Answers(c) /\ ~Among(c, pending)
    BY <1>1, AnswersStay
  <2>2. ~Among(c, loop'.queue) => Applied(c)'
    BY <1>1, <1>3, <1>6, <2>1, AppliedStays DEF Settled
  <2>3. Loaded(c)
    BY <1>1, <1>6, <2>1 DEF Settled
  <2> QED
    BY <1>1, <1>3, <2>2, <2>3 DEF Loaded
<1>7. Clean'
  BY <1>1, <1>6 DEF Clean
<1>8. Work' = Work
  BY <1>1, <1>3 DEF Work
<1> QED
  BY <1>5, <1>7, <1>8, WorkType DEF Work

LEMMA LoopBackSettles ==
  ASSUME IInv, Typed, Clean, LoopBack, UNCHANGED <<db, req>>
  PROVE  Typed' /\ Clean' /\ Work' <= Work
<1>1. /\ loop.at = "reconcile" /\ loop.queue = <<>>
      /\ loop' = [loop EXCEPT !.at = "wait", !.loaded = Nothing]
      /\ UNCHANGED <<pending, faults, known, sups, threads>>
  BY DEF LoopBack
<1>2. loop \in LoopType /\ loop.todo = {}
  BY <1>1 DEF Typed
<1>3. /\ loop' \in LoopType /\ loop'.at = "wait" /\ loop'.queue = <<>>
      /\ loop'.todo = {} /\ loop'.join = loop.join
  BY <1>1, <1>2, NoAddresses DEF LoopType
<1>4. Typed'
  BY <1>1, <1>3 DEF Typed, Busy
<1>5. ASSUME NEW c \in Camera, Settled(c)
      PROVE  Settled(c)'
  <2> SUFFICES ASSUME Answers(c)', ~Among(c, pending')
               PROVE  Applied(c)' /\ (c \in known' <=> c \in DOMAIN db')
    BY <1>3 DEF Settled
  <2>1. Answers(c) /\ ~Among(c, pending) /\ ~Among(c, loop.queue)
    BY <1>1, AnswersStay DEF Among
  <2> QED
    BY <1>1, <1>5, <2>1, AppliedStays DEF Settled
<1>6. Clean'
  BY <1>1, <1>5 DEF Clean
<1>7. Work' = Work
  BY <1>1, <1>3 DEF Work
<1> QED
  BY <1>4, <1>6, <1>7, WorkType DEF Work

\* The supervisors of the main thread after one of its steps: of the other
\* cameras the same, with the same settings.
LEMMA OthersStay ==
  ASSUME UNCHANGED db, NEW c,
         \A i \in sups \cup sups' :
           \/ i \in sups /\ i \in sups' /\ threads'[i].camera = threads[i].camera
              /\ threads'[i].cfg = threads[i].cfg
           \/ (i \in sups => threads[i].camera # c) /\ (i \in sups' => threads'[i].camera # c)
  PROVE  Applied(c)' <=> Applied(c)
<1>1. Held(c)' = Held(c) /\ \A i \in Held(c) : threads'[i].cfg = threads[i].cfg
  BY DEF Held
<1> QED
  BY <1>1 DEF Applied, On

LEMMA LoopStopOneSettles ==
  ASSUME IInv, Typed, Clean, LoopStopOne, UNCHANGED <<db, req>>
  PROVE  Typed' /\ Clean' /\ Work' <= Work
<1>1. /\ loop.at = "reconcile" /\ loop.queue # <<>>
      /\ UNCHANGED <<pending, faults, known>>
  BY DEF LoopStopOne
<1>2. PICK i \in Held(Head(loop.queue)) :
        /\ sups' = sups \ {i} /\ threads' = Tell({i})
        /\ loop' = [loop EXCEPT !.at = "join", !.join = i]
  BY DEF LoopStopOne
<1>3. i \in sups /\ threads[i].camera = Head(loop.queue) /\ sups \subseteq DOMAIN threads
  BY <1>2 DEF Held, IInv, Owned, Mine
<1>4. i \in Nat
  BY <1>3, WorkType
<1>5. loop \in LoopType /\ loop.queue \in Seq(Camera) /\ loop.todo = {}
  BY <1>1 DEF Typed, LoopType
<1>6. /\ loop' \in LoopType /\ loop'.at = "join" /\ loop'.queue = loop.queue
      /\ loop'.loaded = loop.loaded /\ loop'.todo = {} /\ loop'.join = i
  BY <1>2, <1>4, <1>5 DEF LoopType
<1>7. /\ DOMAIN threads' = DOMAIN threads
      /\ \A k \in DOMAIN threads :
           threads'[k].camera = threads[k].camera /\ threads'[k].cfg = threads[k].cfg
  BY <1>2, TellKeeps DEF IInv
<1>8. Typed'
  <2>1. \A k \in DOMAIN threads' : threads'[k].camera \in Camera /\ threads'[k].cfg \in Cfg
    BY <1>7 DEF Typed
  <2>2. loop'.join \notin sups'
    BY <1>2, <1>6
  <2> QED
    BY <1>1, <1>6, <2>1, <2>2 DEF Typed, Busy
<1>9. ASSUME NEW c \in Camera, Settled(c)
      PROVE  Settled(c)'
  <2> SUFFICES ASSUME Answers(c)', ~Among(c, pending')
               PROVE  /\ ~Among(c, loop'.queue) => Applied(c)'
                      /\ c \in known' <=> c \in DOMAIN db'
                      /\ Loaded(c)'
    BY DEF Settled
  <2>1. Answers(c) /\ ~Among(c, pending)
    BY <1>1, AnswersStay
  <2>2. Loaded(c) /\ (c \in known <=> c \in DOMAIN db)
    BY <1>1, <1>9, <2>1 DEF Settled
  <2>3. ASSUME ~Among(c, loop.queue)
        PROVE  Applied(c)'
    <3>1. Head(loop.queue) \in Camera
      BY <1>1, <1>5
    <3>2. c # Head(loop.queue)
      <4>1. \A s \in Seq(Camera) :
              s # <<>> => (Among(c, s) <=> Among(c, Tail(s)) \/ c = Head(s))
        BY AmongSeq
      <4> QED
        BY <1>1, <1>5, <2>3, <4>1
    <3>3. Applied(c)' <=> Applied(c)
      BY <1>2, <1>3, <1>7, <3>2, OthersStay
    <3> QED
      BY <1>9, <2>1, <2>3, <3>3 DEF Settled
  <2>4. Loaded(c)'
    BY <1>5, <1>6, <2>2 DEF Loaded
  <2> QED
    BY <1>1, <1>6, <2>2, <2>3, <2>4
<1>10. Clean'
  BY <1>1, <1>9 DEF Clean
<1>11. Work' = Work
  BY <1>1, <1>6, <1>7 DEF Work
<1> QED
  BY <1>8, <1>10, <1>11, WorkType DEF Work

LEMMA LoopJoinSettles ==
  ASSUME IInv, Typed, Clean, LoopJoin, UNCHANGED <<db, req>>
  PROVE  Typed' /\ Clean' /\ Work' <= Work
<1>1. /\ loop.at = "join" /\ loop' = [loop EXCEPT !.at = "reconcile", !.join = 0]
      /\ Becomes(loop.join, Joined(threads[loop.join]))
      /\ UNCHANGED <<pending, faults, known, sups>>
  BY DEF LoopJoin
<1>2. loop \in LoopType /\ loop.todo = {} /\ loop.join \notin sups
  BY <1>1 DEF Typed
<1>3. /\ loop' \in LoopType /\ loop'.at = "reconcile" /\ loop'.queue = loop.queue
      /\ loop'.loaded = loop.loaded /\ loop'.todo = {}
  BY <1>1, <1>2 DEF LoopType
<1>4. loop.join \in DOMAIN threads /\ sups \subseteq DOMAIN threads
  BY <1>1 DEF IInv, Owned, Mine
<1>5. /\ DOMAIN threads' = DOMAIN threads
      /\ \A k \in DOMAIN threads :
           /\ threads'[k].camera = threads[k].camera
           /\ k # loop.join => threads'[k].cfg = threads[k].cfg
      /\ threads'[loop.join].cfg = FirstCfg
  BY <1>1, <1>4, JoinKeeps DEF IInv
<1>6. Typed'
  <2>1. \A k \in DOMAIN threads' : threads'[k].camera \in Camera /\ threads'[k].cfg \in Cfg
    BY <1>5, CfgType DEF Typed
  <2> QED
    BY <1>1, <1>3, <2>1 DEF Typed, Busy
<1>7. ASSUME NEW c \in Camera, Settled(c)
      PROVE  Settled(c)'
  <2> SUFFICES ASSUME Answers(c)', ~Among(c, pending')
               PROVE  /\ ~Among(c, loop'.queue) => Applied(c)'
                      /\ c \in known' <=> c \in DOMAIN db'
                      /\ Loaded(c)'
    BY DEF Settled
  <2>1. Answers(c) /\ ~Among(c, pending)
    BY <1>1, AnswersStay
  <2>2. Loaded(c) /\ (c \in known <=> c \in DOMAIN db)
    BY <1>1, <1>7, <2>1 DEF Settled
  <2>3. Applied(c)' <=> Applied(c)
    BY <1>1, <1>2, <1>4, <1>5, OthersStay
  <2> QED
    BY <1>1, <1>2, <1>3, <1>7, <2>1, <2>2, <2>3 DEF Loaded, Settled
<1>8. Clean'
  BY <1>1, <1>7 DEF Clean
<1>9. Work' = Work
  BY <1>1, <1>3, <1>5 DEF Work
<1> QED
  BY <1>6, <1>8, <1>9, WorkType DEF Work

\* A camera that is taken from the queue runs with what was read of it, which
\* is what is saved unless a note is waiting.
LEMMA LoopStartSettles ==
  ASSUME IInv, Typed, Clean, LoopStart, UNCHANGED <<db, req>>
  PROVE  Typed' /\ Clean' /\ Work' <= Work
<1>h. PICK h : h = Head(loop.queue)
  OBVIOUS
<1>i. PICK i : i = Cardinality(DOMAIN threads) + 1
  OBVIOUS
<1>b. PICK begins \in BOOLEAN :
        begins <=> h \in DOMAIN loop.loaded /\ loop.loaded[h].enabled
  OBVIOUS
<1>1. /\ loop.at = "reconcile" /\ loop.queue # <<>> /\ Held(h) = {}
      /\ UNCHANGED db
      /\ loop' = [loop EXCEPT !.queue = Tail(@)]
      /\ UNCHANGED <<pending, faults, known>>
      /\ begins => /\ threads' = Put(threads, i, NewThread(h, loop.loaded[h]))
                   /\ sups' = sups \cup {i}
      /\ ~begins => UNCHANGED <<threads, sups>>
  BY <1>h, <1>i, <1>b DEF LoopStart
<1>2. /\ loop \in LoopType /\ loop.queue \in Seq(Camera) /\ loop.todo = {}
      /\ loop.loaded \in Configs /\ db \in Configs
  BY <1>1 DEF Typed, LoopType
<1>3. /\ h \in Camera /\ Tail(loop.queue) \in Seq(Camera)
      /\ Len(Tail(loop.queue)) = Len(loop.queue) - 1 /\ Len(loop.queue) \in Nat
  BY <1>h, <1>1, <1>2
<1>4. /\ loop' \in LoopType /\ loop'.at = "reconcile" /\ loop'.queue = Tail(loop.queue)
      /\ loop'.loaded = loop.loaded /\ loop'.todo = {} /\ loop'.join = loop.join
  BY <1>1, <1>2, <1>3 DEF LoopType
<1>5. sups \subseteq DOMAIN threads
  BY DEF IInv, Owned, Mine
<1>6. ASSUME begins
      PROVE  /\ DOMAIN threads' = DOMAIN threads \cup {i} /\ i \notin DOMAIN threads
             /\ \A k \in DOMAIN threads : threads'[k] = threads[k]
             /\ threads'[i].camera = h /\ threads'[i].cfg = loop.loaded[h]
             /\ loop.loaded[h] \in Cfg
  <2>1. loop.loaded[h] \in Cfg
    BY <1>b, <1>2, <1>6, ConfigsAt
  <2>2. Shape /\ AllCounted
    BY DEF IInv
  <2> DEFINE t == NewThread(h, loop.loaded[h])
  <2>3. threads' = Put(threads, i, t) /\ (\E d, g : t = NewThread(d, g))
        /\ t.camera = h /\ t.cfg = loop.loaded[h]
    BY <1>1, <1>6, NewIsThread
  <2> HIDE DEF t
  <2> QED
    BY <1>i, <2>1, <2>2, <2>3, StartKeeps
<1>7. Typed'
  <2>1. \A k \in DOMAIN threads' : threads'[k].camera \in Camera /\ threads'[k].cfg \in Cfg
    BY <1>1, <1>3, <1>6 DEF Typed
  <2> QED
    BY <1>1, <1>4, <2>1 DEF Typed, Busy
<1>8. ASSUME NEW c \in Camera, Settled(c), Answers(c)', ~Among(c, pending')
      PROVE  Loaded(c) /\ (c \in known <=> c \in DOMAIN db)
             /\ (~Among(c, loop.queue) => Applied(c))
  BY <1>1, <1>8, AnswersStay DEF Settled
<1>9. ASSUME NEW c \in Camera, c # h
      PROVE  Applied(c)' <=> Applied(c)
  <2>1. CASE begins
    BY <1>1, <1>5, <1>6, <1>9, <2>1, OthersStay
  <2>2. CASE ~begins
    BY <1>1, <2>2, AppliedStays
  <2> QED
    BY <2>1, <2>2
<1>10. ASSUME Loaded(h)
       PROVE  Applied(h)'
  <2>1. begins <=> On(h)
    BY <1>b, <1>10 DEF Loaded, On
  <2>2. CASE begins
    <3>1. Held(h)' = {i}
      BY <1>1, <1>5, <1>6, <2>2 DEF Held
    <3>2. loop.loaded[h].enabled = db[h].enabled /\ loop.loaded[h].eps = db[h].eps
          /\ h \in DOMAIN db
      BY <1>2, <1>10, <2>1, <2>2 DEF Loaded, On
    <3>3. loop.loaded[h] \in Cfg /\ db[h] \in Cfg
      BY <1>2, <1>6, <2>2, <3>2, ConfigsAt
    <3>4. loop.loaded[h] = db[h]
      BY <3>2, <3>3 DEF Cfg
    <3>5. threads'[i].cfg = db'[h]
      BY <1>6, <2>2, <3>4
    <3>6. On(h)'
      BY <2>1, <2>2 DEF On
    <3> QED
      BY <3>1, <3>5, <3>6 DEF Applied
  <2>3. CASE ~begins
    <3>1. Held(h)' = {} /\ ~On(h)'
      BY <1>1, <2>1, <2>3 DEF Held, On
    <3> QED
      BY <3>1 DEF Applied
  <2> QED
    BY <2>2, <2>3
<1>11. ASSUME NEW c \in Camera, Settled(c)
       PROVE  Settled(c)'
  <2> SUFFICES ASSUME Answers(c)', ~Among(c, pending')
               PROVE  /\ ~Among(c, loop'.queue) => Applied(c)'
                      /\ c \in known' <=> c \in DOMAIN db'
                      /\ Loaded(c)'
    BY DEF Settled
  <2>1. Loaded(c) /\ (c \in known <=> c \in DOMAIN db)
        /\ (~Among(c, loop.queue) => Applied(c))
    BY <1>8, <1>11
  <2>2. ASSUME ~Among(c, Tail(loop.queue))
        PROVE  Applied(c)'
    <3>1. CASE c = h
      BY <1>10, <2>1, <3>1
    <3>2. CASE c # h
      <4>1. ~Among(c, loop.queue)
        BY <1>h, <1>1, <1>2, <1>3, <2>2, <3>2, AmongSeq
      <4> QED
        BY <1>9, <2>1, <3>2, <4>1
    <3> QED
      BY <3>1, <3>2
  <2> QED
    BY <1>1, <1>2, <1>4, <2>1, <2>2 DEF Loaded
<1>12. Clean'
  BY <1>1, <1>11 DEF Clean
<1>13. Work' <= Work
  <2>1. CASE begins
    <3>1. Cardinality(DOMAIN threads') = Cardinality(DOMAIN threads) + 1
      <4>1. DOMAIN threads = 1..Cardinality(DOMAIN threads)
            /\ Cardinality(DOMAIN threads) \in Nat
        BY WorkType
      <4>2. DOMAIN threads' = 1..(Cardinality(DOMAIN threads) + 1)
        BY <1>i, <1>6, <2>1, <4>1
      <4> QED
        BY <4>1, <4>2, FS_Interval
    <3> QED
      BY <1>1, <1>3, <1>4, <3>1, WorkType DEF Work
  <2>2. CASE ~begins
    BY <1>1, <1>3, <1>4, <2>2, WorkType DEF Work
  <2> QED
    BY <2>1, <2>2
<1> QED
  BY <1>7, <1>12, <1>13

LEMMA LoopEndSettles ==
  ASSUME IInv, Typed, Clean, UNCHANGED <<db, req>>,
         LoopEnds \/ LoopStopped \/ \E i \in sups : LoopJoinLast(i)
  PROVE  Typed' /\ Clean' /\ Work' <= Work
<1>1. loop \in LoopType
  BY DEF Typed
<1>2. /\ loop'.at \in {"stopping", "over"} /\ loop' \in LoopType
      /\ loop'.queue = loop.queue /\ loop'.loaded = loop.loaded /\ loop'.todo = loop.todo
      /\ loop.at # "addresses" /\ UNCHANGED <<pending, faults, known>>
  BY <1>1 DEF LoopEnds, LoopStopped, LoopJoinLast, LoopType
<1>3. /\ DOMAIN threads' = DOMAIN threads
      /\ \A k \in DOMAIN threads :
           /\ threads'[k].camera = threads[k].camera
           /\ threads'[k].cfg \in {threads[k].cfg, FirstCfg}
  <2>1. CASE LoopEnds
    BY <2>1, TellKeeps DEF IInv, LoopEnds
  <2>2. CASE LoopStopped
    BY <2>2 DEF LoopStopped
  <2>3. ASSUME NEW i \in sups, LoopJoinLast(i)
        PROVE  /\ DOMAIN threads' = DOMAIN threads
               /\ \A k \in DOMAIN threads :
                    /\ threads'[k].camera = threads[k].camera
                    /\ threads'[k].cfg \in {threads[k].cfg, FirstCfg}
    <3>1. i \in DOMAIN threads /\ Becomes(i, Joined(threads[i]))
      BY <2>3 DEF IInv, Owned, Mine, LoopJoinLast
    <3> QED
      BY <3>1, JoinKeeps DEF IInv
  <2> QED
    BY <2>1, <2>2, <2>3
<1>4. Typed'
  <2>1. \A k \in DOMAIN threads' : threads'[k].camera \in Camera /\ threads'[k].cfg \in Cfg
    BY <1>3, CfgType DEF Typed
  <2> QED
    BY <1>2, <2>1 DEF Typed, Busy
<1>5. Clean'
  BY <1>2 DEF Clean
<1>6. Work' = Work
  BY <1>2, <1>3 DEF Work
<1> QED
  BY <1>4, <1>5, <1>6, WorkType DEF Work

LEMMA LoopSettles ==
  ASSUME IInv, Typed, Clean, Loop
  PROVE  Typed' /\ Clean' /\ Work' <= Work
<1>1. UNCHANGED <<db, req>>
  BY DEF Loop, Settings
<1> QED
  BY <1>1, LoopTakeSettles, LoopCamerasSettles, LoopAddressesSettles, LoopKnownSettles,
     LoopBackSettles, LoopStopOneSettles, LoopJoinSettles, LoopStartSettles, LoopEndSettles
     DEF Loop

-----------------------------------------------------------------------------
(* The ids are enough *)

Unanswered == {r \in Request : req[r].at \in {"idle", "old", "delete", "insert"}}

\* Each note is one request's, and each thread that begins is one note's.
Enough ==
  Work + Cardinality(Unanswered) <= Cardinality(Saved) + Cardinality(Request)

\* The threads of the start are one for each camera saved.
LEMMA StartTyped ==
  ASSUME Init
  PROVE  Typed /\ Clean /\ Enough
<1>1. IInv
  BY StartShape DEF IInv
<1>2. /\ db = [c \in Saved |-> FirstCfg] /\ faults = 0 /\ pending = <<>>
      /\ req = [r \in Request |-> IdleRequest]
      /\ loop = [at |-> "wait", queue |-> <<>>, loaded |-> Nothing, todo |-> {}, join |-> 0]
      /\ known = Saved /\ sups = 1..Cardinality(Saved)
      /\ threads \in [sups -> {NewThread(c, FirstCfg) : c \in Saved}]
      /\ \A i, j \in sups : i # j => threads[i].camera # threads[j].camera
  BY DEF Init
<1>3. \A i \in sups : threads[i].camera \in Saved /\ threads[i].cfg = FirstCfg
  <2> SUFFICES ASSUME NEW i \in sups
               PROVE  threads[i].camera \in Saved /\ threads[i].cfg = FirstCfg
    OBVIOUS
  <2>1. PICK c \in Saved : threads[i] = NewThread(c, FirstCfg)
    BY <1>2
  <2>2. NewThread(c, FirstCfg).camera = c /\ NewThread(c, FirstCfg).cfg = FirstCfg
    BY NewIsThread
  <2> QED
    BY <2>1, <2>2
<1>4. Saved \in SUBSET Camera /\ FirstCfg \in Cfg /\ Nothing \in Configs
  BY CamerasAssumption, CfgType, NoAddresses
<1>5. db \in Configs
  <2>1. db \in [Saved -> Cfg]
    BY <1>2, <1>4
  <2> QED
    BY <1>4, <2>1 DEF Configs
<1>6. loop \in LoopType /\ pending \in Seq(Camera) /\ loop.todo = {} /\ loop.queue = <<>>
      /\ loop.at = "wait"
  BY <1>2, <1>4 DEF LoopType
<1>7. \A r \in Request : req[r].at = "idle"
  BY <1>2 DEF IdleRequest
<1>8. Typed
  <2>1. req \in [Request -> {IdleRequest} \cup Working \cup Finished]
    BY <1>2
  <2>2. \A i \in DOMAIN threads : threads[i].camera \in Camera /\ threads[i].cfg \in Cfg
    BY <1>2, <1>3, <1>4
  <2>3. \A r \in Request : ~Busy(r)
    BY <1>7 DEF Busy
  <2> QED
    BY <1>2, <1>4, <1>5, <1>6, <2>1, <2>2, <2>3 DEF Typed
<1>9. \A c \in Saved : \E i \in sups : threads[i].camera = c
  <2> DEFINE f == [i \in sups |-> threads[i].camera]
  <2>1. f \in Injection(sups, Saved)
    BY <1>2, <1>3 DEF Injection, IsInjective
  <2>2. Cardinality(sups) = Cardinality(Saved)
    <3>1. Cardinality(Saved) \in Nat
      BY CamerasAssumption, FS_CardinalityType
    <3> QED
      BY <1>2, <3>1, FS_Interval
  <2>3. f \in Surjection(sups, Saved)
    BY <2>1, <2>2, CamerasAssumption, FS_Injection, Zenon
  <2> QED
    BY <2>3 DEF Surjection
<1>10. ASSUME NEW c \in Camera
       PROVE  Applied(c)
  <2>1. On(c) <=> c \in Saved
    BY <1>2, <1>4 DEF On, FirstCfg
  <2>2. \A i \in Held(c) : c \in Saved /\ threads[i].cfg = db[c]
    BY <1>2, <1>3 DEF Held
  <2>3. c \in Saved => Held(c) # {}
    BY <1>9 DEF Held
  <2> QED
    BY <2>1, <2>2, <2>3 DEF Applied
<1>11. Clean
  BY <1>2, <1>6, <1>10 DEF Clean, Settled
<1>12. Enough
  <2>1. Unanswered = Request
    BY <1>7 DEF Unanswered
  <2>2. Cardinality(Saved) \in Nat /\ Cardinality(Request) \in Nat
    BY CamerasAssumption, FS_CardinalityType
  <2>3. Cardinality(DOMAIN threads) = Cardinality(Saved)
    BY <1>2, <2>2, FS_Interval
  <2> QED
    BY <1>2, <1>6, <2>1, <2>2, <2>3 DEF Enough, Work
<1> QED
  BY <1>8, <1>11, <1>12

\* A request that notes its camera has answered.
LEMMA PostKeepsEnough ==
  ASSUME IInv, Typed, Enough, NEW r \in Request, Post(r)
  PROVE  Enough'
<1>1. UNCHANGED <<loop, threads>>
  BY DEF Post
<1>2. PICK c \in Camera : Touches(r, c)
  BY PostStep
<1>3. pending \in Seq(Camera) /\ Len(pending) \in Nat /\ Len(loop.queue) \in Nat
      /\ Cardinality(DOMAIN threads) \in Nat
  BY WorkType DEF Typed
<1>4. IsFiniteSet(Unanswered) /\ Unanswered' \subseteq Unanswered
      /\ Cardinality(Unanswered) \in Nat
  <2>1. IsFiniteSet(Unanswered)
    BY CamerasAssumption, FS_Subset DEF Unanswered
  <2>2. r \in Unanswered
    BY <1>2 DEF Touches, Unanswered, Busy
  <2>3. \A q \in Request : q # r => req'[q] = req[q]
    BY <1>2 DEF Touches
  <2> QED
    BY <2>1, <2>2, <2>3, FS_CardinalityType DEF Unanswered
<1>5. Cardinality(Unanswered') <= Cardinality(Unanswered)
      /\ Cardinality(Unanswered') \in Nat
  BY <1>4, FS_Subset, FS_CardinalityType
<1>6. Cardinality(Saved) \in Nat /\ Cardinality(Request) \in Nat
  BY CamerasAssumption, FS_CardinalityType
<1>7. CASE pending' = pending
  BY <1>1, <1>3, <1>4, <1>5, <1>6, <1>7 DEF Enough, Work
<1>8. CASE req'[r].at = "done" /\ pending' = Append(pending, c) /\ Busy(r)
  <2>1. r \in Unanswered /\ r \notin Unanswered'
    BY <1>8 DEF Unanswered, Busy
  <2>2. Cardinality(Unanswered') # Cardinality(Unanswered)
    BY <1>4, <2>1, FS_Subset
  <2>3. Len(pending') = Len(pending) + 1
    BY <1>3, <1>8
  <2>4. Work' = Work + 1 /\ Work \in Nat
    BY <1>1, <1>3, <2>3 DEF Work
  <2>5. Cardinality(Unanswered') <= Cardinality(Unanswered) - 1
    BY <1>4, <1>5, <2>2
  <2>6. Work + Cardinality(Unanswered) <= Cardinality(Saved) + Cardinality(Request)
    BY DEF Enough
  <2>7. Work' + Cardinality(Unanswered') <= Cardinality(Saved) + Cardinality(Request)
    BY <1>4, <1>5, <1>6, <2>4, <2>5, <2>6
  <2> QED
    BY <2>7 DEF Enough
<1> QED
  BY <1>2, <1>7, <1>8 DEF Touches

LEMMA SavesInductive == Spec => [](IInv /\ Typed /\ Clean /\ Enough)
<1> DEFINE Inv == IInv /\ Typed /\ Clean /\ Enough
<1>1. Init => Inv
  BY StartShape, StartTyped DEF IInv
<1>2. Inv /\ [Next]_vars => Inv'
  <2> SUFFICES ASSUME IInv, Typed, Clean, Enough, [Next]_vars
               PROVE  IInv' /\ Typed' /\ Clean' /\ Enough'
    OBVIOUS
  <2>1. CASE UNCHANGED <<db, req, faults, pending, loop, known, sups, threads>>
    <3>1. IInv'
      BY <2>1 DEF IInv, Shape, IsLoop, Owned, Mine, Alive, AllCounted
    <3>2. Typed'
      BY <2>1 DEF Typed, Busy
    <3>3. Clean'
      BY <2>1 DEF Clean, Settled, Answers, Applied, On, Loaded, Held
    <3>4. Enough'
      BY <2>1 DEF Enough, Work, Unanswered
    <3> QED
      BY <3>1, <3>2, <3>3, <3>4
  <2>2. CASE Loop
    <3>1. Unanswered' = Unanswered
      BY <2>2 DEF Loop, Settings, Unanswered
    <3>2. /\ IInv' /\ Typed' /\ Clean' /\ Work' <= Work
      BY <2>2, LoopKeeps, LoopSettles
    <3>3. Work \in Nat
      BY WorkType DEF Work
    <3>4. Work' \in Nat
      <4>1. /\ Cardinality(DOMAIN threads') \in Nat
            /\ Len(pending') \in Nat /\ Len(loop'.queue) \in Nat
        <5>1. PICK n \in Nat : DOMAIN threads' = 1..n
          BY <3>2 DEF IInv, Shape
        <5>2. Cardinality(1..n) = n
          BY <5>1, FS_Interval
        <5>3. pending' \in Seq(Camera) /\ loop'.queue \in Seq(Camera)
          BY <3>2 DEF Typed, LoopType
        <5> QED
          BY <5>1, <5>2, <5>3
      <4> QED
        BY <4>1 DEF Work
    <3>5. Cardinality(Saved) \in Nat /\ Cardinality(Request) \in Nat
          /\ Cardinality(Unanswered) \in Nat
      <4>1. IsFiniteSet(Unanswered)
        BY CamerasAssumption, FS_Subset DEF Unanswered
      <4> QED
        BY <4>1, CamerasAssumption, FS_CardinalityType
    <3> QED
      BY <3>1, <3>2, <3>3, <3>4, <3>5 DEF Enough
  <2>3. ASSUME NEW i \in DOMAIN threads, Sup(i)
        PROVE  IInv' /\ Typed' /\ Clean' /\ Enough'
    <3>1. UNCHANGED <<req, pending, loop>> /\ DOMAIN threads' = DOMAIN threads
      BY <2>3, SupStep DEF Sup, IInv
    <3>2. Enough'
      BY <3>1 DEF Enough, Work, Unanswered
    <3> QED
      BY <2>3, <3>2, SupKeeps, SupSettles
  <2>4. ASSUME NEW r \in Request, Post(r)
        PROVE  IInv' /\ Typed' /\ Clean' /\ Enough'
    <3>1. UNCHANGED <<threads, sups, loop>>
      BY <2>4 DEF Post
    <3>2. IInv'
      BY <3>1 DEF IInv, Shape, IsLoop, Owned, Mine, Alive, AllCounted
    <3> QED
      BY <2>4, <3>2, PostStep, PostSettles, PostKeepsEnough
  <2> QED
    BY <2>1, <2>2, <2>3, <2>4 DEF Next, CtrlC, vars
<1> QED
  BY <1>1, <1>2, PTL DEF Spec

LEMMA TypesFollow ==
  ASSUME IInv, Typed, Enough
  PROVE  TypeOK
<1>1. DOMAIN threads \subseteq Ids
  <2>1. IsFiniteSet(Unanswered)
    BY CamerasAssumption, FS_Subset DEF Unanswered
  <2>2. Cardinality(Saved) \in Nat /\ Cardinality(Request) \in Nat
        /\ Cardinality(Unanswered) \in Nat
    BY <2>1, CamerasAssumption, FS_CardinalityType
  <2>3. Cardinality(DOMAIN threads) <= Cardinality(Saved) + Cardinality(Request)
    BY <2>2, WorkType DEF Enough, Work
  <2> QED
    BY <2>2, <2>3, WorkType DEF Ids
<1>2. /\ DOMAIN db \subseteq Camera /\ \A c \in DOMAIN db : db[c] \in Cfg
      /\ \A c \in DOMAIN loop.loaded : loop.loaded[c] \in Cfg
      /\ loop.at \in {"wait", "cameras", "addresses", "reconcile", "join", "stopping", "over"}
  BY ConfigsAt DEF Typed, LoopType
<1>3. \A r \in Request : req[r].at \in {"idle", "old", "delete", "insert", "done", "failed"}
  BY RequestTypes
<1>4. known \subseteq Camera /\ sups \subseteq DOMAIN threads
  BY DEF Typed, IInv, Owned, Mine
<1>5. ASSUME NEW i \in DOMAIN threads
      PROVE  /\ threads[i].cfg \in Cfg
             /\ threads[i].at \in {"top", "session", "backoff", "ended"}
             /\ MaxAttempts > 0 => threads[i].attempts \in 0..MaxAttempts
  <2>1. PICK C, G : threads[i] \in Thread(C, G)
    BY DEF IInv, Shape
  <2>2. threads[i].at \in Place /\ threads[i].attempts \in Nat
    BY <2>1 DEF Thread
  <2>3. MaxAttempts > 0 => threads[i].attempts <= MaxAttempts
    BY DEF IInv, AllCounted, Counted
  <2> QED
    BY <2>2, <2>3, CamerasAssumption DEF Place, Typed
<1> QED
  BY <1>1, <1>2, <1>3, <1>4, <1>5 DEF TypeOK

LEMMA SavesFollow ==
  ASSUME Typed, Clean
  PROVE  SavedIsApplied
<1> SUFFICES ASSUME Quiet, faults = 0, NEW c \in Camera,
                    \A r \in RequestsOf(c) : req[r].at = "done"
             PROVE  /\ {threads[i].cfg : i \in Held(c)} =
                         IF c \in DOMAIN db /\ db[c].enabled THEN {db[c]} ELSE {}
                    /\ c \in known <=> c \in DOMAIN db
  BY DEF SavedIsApplied
<1>1. loop.at = "wait" /\ pending = <<>> /\ loop.queue = <<>>
  BY DEF Quiet, Typed
<1>2. Answers(c) /\ ~Among(c, pending) /\ ~Among(c, loop.queue)
  BY <1>1 DEF Answers, RequestsOf, Among
<1>3. Applied(c) /\ (c \in known <=> c \in DOMAIN db)
  BY <1>1, <1>2 DEF Clean, Settled
<1>4. CASE On(c)
  <2>1. {threads[i].cfg : i \in Held(c)} = {db[c]}
    BY <1>3, <1>4 DEF Applied
  <2> QED
    BY <1>3, <1>4, <2>1 DEF On
<1>5. CASE ~On(c)
  <2>1. {threads[i].cfg : i \in Held(c)} = {}
    BY <1>3, <1>5 DEF Applied
  <2> QED
    BY <1>3, <1>5, <2>1 DEF On
<1> QED
  BY <1>4, <1>5

\* However the statements of the requests fall between those of the main loop,
\* what is saved of a camera is what runs, and what the router knows, once
\* nothing is under way and nothing failed (config_cameras_post, reconciliar);
\* and what the threads, the loop and the requests keep has its type.
THEOREM SavedIsWhatRuns == Spec => []RegisterSound
<1>1. IInv /\ Typed /\ Clean /\ Enough => RegisterSound
  BY TypesFollow, SavesFollow DEF RegisterSound
<1> QED
  BY <1>1, SavesInductive, PTL

=============================================================================
