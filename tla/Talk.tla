-------------------------------- MODULE Talk --------------------------------
(***************************************************************************)
(* Speaking through a camera: the talks open, one per camera               *)
(* (FalaRegistry of ptz.rs), and the talk itself (dvrip/talk.rs), a        *)
(* connection of its own with two threads, the pacer that plays a frame    *)
(* every 40 ms and the reader that drains the camera's microphone.  The    *)
(* page sends its audio in many POSTs: the first opens the talk, under the *)
(* registry's lock, and the others find it.  One camera; the queue counts  *)
(* parts of a frame.                                                       *)
(***************************************************************************)
EXTENDS Naturals

CONSTANTS
  Pages,      \* requests in progress at the same time
  MaxTalks,   \* bound: talks opened
  MaxPosts,   \* bound: requests
  Frame,      \* OPTALK_QUADRO, in parts
  Fill,       \* PREENCHER: the slack before playing
  QueueMax,   \* FILA_MAX
  Pieces,     \* the sizes a POST may bring, in parts
  IdleSteps   \* OCIOSA_MS, in steps of the pacer

TalkAssumption ==
  /\ {MaxTalks, MaxPosts, IdleSteps, Frame, Fill, QueueMax} \subseteq Nat
  /\ 0 < Frame /\ Frame <= Fill /\ Fill <= QueueMax /\ Pieces \subseteq Nat \ {0}
  /\ "nobody" \notin Pages

VARIABLES
  talks,     \* every talk ever opened, by its number
  opened,    \* how many
  listed,    \* FalaRegistry's entry for the camera: a number, 0 for none
  lock,      \* who holds the registry's lock: a page or "nobody"
  page,      \* each page's request
  posts      \* requests so far

kvars == <<talks, opened, listed, lock, page, posts>>

Talks == 1 .. MaxTalks

\* A talk: whether its thread still plays (viva), was told to stop (parar), its
\* connection is up (the camera's speaker is taken), the queue and whether it
\* is filling, and the pacer's steps since the last audio.
Unborn == [alive |-> FALSE, stop |-> FALSE, up |-> FALSE, queue |-> 0, filling |-> TRUE, quiet |-> 0]
Fresh == [Unborn EXCEPT !.alive = TRUE, !.up = TRUE]

Away == [phase |-> "away", holds |-> 0, turn |-> 0]

TalkInit ==
  /\ talks = [t \in Talks |-> Unborn] /\ opened = 0 /\ listed = 0 /\ lock = "nobody"
  /\ page = [p \in Pages |-> Away] /\ posts = 0

-----------------------------------------------------------------------------
(* The registry.                                                           *)

\* acao=enviar with a body: the first of two turns.
Post(p) ==
  /\ page[p].phase = "away" /\ posts < MaxPosts
  /\ page' = [page EXCEPT ![p] = [phase |-> "seeks", holds |-> 0, turn |-> 1]]
  /\ posts' = posts + 1
  /\ UNCHANGED <<talks, opened, listed, lock>>

\* Who opens keeps the lock meanwhile: two POSTs at the start would open two
\* talks, and the camera has one speaker.
Keeps(p) == lock' = p

\* A talk that died is taken out; one that lives is used; else one is opened.
Seek(p) ==
  /\ page[p].phase = "seeks" /\ lock = "nobody"
  /\ IF listed # 0 /\ talks[listed].alive
     THEN /\ page' = [page EXCEPT ![p].phase = "feeds", ![p].holds = listed]
          /\ UNCHANGED <<listed, lock>>
     ELSE /\ listed' = 0 /\ Keeps(p) /\ page' = [page EXCEPT ![p].phase = "opens"]
  /\ UNCHANGED <<talks, opened, posts>>

\* No session is alive, the camera cannot be reached or refuses (it may have
\* another talk open): the request ends in an error.
Refused(p) ==
  /\ page[p].phase = "opens" /\ lock' = "nobody"
  /\ page' = [page EXCEPT ![p] = Away]
  /\ UNCHANGED <<talks, opened, listed, posts>>

\* DvripTalk::abrir: login, claim, start; the two threads run and the registry
\* has it.
Opened(p) ==
  /\ page[p].phase = "opens" /\ opened < MaxTalks
  /\ opened' = opened + 1 /\ talks' = [talks EXCEPT ![opened + 1] = Fresh]
  /\ listed' = opened + 1 /\ lock' = "nobody"
  /\ page' = [page EXCEPT ![p].phase = "feeds", ![p].holds = opened + 1]
  /\ UNCHANGED posts

\* What the queue keeps of what arrives: the newest.
Capped(n) == IF n > QueueMax THEN QueueMax ELSE n

\* DvripTalk::enviar.  A talk that died in between sends the request on its
\* second turn, and then to an error.
Feed(p) ==
  /\ page[p].phase = "feeds"
  /\ LET t == page[p].holds
     IN IF talks[t].alive
        THEN /\ \E n \in Pieces : talks' = [talks EXCEPT ![t].queue = Capped(@ + n), ![t].quiet = 0]
             /\ page' = [page EXCEPT ![p] = Away]
        ELSE /\ page' = [page EXCEPT ![p] = IF @.turn = 1 THEN [phase |-> "seeks", holds |-> 0, turn |-> 2]
                                            ELSE Away]
             /\ UNCHANGED talks
  /\ UNCHANGED <<opened, listed, lock, posts>>

\* acao=fechar: taken out under the lock, closed outside of it.
Remove(p) ==
  /\ page[p].phase = "away" /\ posts < MaxPosts /\ lock = "nobody" /\ listed # 0
  /\ page' = [page EXCEPT ![p] = [phase |-> "stops", holds |-> listed, turn |-> 0]]
  /\ listed' = 0 /\ posts' = posts + 1
  /\ UNCHANGED <<talks, opened, lock>>

\* DvripTalk::fechar: told to stop; then its threads are waited for.
Stop(p) ==
  /\ page[p].phase = "stops"
  /\ talks' = [talks EXCEPT ![page[p].holds].stop = TRUE]
  /\ page' = [page EXCEPT ![p].phase = "joins"]
  /\ UNCHANGED <<opened, listed, lock, posts>>

Join(p) ==
  /\ page[p].phase = "joins" /\ ~talks[page[p].holds].up
  /\ page' = [page EXCEPT ![p] = Away]
  /\ UNCHANGED <<talks, opened, listed, lock, posts>>

-----------------------------------------------------------------------------
(* The talk's threads.                                                     *)

\* A step of the pacer, every 40 ms: a frame goes out once the slack is there;
\* a queue that cannot give one fills again.
Played(k) ==
  LET going == ~k.filling \/ k.queue >= Fill
      plays == going /\ k.queue >= Frame
  IN [k EXCEPT !.queue = IF plays THEN @ - Frame ELSE @,
               !.filling = ~plays,
               !.quiet = IF @ > IdleSteps THEN @ ELSE @ + 1]

\* Silence: nothing queued and nothing sent for three seconds.
Silent(k) == k.queue = 0 /\ k.quiet > IdleSteps

\* Wrong on purpose: told to stop, it plays what is queued first.
PaceDrains(t) ==
  /\ talks[t].up
  /\ LET k == Played(talks[t])
     IN talks' = [talks EXCEPT ![t] =
          IF @.stop /\ @.queue = 0 THEN [@ EXCEPT !.alive = FALSE, !.up = FALSE]
          ELSE IF Silent(k) THEN [k EXCEPT !.alive = FALSE, !.stop = TRUE]
          ELSE k]
  /\ UNCHANGED <<opened, listed, lock, page, posts>>

\* laco_ritmo, a turn.  Told to stop, out of audio or unable to write, the
\* pacer marks the talk dead and stops the reader.
Pace(t) ==
  /\ talks[t].up
  /\ LET k == Played(talks[t])
     IN talks' = [talks EXCEPT ![t] =
          IF @.stop THEN [@ EXCEPT !.alive = FALSE, !.up = FALSE]
          ELSE IF Silent(k) THEN [k EXCEPT !.alive = FALSE, !.stop = TRUE]
          ELSE k]
  /\ UNCHANGED <<opened, listed, lock, page, posts>>

\* laco_leitor: the connection fell, and the reader ends the talk.
ReaderEnd(t) ==
  /\ talks[t].up /\ ~talks[t].stop
  /\ talks' = [talks EXCEPT ![t].alive = FALSE, ![t].stop = TRUE]
  /\ UNCHANGED <<opened, listed, lock, page, posts>>

TalkNext ==
  \/ \E p \in Pages : \/ Post(p) \/ Seek(p) \/ Refused(p) \/ Opened(p) \/ Feed(p)
                      \/ Remove(p) \/ Stop(p) \/ Join(p)
  \/ \E t \in Talks : Pace(t) \/ ReaderEnd(t)

\* The pacer runs, and who closes goes on.
TalkSpec ==
  /\ TalkInit /\ [][TalkNext]_kvars
  /\ \A t \in Talks : WF_kvars(Pace(t))
  /\ \A p \in Pages : WF_kvars(Stop(p))

-----------------------------------------------------------------------------
(* Properties.                                                             *)

\* "two POSTs at the start would open two talks, and the camera has one
\* speaker": however the requests interleave, at most one talk plays besides
\* those that are being closed or have been told to stop.
Closing(t) == talks[t].stop \/ \E p \in Pages : page[p].phase \in {"stops", "joins"} /\ page[p].holds = t
Speaks(t) == talks[t].alive /\ ~Closing(t)
OneVoice == \A t, u \in Talks : Speaks(t) /\ Speaks(u) => t = u

\* Whoever ends a talk, the page, the pacer or the reader, its connection is
\* closed in the end and the camera's speaker is free again.
SpeakerFreed == \A t \in Talks : talks[t].up /\ (~talks[t].alive \/ Closing(t)) ~> ~talks[t].up

\* A talk nobody feeds any more ends by itself.  The code breaks it: what is
\* left of a frame, or of the slack, stays in the queue for ever, and a queue
\* that is not empty is not silence.
QuietEnds == \A t \in Talks : <>[](talks[t].up => talks[t].stop)
=============================================================================
