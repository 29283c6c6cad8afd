----------------------------- MODULE PlayerFetch -----------------------------
(***************************************************************************)
(* The page's player and its requests (shared/ui/player.js): a session of  *)
(* the player is a generation, opened by a seek, by another camera or by   *)
(* going live; its fragments come by asynchronous requests, one at a time  *)
(* by a flag, and a loop of animation frames shows what is due and asks    *)
(* for more.  An answer may come when another generation is on.            *)
(***************************************************************************)
EXTENDS Naturals, Sequences

CONSTANTS
  Recording,  \* the recording: each fragment's wall times, which may go back
  Target,     \* ALVO_BUFFER_MS, in samples
  MaxOpens,   \* bound: generations
  MaxAsked,   \* bound: requests
  MaxFaults,  \* bound: requests that fail
  MaxPauses   \* bound: pauses

FetchAssumption ==
  /\ Recording \in Seq(Seq(Nat \ {0}))
  /\ {Target, MaxOpens, MaxAsked, MaxFaults, MaxPauses} \subseteq Nat

VARIABLES
  gen,      \* geracao
  live,     \* aoVivo
  playing,  \* tocando
  loops,    \* chains of requestAnimationFrame
  busy,     \* buscando
  cursor,   \* fragments got: cursor, or cursorLive
  ended,    \* fim
  waits,    \* esperaAte has not come
  pend,     \* pendentes: each sample's time, and the generation that asked it
  shown,    \* exibidoMs
  flights,  \* the requests in the air
  count     \* requests, failures and pauses so far

fvars == <<gen, live, playing, loops, busy, cursor, ended, waits, pend, shown, flights, count>>

FetchInit ==
  /\ gen = 0 /\ live = FALSE /\ playing = FALSE /\ loops = 0 /\ busy = FALSE /\ cursor = 0 /\ ended = FALSE
  /\ waits = FALSE /\ pend = <<>> /\ shown = 0 /\ flights = {}
  /\ count = [asked |-> 0, faults |-> 0, pauses |-> 0]

\* A request of a generation goes out; the one that opens it starts the loop.
Request(g, at, isLive, opens) ==
  /\ count.asked < MaxAsked /\ count' = [count EXCEPT !.asked = @ + 1]
  /\ flights' = flights \cup {[id |-> count.asked, gen |-> g, at |-> at, live |-> isLive, opens |-> opens]}

\* reiniciarEstado: everything is forgotten but the loop and what is in the air.
Restart ==
  /\ gen < MaxOpens /\ gen' = gen + 1
  /\ playing' = TRUE /\ busy' = TRUE /\ cursor' = 0 /\ ended' = FALSE /\ waits' = FALSE
  /\ pend' = <<>> /\ shown' = 0 /\ UNCHANGED loops

\* abrir and irPara: the first request of the new session goes out.
OpenRecording == Restart /\ live' = FALSE /\ Request(gen + 1, 0, FALSE, TRUE)

\* abrirAoVivo.
OpenLive == Restart /\ live' = TRUE /\ Request(gen + 1, 0, TRUE, TRUE)

\* pausar, and destruir.
Pause ==
  /\ playing /\ count.pauses < MaxPauses /\ playing' = FALSE /\ count' = [count EXCEPT !.pauses = @ + 1]
  /\ UNCHANGED <<gen, live, loops, busy, cursor, ended, waits, pend, shown, flights>>

\* retomar: another loop, whatever became of the one before.
Resume ==
  /\ gen > 0 /\ ~playing /\ playing' = TRUE /\ loops' = loops + 1
  /\ UNCHANGED <<gen, live, busy, cursor, ended, waits, pend, shown, flights, count>>

-----------------------------------------------------------------------------
(* The answers.                                                            *)

\* Of this generation still: no seek since.
Fits(r) == r.gen = gen

\* The promise is over: the flag falls, and the loop begins if it was the one
\* that opens.  Both whatever the generation is by then.
Settled(r) ==
  /\ flights' = flights \ {r} /\ busy' = FALSE
  /\ loops' = IF r.opens /\ playing THEN loops + 1 ELSE loops
  /\ UNCHANGED <<gen, live, playing, shown>>

\* A fragment: swallowed, and the cursor goes on.
Swallow ==
  \E r \in flights :
    /\ r.at < Len(Recording) /\ Settled(r)
    /\ IF Fits(r)
       THEN /\ cursor' = r.at + 1
            /\ pend' = pend \o [k \in 1 .. Len(Recording[r.at + 1]) |-> [at |-> Recording[r.at + 1][k], gen |-> r.gen]]
       ELSE UNCHANGED <<cursor, pend>>
    /\ UNCHANGED <<ended, waits, count>>

\* Nothing more: the recording's end, or a 204 of the live route, which makes
\* the next one wait.  A camera off the air empties what is to show.
Nothing ==
  \E r \in flights :
    /\ r.live \/ r.at = Len(Recording)
    /\ Settled(r) /\ cursor' = cursor
    /\ waits' = (waits \/ r.live)
    /\ ended' = (ended \/ (~r.live /\ Fits(r)))
    /\ \/ UNCHANGED pend
       \/ r.live /\ Fits(r) /\ pend' = <<>>
    /\ UNCHANGED count

\* The request fails.
Fail ==
  \E r \in flights :
    /\ count.faults < MaxFaults /\ count' = [count EXCEPT !.faults = @ + 1]
    /\ Settled(r) /\ waits' = (waits \/ r.live)
    /\ UNCHANGED <<cursor, ended, pend>>

\* esperaAte comes.
Wait ==
  /\ waits /\ waits' = FALSE
  /\ UNCHANGED <<gen, live, playing, loops, busy, cursor, ended, pend, shown, flights, count>>

-----------------------------------------------------------------------------
(* The loop.                                                               *)

\* Wrong on purpose: the last that is due, whatever it shows.
ShowsLast(n) == IF n = 0 THEN shown ELSE pend[n].at

\* One after the other: each that is due and later than what is shown is shown.
Shows(n) ==
  LET due == {shown} \cup {pend[i].at : i \in 1 .. n}
  IN  CHOOSE m \in due : \A d \in due : d <= m

\* pedirMaisSePreciso.
Wants == Len(pend') < Target /\ ~busy /\ IF live THEN ~waits ELSE ~ended

\* laco: paused, the chain ends; else some of what it has is due, and more is
\* asked for when little is left.
Turn ==
  /\ loops > 0
  /\ IF ~playing
     THEN loops' = loops - 1 /\ UNCHANGED <<pend, shown, busy, flights, count>>
     ELSE \E n \in 0 .. Len(pend) :
            /\ UNCHANGED loops
            /\ shown' = Shows(n) /\ pend' = SubSeq(pend, n + 1, Len(pend))
            /\ IF Wants THEN busy' = TRUE /\ Request(gen, cursor, live, FALSE)
                        ELSE UNCHANGED <<busy, flights, count>>
  /\ UNCHANGED <<gen, live, playing, cursor, ended, waits>>

FetchNext == OpenRecording \/ OpenLive \/ Pause \/ Resume \/ Swallow \/ Nothing \/ Fail \/ Wait \/ Turn

\* The browser turns the loops, and a request ends.
FetchSpec == FetchInit /\ [][FetchNext]_fvars /\ WF_fvars(Turn)

-----------------------------------------------------------------------------
(* Properties.                                                             *)

\* What is to show was asked for by this session: no answer to the camera or to
\* the place before gets in, whenever it comes.
NothingStale == \A i \in 1 .. Len(pend) : pend[i].gen = gen

\* Within a session the image never goes back, though the recording's times do
\* ("o relogio da reproducao nao anda para tras").
ForwardOnly == [][gen' = gen => shown' >= shown]_fvars

\* One request of a session at a time: geracao "invalida respostas em voo".
AskedOnce == \A r, s \in flights : r.gen = gen /\ s.gen = gen => r = s
=============================================================================
