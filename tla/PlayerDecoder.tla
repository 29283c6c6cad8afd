---------------------------- MODULE PlayerDecoder ----------------------------
(***************************************************************************)
(* What decodes the video of the page's player (shared/ui/player.js): the  *)
(* browser's decoder in hardware or in software, or the device by the      *)
(* native way.  It is decided by format, by questions the browser answers  *)
(* later, and by the errors of the decoder; what was learnt of a format is *)
(* kept for the page.  The browser is external: which formats each engine  *)
(* manages is chosen at the start and never told directly.                 *)
(***************************************************************************)
EXTENDS Naturals

CONSTANTS
  Formats,        \* codec and size
  MaxRecoveries,  \* MAX_RECUPERACOES
  MaxOpens,       \* bound: sessions of the player
  MaxConfigures,  \* bound: formats that come
  MaxErrors       \* bound: errors of a decoder that can decode

DecoderAssumption == {MaxRecoveries, MaxOpens, MaxConfigures, MaxErrors} \subseteq Nat

VARIABLES
  browser,    \* what it manages: formats in hardware, in software, and the native way
  gen,        \* geracao
  fmt,        \* cadeia and size of what plays
  dec,        \* "none", "open" or "closed" (it closes by itself at an error)
  in,         \* the engine it was opened with: "hard" or "soft"
  software,   \* usandoSoftware
  tried,      \* tentouSoftware
  errors,     \* errosNaSessao, up to 2
  burst,      \* recuperacoes, and whether the last is less than two seconds old
  native,     \* nativo
  gaveUp,     \* the message of the end was shown
  asks,       \* isConfigSupported in the air
  questions,  \* decodingInfo in the air
  support,    \* Player.suporte
  needed,     \* Player.softwareNecessario
  count       \* formats configured, and errors of a good decoder

dvars == <<browser, gen, fmt, dec, in, software, tried, errors, burst, native, gaveUp, asks, questions, support, needed,
           count>>
page == <<browser, support, needed>>

None == "none"

DecoderInit ==
  /\ browser \in [hard : SUBSET Formats, soft : SUBSET Formats, app : BOOLEAN]
  /\ gen = 0 /\ fmt = None /\ dec = "none" /\ in = "hard" /\ software = FALSE /\ tried = FALSE
  /\ errors = 0 /\ burst = [n |-> 0, fresh |-> FALSE] /\ native = FALSE /\ gaveUp = FALSE
  /\ asks = {} /\ questions = {} /\ support = [f \in Formats |-> None] /\ needed = {}
  /\ count = [formats |-> 0, errors |-> 0]

\* reiniciarEstado.  What a burst counts is not the session's, and stays.
Open ==
  /\ gen < MaxOpens /\ gen' = gen + 1
  /\ fmt' = None /\ dec' = "none" /\ software' = FALSE /\ tried' = FALSE /\ errors' = 0
  /\ native' = FALSE /\ gaveUp' = FALSE
  /\ UNCHANGED <<page, in, burst, asks, questions, count>>

\* abrirDecodificador.
Opens(soft) == dec' = "open" /\ in' = (IF soft THEN "soft" ELSE "hard")

\* adotarOQueJaSeSabe: what failed in hardware before starts in software.
Adopts(f) == software \/ f \in needed

\* configurarVideo, at the first fragment and at a discontinuity:
\* decidirCaminho asks what it does not know, and the decoder opens meanwhile.
Configure(f) ==
  /\ gen > 0 /\ count.formats < MaxConfigures /\ count' = [count EXCEPT !.formats = @ + 1]
  /\ fmt' = f
  /\ native' = (support[f] = "no")
  /\ questions' = IF support[f] = None THEN questions \cup {[fmt |-> f, gen |-> gen]} ELSE questions
  /\ IF native' THEN dec' = "none" /\ UNCHANGED <<in, software>> ELSE software' = Adopts(f) /\ Opens(software')
  /\ UNCHANGED <<page, gen, tried, errors, burst, gaveUp, asks>>

\* The browser says whether it decodes a format of that size; if not, the app
\* is asked for a frame, and answers or not.  No session is compared.
Answered(q) ==
  /\ q \in questions /\ questions' = questions \ {q}
  /\ LET manages == q.fmt \in browser.hard
     IN IF manages \/ ~browser.app
        THEN support' = [support EXCEPT ![q.fmt] = "yes"] /\ UNCHANGED <<native, dec>>
        ELSE support' = [support EXCEPT ![q.fmt] = "no"] /\ native' = TRUE /\ dec' = "none"
  /\ UNCHANGED <<browser, gen, fmt, in, software, tried, errors, burst, gaveUp, asks, needed, count>>

\* trocarParaSoftware: the browser is asked, and if it has none, `senao`.
Asks(else) == asks' = asks \cup {[fmt |-> fmt, gen |-> gen, else |-> else]}

\* Wrong on purpose: without software nothing is opened again.
RefusedAnyway(a) == UNCHANGED <<dec, in>>

\* No software for the format: back to the hardware, when there is a `senao`.
Refused(a) == IF a.else THEN Opens(FALSE) ELSE UNCHANGED <<dec, in>>

SoftwareTold(a) ==
  /\ a \in asks /\ asks' = asks \ {a}
  /\ IF a.gen # gen THEN UNCHANGED <<dec, in, software, needed>>
     ELSE IF a.fmt \in browser.soft
     THEN /\ software' = TRUE /\ needed' = needed \cup {fmt} /\ Opens(TRUE)
     ELSE Refused(a) /\ UNCHANGED <<software, needed>>
  /\ UNCHANGED <<browser, gen, fmt, tried, errors, burst, native, gaveUp, questions, support, count>>

Manages == fmt \in (IF in = "soft" THEN browser.soft ELSE browser.hard)

\* The decoder fails: what it cannot decode, always; what it can, now and then.
\* recuperarDoErro: too many in a burst and the player gives up, and says so;
\* from the second of the session on, software; else it opens again.
DecoderError ==
  /\ dec = "open" /\ fmt # None
  /\ IF Manages THEN count.errors < MaxErrors /\ count' = [count EXCEPT !.errors = @ + 1] ELSE UNCHANGED count
  /\ errors' = IF errors < 2 THEN errors + 1 ELSE 2
  /\ burst' = [n |-> IF burst.fresh THEN burst.n + 1 ELSE 1, fresh |-> TRUE]
  /\ IF burst'.n > MaxRecoveries
     THEN gaveUp' = TRUE /\ dec' = "closed" /\ UNCHANGED <<in, asks>>
     ELSE IF errors' >= 2 /\ ~software
     THEN Asks(TRUE) /\ dec' = "closed" /\ UNCHANGED <<in, gaveUp>>
     ELSE Opens(software) /\ UNCHANGED <<asks, gaveUp>>
  /\ UNCHANGED <<page, gen, fmt, software, tried, native, questions>>

\* Two seconds without an error.  (A decoder that cannot decode fails at once,
\* and the browser answers sooner than that.)
Calm ==
  /\ burst.fresh /\ (dec = "none" \/ gaveUp \/ (dec = "open" /\ Manages)) /\ burst' = [burst EXCEPT !.fresh = FALSE]
  /\ UNCHANGED <<page, gen, fmt, dec, in, software, tried, errors, native, gaveUp, asks, questions, count>>

\* A frame smaller than the format says: tentarSoftware, once.
SmallFrame ==
  /\ dec = "open" /\ fmt # None /\ Manages /\ ~tried /\ tried' = TRUE /\ Asks(FALSE)
  /\ UNCHANGED <<page, gen, fmt, dec, in, software, errors, burst, native, gaveUp, questions, count>>

Told == (\E a \in asks : SoftwareTold(a)) \/ (\E q \in questions : Answered(q))
Fails == dec = "open" /\ ~Manages /\ DecoderError

DecoderNext ==
  \/ Open \/ (\E f \in Formats : Configure(f))
  \/ (\E q \in questions : Answered(q)) \/ (\E a \in asks : SoftwareTold(a))
  \/ DecoderError \/ Calm \/ SmallFrame

\* The browser answers what it is asked, and a decoder fails at what it cannot.
DecoderSpec == DecoderInit /\ [][DecoderNext]_dvars /\ WF_dvars(Told) /\ WF_dvars(Fails)

-----------------------------------------------------------------------------
(* Properties.                                                             *)

\* "Desistir CALADO era o pior dos dois mundos": what plays comes to a decoder
\* that decodes it, to the native way, or to the message that says it cannot.
NeverSilent ==
  (fmt # None) ~> (native \/ gaveUp \/ fmt = None \/ (dec = "open" /\ Manages))

\* What the two flags are for: no decoder is opened in software for a format
\* that has no such decoder ("toda reconfiguracao pedia software e levava
\* Unsupported configuration").
SoftwareThereIs == dec = "open" /\ in = "soft" => fmt \in browser.soft

\* The native way is for what this browser does not decode.
NativeFits == native => support[fmt] = "no"
=============================================================================
