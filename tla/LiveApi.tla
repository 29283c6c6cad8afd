------------------------------- MODULE LiveApi -------------------------------
(***************************************************************************)
(* Players of the HTTP live route over LiveRing: live_fragment in           *)
(* shared/src/live.rs on the server, and Player.pedirAoVivo in              *)
(* shared/ui/player.js on the other side.  A request parses the cursor the  *)
(* player sends back, subscribes or fetches, and answers with a fragment or *)
(* with nothing; each call on the ring locks it on its own, so that the     *)
(* camera may act between any two.  A server that restarts has a new ring,  *)
(* and players keep their cursors.                                          *)
(***************************************************************************)
EXTENDS LiveRing

CONSTANTS
  Players,
  MaxSamples, \* LIVE_MAX_SAMPLES: samples in one fragment
  LiveMs,     \* how recent the last sample must be (is_publishing)
  MaxRuns     \* bound: runs of the server

ASSUME LiveApiAssumption ==
  MaxSamples \in Nat \ {0} /\ LiveMs \in Nat /\ MaxRuns \in Nat \ {0}

VARIABLES
  kept,     \* the cursor the player sends: NoCursor until it gets one
  step,     \* the call live_fragment does next; "idle": no request
  cur,      \* the cursor in live_fragment
  marked,   \* desc: the answer will carry X-Vms-Discontinuity
  items,    \* the samples of the fragment being built
  decoder,  \* the formats the player's decoder is configured for
  frag,     \* ghost: the fragment the player is given in this very step
  got,      \* ghost: the last sample of this run the player was given, or -1
  run       \* ghost: runs of the server so far

player == <<kept, step, cur, marked, items, decoder, got, run>>
vars == <<ringVars, player, frag>>

NoCursor == [next |-> -1, epoch |-> 0, wait |-> FALSE]
NoFormats == [t \in Track |-> NoFormat]
NoFragment == [items |-> {}, marked |-> FALSE, header |-> NoFormats,
               after |-> -1, was |-> NoFormat]
NoFragments == [p \in Players |-> NoFragment]

Init ==
  /\ Start
  /\ kept = [p \in Players |-> NoCursor]
  /\ step = [p \in Players |-> "idle"]
  /\ cur = [p \in Players |-> NoCursor]
  /\ marked = [p \in Players |-> FALSE]
  /\ items = [p \in Players |-> {}]
  /\ decoder = [p \in Players |-> NoFormats]
  /\ frag = NoFragments
  /\ got = [p \in Players |-> -1]
  /\ run = 1

IsPublishing == lastMs > 0 /\ now - lastMs <= LiveMs

Goto(p, to) == step' = [step EXCEPT ![p] = to]

\* The player asks; live_fragment parses the cursor, which fails for a player
\* that has none.  Off the air it answers at once, without a cursor.
Ask(p) ==
  /\ step[p] = "idle"
  /\ IsPublishing
  /\ IF kept[p] = NoCursor
     THEN /\ marked' = [marked EXCEPT ![p] = TRUE]
          /\ Goto(p, "subscribe")
          /\ UNCHANGED cur
     ELSE /\ marked' = [marked EXCEPT ![p] = FALSE]
          /\ cur' = [cur EXCEPT ![p] = kept[p]]
          /\ Goto(p, "fetch")
  /\ UNCHANGED <<kept, items, decoder, got, run>>

Subscribe(p) ==
  /\ step[p] \in {"subscribe", "resubscribe"}
  /\ cur' = [cur EXCEPT ![p] = Position]
  /\ Goto(p, IF step[p] = "subscribe" THEN "fetch" ELSE "refetch")
  /\ UNCHANGED <<kept, marked, items, decoder, got, run>>

\* The first samples of a set, as many as a fragment takes.
FirstOf(S) == {s \in S : Cardinality({e \in S : e < s}) < MaxSamples}

\* nada: an answer without media, with the cursor to go on from.
Nothing(p, c) ==
  /\ kept' = [kept EXCEPT ![p] = c]
  /\ Goto(p, "idle")

\* fetch answers with samples, or with none once what was held back is out.
FetchSamples(p) ==
  /\ step[p] \in {"fetch", "refetch"}
  /\ HasNew(cur[p])
  /\ LET at == From(cur[p])
         seqs == FirstOf(Fetched(at))
     IN  /\ cur' = [cur EXCEPT ![p] = After(at)]
         /\ marked' = [marked EXCEPT ![p] =
                         @ \/ (Behind(cur[p]) /\ step[p] = "fetch")]
         /\ IF seqs = {}
            THEN Nothing(p, After(at)) /\ UNCHANGED items
            ELSE /\ items' = [items EXCEPT ![p] = {ItemAt(s) : s \in seqs}]
                 /\ Goto(p, "answer")
                 /\ UNCHANGED kept
  /\ UNCHANGED <<decoder, got, run>>

\* fetch's time runs out with nothing new.
FetchNone(p) ==
  /\ step[p] \in {"fetch", "refetch"}
  /\ ~FormatChanged(cur[p]) /\ ~HasNew(cur[p])
  /\ Nothing(p, cur[p])
  /\ UNCHANGED <<cur, marked, items, decoder, got, run>>

\* The epoch is another: subscribe again, and fetch once without waiting.
FetchChanged(p) ==
  /\ step[p] = "fetch"
  /\ FormatChanged(cur[p])
  /\ marked' = [marked EXCEPT ![p] = TRUE]
  /\ Goto(p, "resubscribe")
  /\ UNCHANGED <<kept, cur, items, decoder, got, run>>

RefetchChanged(p) ==
  /\ step[p] = "refetch"
  /\ FormatChanged(cur[p])
  /\ Nothing(p, cur[p])
  /\ UNCHANGED <<cur, marked, items, decoder, got, run>>

\* There is no header without a video format: the samples fetched are let go.
AnswerNothing(p) ==
  /\ step[p] = "answer"
  /\ format["video"] = NoFormat
  /\ Nothing(p, cur[p])
  /\ items' = [items EXCEPT ![p] = {}]
  /\ UNCHANGED <<cur, marked, decoder, got, run>>

\* The fragment: the header read now, the samples fetched before, the mark.
\* The player configures its decoder on the first fragment and on a marked one.
Answer(p) ==
  /\ step[p] = "answer"
  /\ format["video"] # NoFormat
  /\ LET last == CHOOSE s \in {i.seq : i \in items[p]} :
                   \A i \in items[p] : i.seq <= s
     IN  got' = [got EXCEPT ![p] = last]
  /\ frag' = [NoFragments EXCEPT ![p] =
                [items |-> items[p], marked |-> marked[p], header |-> format,
                 after |-> got[p], was |-> decoder[p]["video"]]]
  /\ decoder' = [decoder EXCEPT ![p] =
                   IF marked[p] \/ @ = NoFormats THEN format ELSE @]
  /\ kept' = [kept EXCEPT ![p] = cur[p]]
  /\ items' = [items EXCEPT ![p] = {}]
  /\ Goto(p, "idle")
  /\ UNCHANGED <<cur, marked, run>>

\* The server stops and starts: requests are lost, the ring is new.
Restart ==
  /\ run < MaxRuns
  /\ run' = run + 1
  /\ slots' = [i \in SlotIds |-> NoItem]
  /\ first' = 0 /\ next' = 0 /\ bytes' = 0
  /\ epoch' = 1
  /\ format' = NoFormats
  /\ lastMs' = 0
  /\ up' = {} /\ lastVideo' = -1
  /\ step' = [p \in Players |-> "idle"]
  /\ items' = [p \in Players |-> {}]
  /\ got' = [p \in Players |-> -1]
  /\ frag' = NoFragments
  /\ UNCHANGED <<now, gen, kept, cur, marked, decoder>>

Serve(p) ==
  \/ Answer(p)
  \/ /\ Subscribe(p) \/ FetchSamples(p) \/ FetchNone(p) \/ FetchChanged(p)
        \/ RefetchChanged(p) \/ AnswerNothing(p)
     /\ frag' = NoFragments

Next ==
  \/ Camera /\ frag' = NoFragments /\ UNCHANGED player
  \/ \E p \in Players : /\ (Ask(p) /\ frag' = NoFragments) \/ Serve(p)
                        /\ UNCHANGED ringVars
  \/ Restart

Spec == Init /\ [][Next]_vars

-----------------------------------------------------------------------------
(* Properties *)

Cursor == [next : Int, epoch : Nat, wait : BOOLEAN]

TypeOK ==
  /\ RingTypeOK
  /\ kept \in [Players -> Cursor]
  /\ cur \in [Players -> Cursor]
  /\ step \in [Players -> {"idle", "subscribe", "fetch", "resubscribe",
                           "refetch", "answer"}]
  /\ marked \in [Players -> BOOLEAN]
  /\ items \in [Players -> SUBSET Item]
  /\ \A p \in Players : Cardinality(items[p]) <= MaxSamples
  /\ got \in [Players -> Int]

\* Within one run of the server a player is never given a sample twice, nor an
\* older one after a newer one, whatever happens to the ring between its
\* requests and between the calls of one request.
NoRepeat ==
  \A p \in Players : \A i \in frag[p].items : frag[p].after < i.seq

\* A fragment marked as a discontinuity can be decoded from its own samples: its
\* first video is a keyframe and each delta frame follows the one before it
\* (the mark makes the player start a new decoder).
MarkedStartsAtKey ==
  \A p \in Players :
    frag[p].marked =>
      \A i \in frag[p].items :
        i.track = "video" /\ ~i.key =>
          \E j \in frag[p].items : j.seq = i.prev

\* A player gets no sample twice, through overruns and a restart of the server,
\* and what is marked as a new start begins with a keyframe.
FragmentsFollow == TypeOK /\ NoRepeat /\ MarkedStartsAtKey

\* "so a primeira configura, e a troca de formato limpa o anel do lado do
\* servidor" (shared/ui/player.js:1074-1075) and "o formato entregue caducou"
\* (shared/src/live.rs:94): the first fragment with video of another format than
\* the one the player's decoder was configured for carries the mark that makes
\* the player configure it again.
NewFormatIsMarked ==
  \A p \in Players :
    \A i \in frag[p].items :
      i.track = "video" /\ frag[p].was \notin {NoFormat, i.fmt} => frag[p].marked

=============================================================================
