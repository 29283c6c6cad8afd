------------------------------ MODULE MediaApi ------------------------------
(***************************************************************************)
(* The pieces of media a player asks for, one after another, by instant    *)
(* and then by cursor: src/server/src/media.rs and the route /api/media.   *)
(* A request finds the file, takes its index, reads blocks and says where  *)
(* the next one goes on, while the recorder writes blocks, closes a file   *)
(* (or leaves it without a footer) and opens the next, and the retention   *)
(* deletes the oldest.                                                     *)
(*                                                                         *)
(* One camera; a block is the instant it starts, and instants are counted. *)
(***************************************************************************)
EXTENDS Integers, Sequences

CONSTANTS
    NFiles,         \* bound: recordings of the camera
    MaxBlocks,      \* bound: blocks of a file
    MaxTime,        \* bound: the clock
    Assumed,        \* ASSUMED_LAST_BLOCK_MS, ASSUMED_BLOCK_MS
    Wanted,         \* the numbers of blocks a player asks for
    MaxAsked        \* bound: requests of the player

MediaApiAssumption ==
    /\ {NFiles, MaxBlocks, MaxTime, Assumed, MaxAsked} \subseteq Nat
    /\ Wanted \subseteq Nat \ {0}

VARIABLES
    clock,
    recs,       \* recs[f]: blocks (their instants), keys, closed, on, over
    player,     \* what the player does and the cursor it holds
    fetch,      \* MediaBuilder::fetch, its locals; had is of the properties:
                \* what the file played last held when the request began
    got,        \* the blocks the player received, in order
    asks        \* requests made, for the bound

vars == <<clock, recs, player, fetch, got, asks>>

Recs == 1..NFiles
None == 0
-----------------------------------------------------------------------------
Last(s) == s[Len(s)]

\* list_files: what has a readable block, by its start.
Listed == {f \in Recs : recs[f].on /\ recs[f].blocks # <<>>}

StartMs(f) == recs[f].blocks[1]
EndMs(f) == Last(recs[f].blocks) + Assumed

First(F) == CHOOSE f \in F : \A g \in F : StartMs(f) <= StartMs(g)
Latest(F) == CHOOSE f \in F : \A g \in F : StartMs(f) >= StartMs(g)

\* resolve_by_time: the file with the instant, the first after it, the last.
ResolveByTime(ms) ==
    LET with == {f \in Listed : StartMs(f) <= ms /\ ms < EndMs(f)}
        after == {f \in Listed : StartMs(f) >= ms}
    IN  IF with # {} THEN First(with)
        ELSE IF after # {} THEN First(after)
        ELSE IF Listed # {} THEN Latest(Listed) ELSE None

\* next_file_after: the next of the list; by time if the file is not in it.
NextFileAfter(f, end) ==
    LET next == IF f \in Listed THEN {g \in Listed : StartMs(g) > StartMs(f)}
                ELSE {g \in Listed : StartMs(g) >= end}
    IN  IF next = {} THEN None ELSE First(next)

\* index_block_at_time; 0 is no block.
BlockAtTime(blocks, ms) ==
    LET upTo == {b \in 1..Len(blocks) : blocks[b] <= ms}
    IN  IF upTo = {} THEN 0 ELSE CHOOSE b \in upTo : \A c \in upTo : c <= b

\* index_keyframe_at_or_before; 0 is no block.
KeyframeAtOrBefore(keys, b) ==
    LET ks == {k \in keys : k <= b}
    IN  IF ks = {} THEN 0 ELSE CHOOSE k \in ks : \A c \in ks : c <= k

NoCursor == [file |-> None, block |-> 1, ms |-> 0, newFile |-> FALSE, tail |-> FALSE]

Asking(at, c, from) == [at |-> at, cursor |-> c, from |-> from]

Quiet == [at |-> "quiet", file |-> None, hint |-> FALSE, nested |-> FALSE, closed |-> FALSE,
          blocks |-> <<>>, keys |-> {}, first |-> 0, had |-> 0, cursor |-> NoCursor]

Init ==
    /\ clock = 1
    /\ recs = [f \in Recs |-> [blocks |-> <<>>, keys |-> {}, closed |-> FALSE,
                               on |-> FALSE, over |-> FALSE]]
    /\ player = Asking("start", NoCursor, 0)
    /\ fetch = Quiet /\ got = <<>> /\ asks = 0
-----------------------------------------------------------------------------
(* The recorder, the retention and the clock.                              *)

Recording == {f \in Recs : ~recs[f].over /\ \A g \in 1..f-1 : recs[g].over}

\* A block is written; a file begins with a keyframe.
WriteBlock(f, key) ==
    /\ f \in Recording /\ clock < MaxTime
    /\ Len(recs[f].blocks) < MaxBlocks /\ (recs[f].blocks = <<>> => key)
    /\ clock' = clock + 1
    /\ recs' = [recs EXCEPT ![f].blocks = Append(@, clock), ![f].on = TRUE,
           ![f].keys = IF key THEN @ \union {Len(recs[f].blocks) + 1} ELSE @]
    /\ UNCHANGED <<player, fetch, got, asks>>

\* The file ends, with a footer or, when the writing failed, without.
EndFile(f, footer) ==
    /\ f \in Recording /\ recs[f].blocks # <<>>
    /\ recs' = [recs EXCEPT ![f].over = TRUE, ![f].closed = footer]
    /\ UNCHANGED <<clock, player, fetch, got, asks>>

\* The oldest goes, whoever is playing it.
DeleteFile(f) ==
    /\ Listed # {} /\ f = First(Listed) /\ recs[f].over
    /\ recs' = [recs EXCEPT ![f].on = FALSE]
    /\ UNCHANGED <<clock, player, fetch, got, asks>>

Pass ==
    /\ clock < MaxTime /\ clock' = clock + 1
    /\ UNCHANGED <<recs, player, fetch, got, asks>>
-----------------------------------------------------------------------------
(* fetch, in the order of the code.                                        *)

\* An error; within a request that went on to the next file, a 204 instead.
Fails ==
    /\ player' = IF fetch.nested THEN player ELSE [player EXCEPT !.at = "failed"]
    /\ fetch' = Quiet

\* The file: the cursor's, if it is still there; else by time.
Ask(from) ==
    /\ asks < MaxAsked /\ fetch = Quiet /\ player.at \in {"start", "play"}
    /\ asks' = asks + 1
    /\ LET c == player.cursor
           hint == player.at = "play" /\ c.file \in Listed
           ms == IF player.at = "start" THEN from ELSE c.ms
           f == IF hint THEN c.file ELSE ResolveByTime(ms)
       IN  IF f = None THEN Fails
           ELSE /\ fetch' = [Quiet EXCEPT !.at = "index", !.file = f, !.hint = hint,
                       !.closed = recs[f].closed, !.cursor = [c EXCEPT !.ms = ms],
                       !.had = IF got = <<>> THEN 0 ELSE Len(recs[Last(got)[1]].blocks)]
                /\ UNCHANGED player
    /\ UNCHANGED <<clock, recs, got>>

\* Which block: at the tail the block is the truth; with a cursor, its block
\* if it still starts there; else by time, back to the keyframe.
FirstBlock(w, blocks, keys) ==
    LET c == w.cursor
        at == BlockAtTime(blocks, c.ms)
        near == IF at = 0 THEN 1 ELSE at
        key == KeyframeAtOrBefore(keys, near)
    IN  CASE w.hint /\ c.tail -> c.block
          [] w.hint /\ ~c.tail ->
                IF c.block \in 1..Len(blocks) /\ blocks[c.block] = c.ms
                THEN c.block ELSE near
          [] OTHER -> IF key = 0 THEN near ELSE key

\* The index, and past its end at the tail, the next file or nothing new.
Index ==
    /\ fetch.at = "index"
    /\ LET r == recs[fetch.file]
       IN  IF ~r.on THEN Fails
           ELSE /\ fetch' = [fetch EXCEPT !.blocks = r.blocks, !.keys = r.keys,
                       !.first = FirstBlock(fetch, r.blocks, r.keys),
                       !.at = IF FirstBlock(fetch, r.blocks, r.keys) > Len(r.blocks)
                              THEN "past" ELSE "read"]
                /\ UNCHANGED player
    /\ UNCHANGED <<clock, recs, got, asks>>

\* 204: ask again with the same cursor.
Past ==
    /\ fetch.at = "past"
    /\ LET g == NextFileAfter(fetch.file, Last(fetch.blocks) + Assumed)
       IN  fetch' = IF g = None THEN Quiet
                    ELSE [Quiet EXCEPT !.at = "index", !.file = g, !.hint = TRUE, !.nested = TRUE,
                             !.closed = recs[g].closed, !.had = fetch.had,
                             !.cursor = [file |-> g, block |-> 1, ms |-> StartMs(g),
                                         newFile |-> TRUE, tail |-> FALSE]]
    /\ UNCHANGED <<clock, recs, player, got, asks>>

\* Wrong on purpose: a file without a footer that grew meanwhile is over.
CursorAfterHasty(w, last) ==
    LET end == Len(w.blocks)
        g == NextFileAfter(w.file, w.blocks[end] + Assumed)
    IN  IF last < end
        THEN [file |-> w.file, block |-> last + 1, ms |-> w.blocks[last + 1],
              newFile |-> FALSE, tail |-> FALSE]
        ELSE IF g # None
        THEN [file |-> g, block |-> 1, ms |-> StartMs(g), newFile |-> TRUE, tail |-> FALSE]
        ELSE NoCursor

\* Where to go on: the next block, the tail of a file that grows, the next file.
CursorAfter(w, last) ==
    LET end == Len(w.blocks)
        g == NextFileAfter(w.file, w.blocks[end] + Assumed)
    IN  CASE last < end ->
               [file |-> w.file, block |-> last + 1, ms |-> w.blocks[last + 1],
                newFile |-> FALSE, tail |-> FALSE]
          [] last = end /\ ~w.closed ->
               [file |-> w.file, block |-> last + 1, ms |-> w.blocks[end] + Assumed,
                newFile |-> FALSE, tail |-> TRUE]
          [] last = end /\ w.closed /\ g # None ->
               [file |-> g, block |-> 1, ms |-> StartMs(g), newFile |-> TRUE, tail |-> FALSE]
          [] OTHER -> NoCursor

\* The blocks are read and answered.
Read(n) ==
    /\ fetch.at = "read"
    /\ IF ~recs[fetch.file].on
       THEN Fails /\ UNCHANGED got
       ELSE LET upTo == fetch.first + n - 1
                last == IF upTo > Len(fetch.blocks) THEN Len(fetch.blocks) ELSE upTo
                c == CursorAfter(fetch, last)
            IN  /\ got' = got \o [i \in 1..(last - fetch.first + 1) |->
                                    <<fetch.file, fetch.first + i - 1>>]
                /\ player' = Asking(IF c = NoCursor THEN "end" ELSE "play", c, 0)
                /\ fetch' = Quiet
    /\ UNCHANGED <<clock, recs, asks>>
-----------------------------------------------------------------------------
Fetch == Index \/ Past \/ (\E n \in Wanted : Read(n))

Next ==
    \/ \E f \in Recs, key \in BOOLEAN : WriteBlock(f, key)
    \/ \E f \in Recs, footer \in BOOLEAN : EndFile(f, footer)
    \/ \E f \in Recs : DeleteFile(f)
    \/ Pass
    \/ \E from \in 0..MaxTime : Ask(from)
    \/ Fetch

Spec == Init /\ [][Next]_vars
-----------------------------------------------------------------------------
Before(a, b) == a[1] < b[1] \/ (a[1] = b[1] /\ a[2] < b[2])

(* A player that follows its cursors gets no block twice and never goes    *)
(* back, whatever is written, closed and deleted between its requests and  *)
(* within one (fetch: "pela busca por tempo o ao vivo repetiria o último   *)
(* bloco para sempre").                                                    *)
OnceInOrder == \A i, j \in 1..Len(got) : i < j => Before(got[i], got[j])

(* It leaves out no block that was there when it asked: what follows a     *)
(* block is the next of its file or, once it got all its file held when it *)
(* asked, the beginning of the next file there is, unless the retention    *)
(* took the file it was playing.                                           *)
NothingLeftBehind ==
    [][(got' # got /\ got # <<>>) =>
           LET a == Last(got)
               b == got'[Len(got) + 1]
           IN  \/ b = <<a[1], a[2] + 1>>
               \/ ~recs[a[1]].on
               \/ /\ b[1] > a[1] /\ b[2] = 1 /\ a[2] >= fetch.had
                  /\ \A f \in Listed : ~(a[1] < f /\ f < b[1])]_vars
=============================================================================
