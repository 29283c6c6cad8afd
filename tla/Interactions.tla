---------------------------- MODULE Interactions ----------------------------
(***************************************************************************)
(* Who moved the camera, and when: src/server/src/interactions.rs and the  *)
(* asynchronous side of src/server/src/db.rs it writes through.  Commands  *)
(* of one camera and kind that come close together make one stretch; the   *)
(* stretch is held in memory while it grows and becomes one row when it    *)
(* closes.  The rows go through the queue of the thread that owns the      *)
(* database's last connection.                                             *)
(*                                                                         *)
(* One camera and one kind: the code keys the open stretches by both and   *)
(* they never touch.  A command is its number.                             *)
(***************************************************************************)
EXTENDS Naturals, Integers, Sequences, FiniteSets

CONSTANTS
    Gap,            \* GAP_MS
    Longest,        \* MAX_MS
    MaxTime,        \* bound: the clock
    MaxCommands,    \* bound: commands
    MaxAnswers,     \* bound: questions
    MaxBack,        \* bound: times the clock is set back
    MaxFaults,      \* bound: writes that fail
    NoStretch

InteractionsAssumption ==
    /\ Gap \in Nat /\ Longest \in Nat /\ Gap <= Longest
    /\ NoStretch \notin [start : Nat, end : Nat, commands : SUBSET Nat]

VARIABLES
    clock,      \* now_utc_ms
    back,       \* times the clock was set back, for the bound
    open,       \* abertas: the stretch that is growing, or NoStretch
    ready,      \* pronta: the table is there
    queue,      \* the rows posted, oldest first
    table,      \* the rows of `interaction`
    phase,      \* running, api (encerrar done), draining (the queue closed), off
    made,       \* commands so far
    early,      \* those made before encerrar
    lost,       \* those whose row could not be written
    asking      \* a question: its window, the rows found, the whole answer

Log == <<open, ready, queue, table>>
Clock == <<clock, back>>
Marks == <<made, early, lost>>
ivars == <<clock, back, open, ready, queue, table, phase, made, early, lost, asking>>
----------------------------------------------------------------------------
NoQuestion == [at |-> "idle", from |-> 0, to |-> 0, answers |-> 0,
               before |-> {}, found |-> <<>>]

LogInit ==
    /\ clock = 0 /\ back = 0
    /\ open = NoStretch /\ ready = FALSE
    /\ queue = <<>> /\ table = {}
    /\ phase = "running" /\ made = 0 /\ early = 0 /\ lost = {}
    /\ asking = NoQuestion

Running == phase # "off"

Tick ==
    /\ Running /\ clock < MaxTime
    /\ clock' = clock + 1
    /\ UNCHANGED <<back, Log, phase, Marks, asking>>

SetBack ==
    /\ Running /\ back < MaxBack
    /\ back' = back + 1
    /\ clock' \in 0..clock
    /\ UNCHANGED <<Log, phase, Marks, asking>>
----------------------------------------------------------------------------
\* post: dropped without a word once the queue is closed.
Posted(row) == IF phase \in {"running", "api"} THEN Append(queue, row) ELSE queue

\* fechar: the table is created the first time, and may not be.
Shut(row) ==
    \/ ready' = TRUE /\ queue' = Posted(row) /\ lost' = lost
    \/ /\ ~ready /\ lost = {} /\ MaxFaults > 0
       /\ lost' = lost \union row.commands
       /\ UNCHANGED <<ready, queue>>

\* Wrong on purpose: a stretch closes on silence only.
StaleOnSilence(s) == clock - s.end > Gap

\* registrar: the stretch in hand is over.
Stale(s) == clock - s.end > Gap \/ clock - s.start > Longest

Begun == [start |-> clock, end |-> clock, commands |-> {made + 1}]

LaterOf(a, b) == IF a > b THEN a ELSE b

Register ==
    /\ Running /\ made < MaxCommands
    /\ made' = made + 1
    /\ early' = IF phase = "running" THEN made + 1 ELSE early
    /\ IF open # NoStretch /\ Stale(open)
       THEN Shut(open) /\ open' = Begun
       ELSE /\ open' = IF open = NoStretch THEN Begun
                       ELSE [open EXCEPT !.end = LaterOf(@, LaterOf(clock, open.start)),
                                         !.commands = @ \union {made + 1}]
            /\ UNCHANGED <<ready, queue, lost>>
    /\ UNCHANGED <<Clock, table, phase, asking>>

\* varrer, from the main loop, until it leaves it.
Sweep ==
    /\ phase = "running" /\ open # NoStretch /\ clock - open.end > Gap
    /\ Shut(open) /\ open' = NoStretch
    /\ UNCHANGED <<Clock, table, phase, made, early, asking>>

\* encerrar, once the listener takes no more: the connections it took go on.
CloseAll ==
    /\ phase = "running"
    /\ phase' = "api"
    /\ IF open = NoStretch THEN UNCHANGED <<ready, queue, lost>> ELSE Shut(open)
    /\ open' = NoStretch
    /\ UNCHANGED <<Clock, table, made, early, asking>>
----------------------------------------------------------------------------
\* The writer's thread does the oldest job; one that fails is only printed.
WriteRow ==
    /\ queue # <<>> /\ Running
    /\ \/ table' = table \union {Head(queue)} /\ lost' = lost
       \/ /\ lost = {} /\ MaxFaults > 0
          /\ lost' = lost \union Head(queue).commands /\ table' = table
    /\ queue' = Tail(queue)
    /\ UNCHANGED <<Clock, open, ready, phase, made, early, asking>>

\* close: no more posts; what is queued is done before the thread ends.
CloseQueue ==
    /\ phase = "api"
    /\ phase' = "draining"
    /\ UNCHANGED <<Clock, Log, Marks, asking>>

JoinWriter ==
    /\ phase = "draining" /\ queue = <<>>
    /\ phase' = "off"
    /\ UNCHANGED <<Clock, Log, Marks, asking>>
----------------------------------------------------------------------------
Meets(s, from, to) == s.start <= to /\ s.end >= from

\* consultar, the rows: the index serves a window of starts.
AskTable(from, to) ==
    /\ Running /\ asking.at # "table" /\ asking.answers < MaxAnswers /\ from < to
    /\ LET rows == {r \in table : r.start >= from - Longest /\ Meets(r, from, to)} IN
       \E order \in [1..Cardinality(rows) -> rows] :
         /\ \A i, j \in DOMAIN order : i < j => order[i].start <= order[j].start
         /\ \A r \in rows : \E i \in DOMAIN order : order[i] = r
         /\ asking' = [at |-> "table", from |-> from, to |-> to,
                       answers |-> asking.answers + 1, before |-> table, found |-> order]
    /\ ready' = TRUE
    /\ UNCHANGED <<Clock, open, queue, table, phase, Marks>>

\* consultar, the stretch that is open now goes after them.
AskOpen ==
    /\ Running /\ asking.at = "table"
    /\ asking' = [asking EXCEPT !.at = "answered",
           !.found = IF open # NoStretch /\ Meets(open, asking.from, asking.to)
                     THEN Append(@, open) ELSE @]
    /\ UNCHANGED <<Clock, Log, phase, Marks>>
----------------------------------------------------------------------------
LogNext ==
    \/ Tick \/ SetBack
    \/ Register \/ Sweep \/ CloseAll
    \/ WriteRow \/ CloseQueue \/ JoinWriter
    \/ \E from, to \in 0..MaxTime + 1 : AskTable(from, to)
    \/ AskOpen

Spec == LogInit /\ [][LogNext]_ivars
----------------------------------------------------------------------------
Stretches == table \union {queue[i] : i \in DOMAIN queue}
                   \union (IF open = NoStretch THEN {} ELSE {open})

(* A command made before the server began to close is told by exactly one  *)
(* stretch, wherever the stretch is on its way from the memory to the      *)
(* table, and by a row of the table once the server is off, unless its     *)
(* write failed: encerrar closes the stretch in hand and Db::close writes  *)
(* what is queued before the thread is joined (main.rs, interactions.rs,   *)
(* db.rs).                                                                 *)
EachCommandOnce ==
    \A c \in (1..early) \ lost :
        /\ Cardinality({s \in Stretches : c \in s.commands}) = 1
        /\ phase = "off" => \E r \in table : c \in r.commands

(* An answer never tells a stretch twice, though one may close and be      *)
(* written between the two halves of the question, and leaves out no row   *)
(* the table had that meets its window, however long the stretch: the      *)
(* query looks only at starts up to MAX_MS before the window               *)
(* (consultar, registrar).                                                 *)
AnswerTells ==
    asking.at = "answered" =>
        /\ \A i, j \in DOMAIN asking.found :
               i # j => asking.found[i].commands \intersect asking.found[j].commands = {}
        /\ \A r \in asking.before : Meets(r, asking.from, asking.to) =>
               \E i \in DOMAIN asking.found : asking.found[i] = r
=============================================================================
