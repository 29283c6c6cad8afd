------------------------------ MODULE Retention ------------------------------
(***************************************************************************)
(* The clean-up of the recordings: src/server/src/retention.rs.  A thread  *)
(* sweeps at intervals: it lists the files, oldest write first, leaves     *)
(* alone what was written in the last Grace, and deletes by age, by the    *)
(* sum of sizes and by the free space, one file at a time, while the       *)
(* recorders open, write and close files and a player may hold one.        *)
(* After a sweep that deleted, what the database says of older video goes. *)
(*                                                                         *)
(* Time is counted in steps of Tick.  A recorder writes to the file it has *)
(* open at least once in Grace (it closes it when the camera falls silent).*)
(***************************************************************************)
EXTENDS Integers, FiniteSets, FiniteSetsExt

CONSTANTS
    NFiles,     \* bound: the recordings there will be
    Grace,      \* GRACE_MS
    MaxAge,     \* max_days, 0 without the limit
    MaxTotal,   \* max_total_bytes, 0 without the limit
    MinFree,    \* min_free_bytes, 0 without the limit
    Capacity,   \* the size of the volume; 0: it cannot be known
    MaxTime,    \* bound: steps of time
    MaxEvents,  \* bound: events that happen
    MaxSize     \* bound: the size of a file

RetentionAssumption ==
    /\ Grace \in Nat \ {0}
    /\ {NFiles, MaxAge, MaxTotal, MinFree, Capacity, MaxTime, MaxEvents, MaxSize} \subseteq Nat

VARIABLES
    now,        \* the clock
    files,      \* files[f]: state, start, written (the last write), size
    held,       \* the files a player holds in a way that forbids deleting them
    events,     \* the table `event`: when each event kept ends
    happened,   \* every event there has been
    sweep       \* the sweeper's locals

vars == <<now, files, held, events, happened, sweep>>

Files == 1..NFiles

OnDisk == {f \in Files : files[f].state \in {"open", "closed"}}

\* The sum of sizes: a file has that many pieces.
SizeOf(F) == Cardinality({p \in F \X (1..MaxSize) : p[2] <= files[p[1]].size})

NoListing == [f \in {} |-> 0]

Resting == [at |-> "rest", listing |-> NoListing, skip |-> {}, gone |-> {},
            total |-> 0, avail |-> 0, time |-> 0]

Init ==
    /\ now = Grace
    /\ files = [f \in Files |-> [state |-> "none", start |-> 0, written |-> 0,
                                 size |-> 0]]
    /\ held = {}
    /\ events = {} /\ happened = {}
    /\ sweep = Resting
-----------------------------------------------------------------------------
(* The recorders, a player and the clock, seen from here.                  *)

OpenFile(f) ==
    /\ files[f].state = "none" /\ \A g \in 1..f-1 : files[g].state # "none"
    /\ files' = [files EXCEPT ![f].state = "open", ![f].size = 1,
                              ![f].start = now, ![f].written = now]
    /\ UNCHANGED <<now, held, events, happened, sweep>>

Write(f) ==
    /\ files[f].state = "open" /\ files[f].size < MaxSize
    /\ files' = [files EXCEPT ![f].size = @ + 1, ![f].written = now]
    /\ UNCHANGED <<now, held, events, happened, sweep>>

CloseFile(f) ==
    /\ files[f].state = "open"
    /\ files' = [files EXCEPT ![f].state = "closed", ![f].written = now]
    /\ UNCHANGED <<now, held, events, happened, sweep>>

Hold(f) ==
    /\ files[f].state = "closed" /\ held = {}
    /\ held' = {f}
    /\ UNCHANGED <<now, files, events, happened, sweep>>

Release(f) ==
    /\ f \in held
    /\ held' = held \ {f}
    /\ UNCHANGED <<now, files, events, happened, sweep>>

Event(f) ==
    /\ files[f].state = "open" /\ now \notin happened
    /\ Cardinality(happened) < MaxEvents
    /\ events' = events \union {now} /\ happened' = happened \union {now}
    /\ UNCHANGED <<now, files, held, sweep>>

Tick ==
    /\ now < MaxTime
    /\ \A f \in Files : files[f].state = "open" => now + 1 - files[f].written < Grace
    /\ now' = now + 1
    /\ UNCHANGED <<files, held, events, happened, sweep>>
-----------------------------------------------------------------------------
(* sweep: the listing, then one deletion after another.                    *)

Enabled == MaxAge > 0 \/ MaxTotal > 0 \/ MinFree > 0

\* free_space_of: 0 is "could not tell".
FreeSpace == IF Capacity = 0 THEN 0 ELSE Capacity - SizeOf(OnDisk)

\* Wrong on purpose: the grace is a step short.
FreshShort(listing) == {f \in DOMAIN listing : listing[f].written > now - Grace + 1}

\* Files written in the last Grace are left alone.
Fresh(listing) == {f \in DOMAIN listing : listing[f].written > now - Grace}

List ==
    /\ sweep.at = "rest" /\ Enabled /\ OnDisk # {}
    /\ LET listing == [f \in OnDisk |-> [size |-> files[f].size, written |-> files[f].written]]
       IN  sweep' = [at |-> "age", listing |-> listing, skip |-> Fresh(listing), gone |-> {},
                     total |-> SizeOf(OnDisk), avail |-> FreeSpace, time |-> now]
    /\ UNCHANGED <<now, files, held, events, happened>>

\* What the pass under way may still delete: neither deleted nor skipped.
Left(w) == (DOMAIN w.listing \ w.skip) \ w.gone

\* list_recordings sorts by the last write: the pass takes these first.
Oldest(w, F) == {f \in F : \A g \in F : w.listing[f].written <= w.listing[g].written}

\* The files the pass under way has to delete, whatever it has done so far.
ToDelete(w) ==
    CASE w.at = "age" ->
            {f \in Left(w) : MaxAge > 0 /\ w.listing[f].written < w.time - MaxAge}
      [] w.at = "size" ->
            IF MaxTotal > 0 /\ w.total > MaxTotal THEN Left(w) ELSE {}
      [] w.at = "free" ->
            IF MinFree > 0 /\ w.avail > 0 /\ w.avail < MinFree THEN Left(w) ELSE {}
      [] OTHER -> {}

\* drop: the file the system does not let go is left for the next sweep.
Drop(f) ==
    /\ f \in Oldest(sweep, ToDelete(sweep))
    /\ IF f \in held
       THEN /\ sweep' = [sweep EXCEPT !.skip = @ \union {f}]
            /\ UNCHANGED files
       ELSE /\ files' = [files EXCEPT ![f].state = "deleted"]
            /\ sweep' = [sweep EXCEPT !.gone = @ \union {f},
                             !.total = @ - sweep.listing[f].size,
                             !.avail = @ + sweep.listing[f].size]
    /\ UNCHANGED <<now, held, events, happened>>

NextPass ==
    /\ sweep.at \in {"age", "size", "free"} /\ ToDelete(sweep) = {}
    /\ sweep' = [sweep EXCEPT !.at = CASE @ = "age" -> "size"
                                       [] @ = "size" -> "free"
                                       [] @ = "free" -> "end"]
    /\ UNCHANGED <<now, files, held, events, happened>>

\* oldest_kept_ms: the last write of the oldest file that stayed; 0 is none.
OldestKept(w) ==
    LET kept == DOMAIN w.listing \ w.gone
    IN  IF kept = {} THEN 0 ELSE Min({w.listing[f].written : f \in kept})

\* prune_after, once the sweep deleted something.
Prune ==
    /\ sweep.at = "end"
    /\ events' = IF sweep.gone = {} \/ OldestKept(sweep) <= 0 THEN events
                 ELSE {e \in events : e >= OldestKept(sweep)}
    /\ sweep' = Resting
    /\ UNCHANGED <<now, files, held, happened>>
-----------------------------------------------------------------------------
Sweeper == List \/ (\E f \in Files : Drop(f)) \/ NextPass \/ Prune

Next ==
    \/ \E f \in Files : OpenFile(f) \/ Write(f) \/ CloseFile(f) \/ Hold(f)
                      \/ Release(f) \/ Event(f)
    \/ Tick
    \/ Sweeper

Spec == Init /\ [][Next]_vars
-----------------------------------------------------------------------------
(* A file a recorder has open is never deleted (retention.rs:5-6), though  *)
(* the sweep does not ask the recorders and goes by a listing that gets    *)
(* old while it deletes.                                                   *)
KeepsTheLive == [][\A f \in Files : files[f].state = "open" => files'[f].state # "deleted"]_vars

(* What a sweep deleted it had to: of the files it could delete, none      *)
(* older stays; and it ends with every limit met, going by its listing, or *)
(* with nothing left that it may delete (sweep, drop).                     *)
SweepsEnough ==
    /\ \A f \in sweep.gone, g \in Left(sweep) :
           sweep.listing[f].written <= sweep.listing[g].written
    /\ sweep.at = "end" =>
           \/ Left(sweep) = {}
           \/ /\ MaxTotal > 0 => sweep.total <= MaxTotal
              /\ (MinFree > 0 /\ sweep.avail > 0) => sweep.avail >= MinFree
              /\ MaxAge > 0 => \A f \in Left(sweep) :
                                   sweep.listing[f].written >= sweep.time - MaxAge

(* The events pruned are of video that is no longer there: prune_after is  *)
(* documented to take what is before the oldest recording that stayed      *)
(* (retention.rs:177-178).                                                 *)
EventsOfVideoStay ==
    \A e \in happened : (\E f \in OnDisk : files[f].start <= e /\ e <= files[f].written)
        => e \in events
==============================================================================
