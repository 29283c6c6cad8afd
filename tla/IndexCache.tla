----------------------------- MODULE IndexCache -----------------------------
(***************************************************************************)
(* What the server knows of the recordings on disk: src/server/src/        *)
(* index_cache.rs.  The summary of a file is kept under the stamp the file *)
(* had before it was read; the summaries of closed recordings also go to   *)
(* the table `recording`, by the thread that owns the last connection of   *)
(* the database, and come back once per camera after the server starts.    *)
(* Requests list a camera's files or ask for one file's index while the    *)
(* recorder writes and the retention deletes.                              *)
(*                                                                         *)
(* A file is its size, counted in writes: every write adds a block, which  *)
(* the sidecar is told of after it, but the last, which adds the footer.   *)
(* The stamp (size and date) is the size: nothing writes to a recording    *)
(* without making it grow.                                                 *)
(***************************************************************************)
EXTENDS Naturals, Sequences, FiniteSets

CONSTANTS
    Files,          \* the recordings there will be
    CameraOf,       \* CameraOf[f]: the camera of f
    Requests,       \* the threads that serve requests
    MaxSize,        \* bound: writes to a file, its footer included
    MaxIndexes,     \* MAX_CACHED_INDEXES
    MaxAsked,       \* bound: requests served
    MaxStarts,      \* bound: starts of the server
    None

IndexCacheAssumption ==
    /\ MaxSize \in Nat /\ MaxIndexes \in Nat
    /\ MaxAsked \in Nat /\ MaxStarts \in Nat
    /\ IsFiniteSet(Files)

VARIABLES
    disk,       \* disk[f]: size (0: not created), noted (the sidecar has the
                \* last block), closed, on (not deleted)
    cached,     \* State::files: cached[f] is None or what is known of f
    loaded,     \* State::loaded
    dirty,      \* State::dirty
    tick,       \* State::tick
    rows,       \* the table `recording`: None, or a summary and its stamp
    posted,     \* the upserts waiting for the writer of the database
    request,    \* request[t]: where a request is, and its locals
    asked,      \* requests served, for the bound
    starts      \* starts of the server, for the bound

Cache == <<cached, loaded, dirty, tick>>
Table == <<rows, posted>>
Bounds == <<asked, starts>>
vars == <<disk, cached, loaded, dirty, tick, rows, posted, request, asked, starts>>
----------------------------------------------------------------------------
\* The whole blocks of a file.
Blocks(d) == IF d.closed THEN d.size - 1 ELSE d.size

\* sidecar_summary: the blocks the sidecar has; with none, a scan.
Summary(d) == IF d.noted \/ d.size = 1 THEN Blocks(d) ELSE d.size - 1

\* read_info, the summary: the footer counts the blocks, or the sidecar, or,
\* when it says nothing, a scan.
Info(d) ==
    [blocks |-> IF d.closed THEN Blocks(d) ELSE Summary(d),
     closed |-> d.closed]

\* stamp_of; the metadata of an entry of the folder.
Stamp(d) == d.size

NoIndex == [blocks |-> 0, upTo |-> 0, size |-> 0, used |-> 0]

\* What a file is cached as once a summary is stored: its index stays.
Stored(f, info, stamp) ==
    [info |-> info, stamp |-> stamp,
     index |-> IF cached[f] = None THEN NoIndex ELSE cached[f].index]

Idle == [at |-> "idle", camera |-> None, todo |-> {}, file |-> None,
         stamp |-> 0, info |-> None, blocks |-> 0, upTo |-> 0]

\* What a request that lists goes back to after each file.
Listing(r) == [Idle EXCEPT !.at = "list", !.camera = r.camera, !.todo = r.todo]

Init ==
    /\ disk = [f \in Files |-> [size |-> 0, noted |-> TRUE, closed |-> FALSE, on |-> FALSE]]
    /\ cached = [f \in Files |-> None]
    /\ loaded = {} /\ dirty = FALSE /\ tick = 0
    /\ rows = [f \in Files |-> None] /\ posted = <<>>
    /\ request = [t \in Requests |-> Idle]
    /\ asked = 0 /\ starts = 1
----------------------------------------------------------------------------
(* The recorder, the retention and the death of the server.                *)

Write(f) ==
    /\ disk[f].size < MaxSize - 1 /\ ~disk[f].closed /\ disk[f].noted
    /\ disk[f].size > 0 => disk[f].on
    /\ disk' = [disk EXCEPT ![f].size = @ + 1, ![f].noted = FALSE, ![f].on = TRUE]
    /\ UNCHANGED <<Cache, Table, request, Bounds>>

Note(f) ==
    /\ disk[f].on /\ ~disk[f].noted
    /\ disk' = [disk EXCEPT ![f].noted = TRUE]
    /\ UNCHANGED <<Cache, Table, request, Bounds>>

Close(f) ==
    /\ disk[f].on /\ ~disk[f].closed /\ disk[f].noted
    /\ disk' = [disk EXCEPT ![f].size = @ + 1, ![f].closed = TRUE]
    /\ UNCHANGED <<Cache, Table, request, Bounds>>

Delete(f) ==
    /\ disk[f].on
    /\ disk' = [disk EXCEPT ![f].on = FALSE]
    /\ UNCHANGED <<Cache, Table, request, Bounds>>

\* The server dies and starts again: what was not written is gone.
Restart ==
    /\ starts < MaxStarts
    /\ starts' = starts + 1
    /\ cached' = [f \in Files |-> None]
    /\ loaded' = {} /\ dirty' = FALSE /\ tick' = 0
    /\ posted' = <<>>
    /\ request' = [t \in Requests |-> Idle]
    /\ UNCHANGED <<disk, rows, asked>>
----------------------------------------------------------------------------
(* list_files                                                              *)

At(t, place) == request[t].at = place
Becomes(t, r) == request' = [request EXCEPT ![t] = r]
Begins(t) == At(t, "idle") /\ asked < MaxAsked /\ asked' = asked + 1

\* The folder is read; the camera's rows are asked for, the first time.
ListFolder(t, c) ==
    /\ Begins(t)
    /\ \E f \in Files : CameraOf[f] = c /\ disk[f].size > 0
    /\ Becomes(t, [request[t] EXCEPT
           !.at = IF c \in loaded THEN "list" ELSE "load",
           !.camera = c,
           !.todo = {f \in Files : CameraOf[f] = c /\ disk[f].on}])
    /\ loaded' = loaded \union {c}
    /\ UNCHANGED <<disk, cached, dirty, tick, Table, starts>>

\* load_disk_cache: what the table says replaces what is cached.
LoadDiskCache(t) ==
    /\ At(t, "load")
    /\ cached' = [f \in Files |->
           IF CameraOf[f] = request[t].camera /\ rows[f] # None
           THEN Stored(f, rows[f].info, rows[f].stamp) ELSE cached[f]]
    /\ Becomes(t, Listing(request[t]))
    /\ UNCHANGED <<disk, loaded, dirty, tick, Table, Bounds>>

\* One entry of the folder: what is cached under its stamp is the answer.
ListEntry(t, f) ==
    /\ At(t, "list") /\ f \in request[t].todo
    /\ Becomes(t,
         IF disk[f].on /\ (cached[f] = None \/ cached[f].stamp # Stamp(disk[f]))
         THEN [request[t] EXCEPT !.at = "read", !.todo = @ \ {f},
                                 !.file = f, !.stamp = Stamp(disk[f])]
         ELSE [request[t] EXCEPT !.todo = @ \ {f}])
    /\ UNCHANGED <<disk, Cache, Table, Bounds>>

\* read_info, with no lock held: None ends the question for this file.
ReadInfo(t) ==
    /\ At(t, "read")
    /\ LET d == disk[request[t].file] IN
       Becomes(t, IF d.on /\ Blocks(d) > 0
                  THEN [request[t] EXCEPT !.at = "store", !.info = Info(d)]
                  ELSE IF request[t].camera = None THEN Idle
                  ELSE Listing(request[t]))
    /\ UNCHANGED <<disk, Cache, Table, Bounds>>

\* Wrong on purpose: stored under a stamp taken after the reading.
StoreInfoLate(t) ==
    /\ At(t, "store")
    /\ LET r == request[t]
       IN  /\ cached' = [cached EXCEPT ![r.file] = Stored(r.file, r.info, Stamp(disk[r.file]))]
           /\ dirty' = (dirty \/ r.info.closed)
           /\ Becomes(t, IF r.camera # None THEN Listing(r)
                         ELSE [Idle EXCEPT !.at = "size", !.file = r.file])
    /\ UNCHANGED <<disk, loaded, tick, Table, Bounds>>

\* The end of info_stamped: stored under the stamp taken before the reading.
StoreInfo(t) ==
    /\ At(t, "store")
    /\ LET r == request[t]
       IN  /\ cached' = [cached EXCEPT ![r.file] = Stored(r.file, r.info, r.stamp)]
           /\ dirty' = (dirty \/ r.info.closed)
           /\ Becomes(t, IF r.camera # None THEN Listing(r)
                         ELSE [Idle EXCEPT !.at = "size", !.file = r.file])
    /\ UNCHANGED <<disk, loaded, tick, Table, Bounds>>

\* The end of the list takes the mark that something is to be saved.
ListEnd(t) ==
    /\ At(t, "list") /\ request[t].todo = {}
    /\ Becomes(t, IF dirty THEN [request[t] EXCEPT !.at = "save"] ELSE Idle)
    /\ dirty' = FALSE
    /\ UNCHANGED <<disk, cached, loaded, tick, Table, Bounds>>

\* save_disk_cache: the closed recordings of this camera that still exist.
Saved(c) ==
    {f \in Files : /\ CameraOf[f] = c /\ cached[f] # None
                   /\ cached[f].info.closed /\ disk[f].on}

SaveDiskCache(t) ==
    /\ At(t, "save")
    /\ posted' = Append(posted, [f \in Saved(request[t].camera) |->
                    [info |-> cached[f].info, stamp |-> cached[f].stamp]])
    /\ Becomes(t, Idle)
    /\ UNCHANGED <<disk, Cache, rows, Bounds>>

\* The writer of the database does the oldest upserts.
Upsert ==
    /\ posted # <<>>
    /\ rows' = [f \in Files |-> IF f \in DOMAIN Head(posted)
                                THEN Head(posted)[f] ELSE rows[f]]
    /\ posted' = Tail(posted)
    /\ UNCHANGED <<disk, Cache, request, Bounds>>
----------------------------------------------------------------------------
(* index                                                                   *)

\* info: a file that is not there is forgotten.
AskIndex(t, f) ==
    /\ Begins(t) /\ disk[f].size > 0
    /\ LET known == cached[f] # None /\ cached[f].stamp = Stamp(disk[f])
           r == [Idle EXCEPT !.file = f]
       IN  Becomes(t, IF ~disk[f].on THEN Idle
                      ELSE IF known THEN [r EXCEPT !.at = "size"]
                      ELSE [r EXCEPT !.at = "read", !.stamp = Stamp(disk[f])])
    /\ cached' = [cached EXCEPT ![f] = IF disk[f].on THEN @ ELSE None]
    /\ UNCHANGED <<disk, loaded, dirty, tick, Table, starts>>

\* The stamp is taken again, and the index cached for that size is the
\* answer; an older one, when the file grew, is where the reader goes on from.
IndexSize(t) ==
    /\ At(t, "size")
    /\ LET f == request[t].file
           size == Stamp(disk[f])
           has == cached[f] # None /\ cached[f].index.blocks > 0
           grew == has /\ size > cached[f].index.size
       IN  IF ~disk[f].on
           THEN Becomes(t, Idle) /\ UNCHANGED <<cached, tick>>
           ELSE /\ tick' = tick + 1
                /\ cached' = IF has THEN [cached EXCEPT ![f].index.used = tick + 1]
                             ELSE cached
                /\ Becomes(t, IF has /\ cached[f].index.size = size THEN Idle
                     ELSE [request[t] EXCEPT !.at = "index", !.stamp = size,
                               !.blocks = IF grew THEN cached[f].index.blocks ELSE 0,
                               !.upTo = IF grew THEN cached[f].index.upTo ELSE 0])
    /\ UNCHANGED <<disk, loaded, dirty, Table, Bounds>>

\* seed_index, extend_index: the blocks known before, and those scanned after
\* the place they reach.
Extended(seed, d) == seed.blocks + (Blocks(d) - seed.upTo)

\* The reader goes on from the seed to the last whole block.
ReadIndex(t) ==
    /\ At(t, "index")
    /\ LET d == disk[request[t].file]
           n == Extended(request[t], d)
       IN  Becomes(t, IF d.on /\ n > 0
                      THEN [request[t] EXCEPT !.at = "keep", !.blocks = n, !.upTo = Blocks(d)]
                      ELSE Idle)
    /\ UNCHANGED <<disk, Cache, Table, Bounds>>

\* trim_indexes: only the indexes used last are kept.
Trimmed(c) ==
    LET held == {f \in Files : c[f] # None /\ c[f].index.blocks > 0}
        newer(f) == {g \in held : c[g].index.used > c[f].index.used}
    IN  [f \in Files |-> IF f \in held /\ Cardinality(newer(f)) >= MaxIndexes
                         THEN [c[f] EXCEPT !.index = NoIndex]
                         ELSE c[f]]

StoreIndex(t) ==
    /\ At(t, "keep")
    /\ LET r == request[t]
           ix == [blocks |-> r.blocks, upTo |-> r.upTo, size |-> r.stamp, used |-> tick + 1]
       IN  cached' = IF cached[r.file] = None THEN cached
                     ELSE Trimmed([cached EXCEPT ![r.file].index = ix])
    /\ tick' = tick + 1
    /\ Becomes(t, Idle)
    /\ UNCHANGED <<disk, loaded, dirty, Table, Bounds>>
----------------------------------------------------------------------------
Request(t) ==
    \/ \E f \in Files : ListFolder(t, CameraOf[f]) \/ ListEntry(t, f) \/ AskIndex(t, f)
    \/ LoadDiskCache(t) \/ ReadInfo(t) \/ StoreInfo(t) \/ ListEnd(t)
    \/ SaveDiskCache(t) \/ IndexSize(t) \/ ReadIndex(t) \/ StoreIndex(t)

Next ==
    \/ \E f \in Files : Write(f) \/ Note(f) \/ Close(f) \/ Delete(f)
    \/ \E t \in Requests : Request(t)
    \/ Upsert
    \/ Restart

Spec == Init /\ [][Next]_vars
----------------------------------------------------------------------------
(* What is cached under the stamp a file has now describes the file as it  *)
(* is now, but for a last block its sidecar had not yet, and so do the     *)
(* index cached for its size and the row the table keeps for the next      *)
(* start: the recorder may have written between the stamp and the reading, *)
(* another request may have stored what it read before, and the table      *)
(* brings back what was known before the server died (info_stamped,        *)
(* load_disk_cache, index).                                                *)
CacheTells ==
    \A f \in Files : disk[f].on =>
        /\ (cached[f] # None /\ cached[f].stamp = Stamp(disk[f]))
               => cached[f].info \in {Info(disk[f]), Info([disk[f] EXCEPT !.noted = FALSE])}
        /\ (cached[f] # None /\ cached[f].index.blocks > 0
            /\ cached[f].index.size = Stamp(disk[f]))
               => cached[f].index.blocks = Blocks(disk[f])
        /\ (rows[f] # None /\ rows[f].stamp = Stamp(disk[f]))
               => rows[f].info = Info(disk[f])

(* No more indexes are held than the limit, however the requests that      *)
(* built them interleave, and no two were used at the same time, so that   *)
(* which ones stay is decided (index, trim_indexes).                       *)
FewIndexes ==
    LET held == {f \in Files : cached[f] # None /\ cached[f].index.blocks > 0}
    IN  /\ Cardinality(held) <= MaxIndexes
        /\ \A f, g \in held : cached[f].index.used = cached[g].index.used => f = g

(* Nobody listing, nothing waiting to be written: a closed recording the   *)
(* server knows is in the table, as index_cache.rs:8-10 promises to the    *)
(* first question after a start, or marked to go there.                    *)
KnownIsSaved ==
    (posted = <<>> /\ ~dirty /\ \A t \in Requests : At(t, "idle")) =>
        \A f \in Files :
            (disk[f].on /\ cached[f] # None /\ cached[f].info.closed) => rows[f] # None
=============================================================================
