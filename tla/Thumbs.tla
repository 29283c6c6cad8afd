------------------------------- MODULE Thumbs -------------------------------
(***************************************************************************)
(* The thumbnails of the time line: src/server/src/thumbs.rs.  Requests    *)
(* for the picture of one minute read it from the folder or, one at a      *)
(* time, make it from the recording, and then write it to a temporary file *)
(* and rename it.  That a minute has no picture is remembered for a while  *)
(* and, when the minute is old enough, in the table `thumb`.               *)
(*                                                                         *)
(* Time is counted in minutes; the minute asked for is 0.  A file is named *)
(* by a path and found by a number, as a file system does: who writes      *)
(* keeps the number, whatever becomes of the path.                         *)
(***************************************************************************)
EXTENDS Naturals, Sequences

CONSTANTS
    Requests,   \* the threads that serve requests
    Lag,        \* the recorder shows a minute's keyframe at most so late
    Slow,       \* a generation that finds nothing takes at most so long
    MissTtl,    \* MISS_TTL_MS
    MinAge,     \* MIN_IDADE_AUSENCIA_MS
    MaxTime,    \* bound: the clock
    MaxAsked    \* bound: requests served

ThumbsAssumption ==
    /\ {Lag, Slow, MissTtl, MinAge, MaxTime, MaxAsked} \subseteq Nat
    /\ Lag + Slow < MinAge

VARIABLES
    minute,     \* the clock
    frame,      \* the recordings have a keyframe for the minute: awaited, yes, never
    jpg, tmp,   \* the files the two paths name, 0 for none
    data,       \* data[i]: what the i-th file created holds
    missed,     \* when the absence was noted in memory; MaxTime + 1 is never
    absent,     \* the row of the table says there is no picture
    notes,      \* what the writer of the database has still to write to it
    making,     \* who holds the lock of the generation
    asking,     \* asking[t]: where a request is, the file it writes, when it
                \* looked into the recordings
    served      \* requests served, for the bound

vars == <<minute, frame, jpg, tmp, data, missed, absent, notes, making, asking, served>>
Paths == <<jpg, tmp, data>>
Known == <<missed, absent, notes>>
None == 0
NotMissed == MaxTime + 1

Idle == [at |-> "idle", file |-> None, looked |-> 0]

Init ==
    /\ minute = 0 /\ frame = "awaited"
    /\ jpg = None /\ tmp = None /\ data = <<>>
    /\ missed = NotMissed /\ absent = FALSE /\ notes = <<>>
    /\ making = {}
    /\ asking = [t \in Requests |-> Idle]
    /\ served = 0
-----------------------------------------------------------------------------
Goes(t, place) == asking' = [asking EXCEPT ![t].at = place]
At(t, place) == asking[t].at = place

Tick ==
    /\ minute < MaxTime
    /\ frame = "awaited" => minute + 1 <= Lag
    /\ \A t \in Requests : asking[t].at = "missing" => minute + 1 <= asking[t].looked + Slow
    /\ minute' = minute + 1
    /\ UNCHANGED <<frame, Paths, Known, making, asking, served>>

\* The recorder writes the block with the keyframe, or never will.
Records ==
    /\ frame = "awaited"
    /\ frame' \in {"yes", "never"}
    /\ UNCHANGED <<minute, Paths, Known, making, asking, served>>

\* try_read: an empty file is no picture.
HasPicture == jpg # None /\ data[jpg] # "empty"

\* recent_miss: the absence was noted in memory a short while ago.
RecentMiss == missed <= minute /\ minute - missed < MissTtl

\* get: the picture of the folder; else what is known of its absence.
Get(t) ==
    /\ At(t, "idle") /\ served < MaxAsked
    /\ served' = served + 1
    /\ IF HasPicture THEN UNCHANGED <<asking, missed>>
       ELSE IF RecentMiss THEN UNCHANGED <<asking, missed>>
       ELSE IF absent THEN missed' = minute /\ UNCHANGED asking
       ELSE Goes(t, "lock") /\ UNCHANGED missed
    /\ UNCHANGED <<minute, frame, Paths, absent, notes, making>>

\* One generation at a time; the folder is looked at again.
Lock(t) ==
    /\ At(t, "lock") /\ making = {}
    /\ IF HasPicture THEN Goes(t, "idle") /\ UNCHANGED making
       ELSE Goes(t, "make") /\ making' = {t}
    /\ UNCHANGED <<minute, frame, Paths, Known, served>>

\* generate: the keyframe of the recording, decoded and encoded.
Generate(t) ==
    /\ At(t, "make")
    /\ asking' = [asking EXCEPT ![t] =
           IF frame = "yes" THEN [Idle EXCEPT !.at = "create"]
           ELSE [Idle EXCEPT !.at = "missing", !.looked = minute]]
    /\ making' = {}
    /\ UNCHANGED <<minute, frame, Paths, Known, served>>

\* DiskCache::write: the temporary file is created, or emptied,
Create(t) ==
    /\ At(t, "create")
    /\ IF tmp = None
       THEN /\ tmp' = Len(data) + 1 /\ data' = Append(data, "empty")
            /\ asking' = [asking EXCEPT ![t].at = "write", ![t].file = Len(data) + 1]
       ELSE /\ data' = [data EXCEPT ![tmp] = "empty"]
            /\ asking' = [asking EXCEPT ![t].at = "write", ![t].file = tmp]
            /\ UNCHANGED tmp
    /\ UNCHANGED <<minute, frame, jpg, Known, making, served>>

\* written, in more than one go,
Write(t) ==
    /\ At(t, "write")
    /\ data' = [data EXCEPT ![asking[t].file] = IF @ = "empty" THEN "half" ELSE "whole"]
    /\ Goes(t, IF data[asking[t].file] = "empty" THEN "write" ELSE "rename")
    /\ UNCHANGED <<minute, frame, jpg, tmp, Known, making, served>>

\* note_hit: the row is to say there is a picture.
NoteHit == notes' = Append(notes, FALSE)

\* and renamed.
Rename(t) ==
    /\ At(t, "rename")
    /\ IF tmp = None THEN UNCHANGED <<jpg, tmp>> ELSE jpg' = tmp /\ tmp' = None
    /\ NoteHit
    /\ asking' = [asking EXCEPT ![t] = Idle]
    /\ UNCHANGED <<minute, frame, data, missed, absent, making, served>>

\* Wrong on purpose: any absence goes to the table.
NotesAny(m) == TRUE

\* note_missing: the minute of now is still being recorded.
NotesAbsence(m) == m >= MinAge

\* note_miss, note_missing.
Missing(t) ==
    /\ At(t, "missing")
    /\ missed' = minute
    /\ notes' = IF NotesAbsence(minute) THEN Append(notes, TRUE) ELSE notes
    /\ asking' = [asking EXCEPT ![t] = Idle]
    /\ UNCHANGED <<minute, frame, Paths, absent, making, served>>

\* The writer of the database.
WriteRow ==
    /\ notes # <<>>
    /\ absent' = Head(notes) /\ notes' = Tail(notes)
    /\ UNCHANGED <<minute, frame, Paths, missed, making, asking, served>>
-----------------------------------------------------------------------------
Next ==
    \/ Tick \/ Records \/ WriteRow
    \/ \E t \in Requests : \/ Get(t) \/ Lock(t) \/ Generate(t) \/ Missing(t)
                           \/ Create(t) \/ Write(t) \/ Rename(t)

Spec == Init /\ [][Next]_vars
-----------------------------------------------------------------------------
(* A minute that has a keyframe is never remembered for good as one that   *)
(* has no picture, although the question came before the recorder had      *)
(* written it, or another request made the picture meanwhile.              *)
AbsentForGood == absent => frame # "yes"

(* Who reads never sees half a picture (thumbs.rs:195).                    *)
NeverHalf == jpg # None => data[jpg] # "half"
=============================================================================
