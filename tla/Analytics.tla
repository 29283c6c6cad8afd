----------------------------- MODULE Analytics ------------------------------
(***************************************************************************)
(* The image analysis of one camera: src/server/src/analytics.  A thread   *)
(* walks the recordings a little behind the present, hands a frame every   *)
(* Step to the analyzer, which joins the frames that moved into events;    *)
(* events and progress are posted to the database and written by its own   *)
(* thread, and the thread goes on from the saved progress after a start.   *)
(*                                                                         *)
(* A frame is the time it was filmed.  The detector is a choice: a frame   *)
(* moved, was still, was of another scene, or did not decode.  Events of   *)
(* other names than motion are joined the same way and do not meet them.   *)
(***************************************************************************)
EXTENDS Naturals, Integers, Sequences, FiniteSets

CONSTANTS
    Step,           \* step_ms
    Lag,            \* lag_ms: how far behind the present the walk stays
    Window,         \* PERCURSO_MS
    Backfill,       \* backfill_ms
    Jump,           \* JUMP_MS
    MergeGap,       \* merge_gap_ms
    Ceilings,       \* the values max_event_ms is given
    Models,         \* the names of model
    SaveEvery,      \* PROGRESS_EVERY
    Delay,          \* bound: how late a frame reaches its file
    MaxTime,        \* bound: the clock
    MaxFiles,       \* bound: recordings
    MaxStarts,      \* bound: starts of the server
    MaxChanges,     \* bound: changes of the parameters
    NoWalk, NoEvent

AnalyticsAssumption ==
    /\ {Step, Window, SaveEvery} \subseteq Nat \ {0}
    /\ {Delay, Lag, Backfill, Jump, MergeGap} \subseteq Nat /\ 0 < Delay /\ Delay < Lag
    /\ Ceilings \subseteq Nat \ {0} /\ Ceilings # {}
    /\ NoWalk \notin [file : Nat, target : Nat, to : Nat]
    /\ NoEvent \notin [start : Nat, end : Nat]

VARIABLES
    today,      \* now_utc_ms
    reels,      \* the recordings: the frames on disk, and whether it is gone
    filmed,     \* frames of the block the recorder has not written yet
    worker,     \* State: where the thread is, and what it keeps
    event,      \* the analyzer's open event, or NoEvent
    ceiling,    \* max_event_ms: the analyzer's, the store's, the settings'
    jobs,       \* the posts, oldest first
    events,     \* the table `event`
    progress,   \* the table `analysis_progress`
    lives,      \* starts and changes, for the bounds
    seen        \* by model: what was looked at, moved, and may be told by nothing

avars == <<today, reels, filmed, worker, event, ceiling, jobs, events, progress, lives, seen>>
Disk == <<reels, filmed>>
Base == <<events, progress>>
----------------------------------------------------------------------------
AtEnd(s) == s[Len(s)]
Largest(S) == CHOOSE x \in S : \A y \in S : x >= y
Least(S) == CHOOSE x \in S : \A y \in S : x <= y
LaterOf(a, b) == IF a > b THEN a ELSE b
EarlierOf(a, b) == IF a < b THEN a ELSE b

Resting == [at |-> "off", from |-> 0, last |-> 0, saved |-> 0, target |-> 0,
            n |-> 0, walk |-> NoWalk, until |-> 0, model |-> "none"]

\* The analysis of a model, since it last began anew, and where it began.
Blank == [looked |-> {}, moved |-> {}, excused |-> {}, begun |-> 0]

AnalyticsInit ==
    /\ today = 1 /\ reels = <<>> /\ filmed = <<>>
    /\ worker = Resting /\ event = NoEvent
    /\ ceiling = [mine |-> 0, store |-> 0, set |-> Least(Ceilings)]
    /\ jobs = <<>> /\ events = {}
    /\ progress = [to |-> 0, model |-> "none"]
    /\ lives = [starts |-> 0, changes |-> 0]
    /\ seen = [m \in Models |-> Blank]
----------------------------------------------------------------------------
(* The recorder and the retention.                                         *)

\* Time passes and the camera films, or not, into the file in hand or a new one.
Film ==
    /\ today < MaxTime
    /\ filmed # <<>> => filmed[1].frame + Delay > today
    /\ today' = today + 1
    /\ \/ filmed' = filmed
       \/ \E roll \in BOOLEAN : filmed' = Append(filmed, [frame |-> today, roll |-> roll])
    /\ UNCHANGED <<reels, worker, event, ceiling, jobs, Base, lives, seen>>

\* A frame of the block goes to disk.
WriteFrame ==
    /\ filmed # <<>>
    /\ LET f == Head(filmed)
           new == f.roll \/ reels = <<>> \/ AtEnd(reels).gone
       IN  /\ new => Len(reels) < MaxFiles
           /\ reels' = IF new THEN Append(reels, [frames |-> {f.frame}, gone |-> FALSE])
                       ELSE [reels EXCEPT ![Len(reels)].frames = @ \union {f.frame}]
    /\ filmed' = Tail(filmed)
    /\ UNCHANGED <<today, worker, event, ceiling, jobs, Base, lives, seen>>

DropReel(i) ==
    /\ i < Len(reels) /\ ~reels[i].gone
    /\ reels' = [reels EXCEPT ![i].gone = TRUE]
    /\ UNCHANGED <<today, filmed, worker, event, ceiling, jobs, Base, lives, seen>>
----------------------------------------------------------------------------
(* The walk (walk.rs).                                                     *)

Listed == {i \in DOMAIN reels : ~reels[i].gone}
Starts(i) == Least(reels[i].frames)
Ends(i) == Largest(reels[i].frames) + 1

\* file_at: the file of the instant, or the first that starts after it.
FileAt(ms) ==
    LET holds == {i \in Listed : Starts(i) <= ms /\ ms < Ends(i)}
        after == {i \in Listed : Starts(i) >= ms}
    IN  IF holds # {} THEN Least(holds) ELSE IF after # {} THEN Least(after) ELSE 0

\* walk: where it opens; file 0 is a walk that has nothing to give.
OpenWalk(from, to) ==
    LET i == FileAt(from)
    IN  [file |-> IF i # 0 /\ Starts(i) <= to THEN i ELSE 0,
         target |-> from, to |-> to]

\* proximo_arquivo, time after time: by the open file's place in the listing.
Onward(i) == {i} \union {j \in Listed : i \in Listed /\ j > i}

\* next_frame: the first frame at the target or past it, in this file or in
\* those that follow; 0 ends the walk.
NextFrame(walk) ==
    LET ahead(i) == {f \in reels[i].frames : f >= walk.target}
        reached == {i \in Onward(walk.file) : ahead(i) # {}}
        file == Least(reached)
        ms == Least(ahead(file))
    IN  IF walk.file = 0 \/ reached = {} THEN [frame |-> 0, file |-> 0]
        ELSE [frame |-> IF ms <= walk.to THEN ms ELSE 0, file |-> file]

\* The file the walk had open left the listing before the walk was done.
Torn(walk) ==
    walk.file # 0 /\ walk.file \notin Listed
        /\ {f \in reels[walk.file].frames : f >= walk.target} = {}
----------------------------------------------------------------------------
(* The analyzer (analyzer.rs) and the store (store.rs): an open event and  *)
(* what has been posted, together.                                         *)

EventJob(e) == [kind |-> "event", from |-> e.start, to |-> e.end, model |-> "none"]
Now == [open |-> event, posts |-> jobs]

Flush(a) ==
    IF a.open = NoEvent THEN a
    ELSE [open |-> NoEvent, posts |-> Append(a.posts, EventJob(a.open))]

\* close_stale.
CloseStale(a, ms) ==
    IF a.open # NoEvent /\ ms - a.open.end > MergeGap THEN Flush(a) ELSE a

\* note.
Note(a, ms) ==
    LET stretches == a.open # NoEvent /\ ms - a.open.start < ceiling.mine
    IN  IF stretches THEN [a EXCEPT !.open.end = ms]
        ELSE [Flush(a) EXCEPT !.open = [start |-> ms, end |-> ms]]

\* jumped: what was open before a hole is closed there.
Jumped(a, ms) ==
    IF worker.last > 0 /\ ms - worker.last > Jump THEN Flush(a) ELSE a

\* feed.
Fed(a, ms, look) ==
    CASE look = "scene" -> Flush(a)
      [] look = "still" -> CloseStale(a, ms)
      [] look = "moved" -> Note(CloseStale(a, ms), ms)
      [] look = "bad"   -> a

\* save_progress.
Save(a, w) ==
    IF w.from <= w.saved THEN a
    ELSE [a EXCEPT !.posts =
            Append(@, [kind |-> "progress", from |-> 0, to |-> w.from, model |-> w.model])]

Saved(w) == [w EXCEPT !.saved = LaterOf(@, w.from)]
Takes(a) == event' = a.open /\ jobs' = a.posts
----------------------------------------------------------------------------
(* The thread of the camera (worker.rs).                                   *)

\* read_progress: that of another model does not count.
ReadProgress(m) == IF progress.model = m THEN progress.to ELSE 0

StartPoint(m) ==
    LET saved == ReadProgress(m)
        first == IF Listed = {} THEN today ELSE Least({Starts(i) : i \in Listed})
    IN  IF saved > 0 THEN LaterOf(saved, first)
        ELSE IF Backfill = 0 THEN first
        ELSE LaterOf(first, today - Backfill)

\* What the analysis that goes on from there has looked at.
Until(s, at) == [s EXCEPT !.looked = {f \in @ : f < at}, !.moved = {f \in @ : f < at},
                          !.excused = {f \in @ : f < at}]

Start(m) ==
    /\ worker.at = "off" /\ jobs = <<>> /\ lives.starts < MaxStarts
    /\ lives' = [lives EXCEPT !.starts = @ + 1]
    /\ ceiling' = [ceiling EXCEPT !.mine = ceiling.set, !.store = ceiling.set]
    /\ LET at == StartPoint(m) IN
       /\ worker' = [Resting EXCEPT !.at = "idle", !.from = at, !.saved = at, !.model = m]
       /\ seen' = [seen EXCEPT ![m] = IF progress.model = m /\ at = progress.to THEN Until(@, at)
                                      ELSE [Blank EXCEPT !.begun = at]]
    /\ UNCHANGED <<today, Disk, event, jobs, Base>>

\* ajustar: the settings are told to the thread, which takes them next round.
ChangeSettings(c) ==
    /\ lives.changes < MaxChanges /\ c # ceiling.set
    /\ lives' = [lives EXCEPT !.changes = @ + 1]
    /\ ceiling' = [ceiling EXCEPT !.set = c]
    /\ UNCHANGED <<today, Disk, worker, event, jobs, Base, seen>>

BeginRound ==
    /\ worker.at = "idle"
    /\ ceiling' = [ceiling EXCEPT !.mine = ceiling.set]
    /\ worker' = [worker EXCEPT !.at = "round", !.target = today - Lag, !.n = 0]
    /\ worker'.from <= worker'.target
    /\ UNCHANGED <<today, Disk, event, jobs, Base, lives, seen>>

\* Wrong on purpose: the window of the walk may pass the target.
WalkInHandLong ==
    IF worker.walk # NoWalk THEN worker.walk
    ELSE OpenWalk(worker.from, worker.from + Window)

\* The walk in hand, or a new one, which never passes the target.
WalkInHand ==
    IF worker.walk # NoWalk THEN worker.walk
    ELSE OpenWalk(worker.from, EarlierOf(worker.from + Window, worker.target))

InRound == worker.at = "round" /\ worker.from <= worker.target
Goes == InRound /\ (worker.walk # NoWalk \/ worker.from < worker.target)
Saves(n) == n % SaveEvery = 0
Unposted(e) == IF e = NoEvent THEN {} ELSE e.start .. e.end

\* step_percurso with a frame; every so many, the progress is saved.
LookAt(look) ==
    /\ Goes /\ NextFrame(WalkInHand).frame # 0
    /\ LET walk == WalkInHand
           found == NextFrame(walk)
           ms == found.frame
           w == [worker EXCEPT
                   !.walk = [walk EXCEPT !.file = found.file,
                                         !.target = LaterOf(walk.target + Step, ms + 1)],
                   !.until = walk.to, !.last = ms,
                   !.from = LaterOf(@, ms + 1), !.n = @ + 1]
           a == Fed(Jumped(Now, ms), ms, look)
       IN  /\ worker' = IF Saves(w.n) THEN Saved(w) ELSE w
           /\ Takes(IF Saves(w.n) THEN Save(a, w) ELSE a)
           /\ seen' = [seen EXCEPT
                  ![w.model].looked = @ \union {ms},
                  ![w.model].moved = IF look = "moved" THEN @ \union {ms} ELSE @,
                  ![w.model].excused = IF Saves(w.n) THEN @ \union Unposted(a.open) ELSE @]
    /\ UNCHANGED <<today, Disk, ceiling, Base, lives>>

\* step_percurso with no frame left: the window is done with.
WalkEnds ==
    /\ Goes /\ NextFrame(WalkInHand).frame = 0
    /\ LET walk == WalkInHand
           w == [worker EXCEPT !.walk = NoWalk, !.until = walk.to,
                               !.from = LaterOf(@, walk.to), !.n = @ + 1]
       IN  /\ worker' = IF Saves(w.n) THEN Saved(w) ELSE w
           /\ Takes(IF Saves(w.n) THEN Save(Now, w) ELSE Now)
           /\ seen' = [seen EXCEPT ![w.model].excused = @
                  \union (IF Torn(walk) THEN walk.target .. walk.to ELSE {})
                  \union (IF Saves(w.n) THEN Unposted(event) ELSE {})]
    /\ UNCHANGED <<today, Disk, ceiling, Base, lives>>

\* The end of round: what is open is posted, then the progress.
EndRound ==
    /\ worker.at = "round" /\ ~Goes
    /\ Takes(Save(Flush(Now), worker))
    /\ worker' = [Saved(worker) EXCEPT !.at = "idle"]
    /\ UNCHANGED <<today, Disk, ceiling, Base, lives, seen>>

\* A stop: the round is left; the database writes what it was given before the
\* server can start again.
Stop ==
    /\ worker.at \in {"idle", "round"}
    /\ Takes(Save(Flush(Now), worker))
    /\ worker' = Resting
    /\ UNCHANGED <<today, Disk, ceiling, Base, lives, seen>>

\* The process dies: the open event and the queue die with it.
Crash ==
    /\ worker.at \in {"idle", "round"}
    /\ event' = NoEvent /\ jobs' = <<>>
    /\ worker' = Resting
    /\ UNCHANGED <<today, Disk, ceiling, Base, lives, seen>>

\* The writer of the database does the oldest job.
DoJob ==
    /\ jobs # <<>>
    /\ LET j == Head(jobs) IN
       IF j.kind = "event"
       THEN events' = events \union {[start |-> j.from, end |-> j.to]} /\ progress' = progress
       ELSE progress' = [to |-> j.to, model |-> j.model] /\ events' = events
    /\ jobs' = Tail(jobs)
    /\ UNCHANGED <<today, Disk, worker, event, ceiling, lives, seen>>
----------------------------------------------------------------------------
AnalyticsNext ==
    \/ Film \/ WriteFrame
    \/ \E i \in DOMAIN reels : DropReel(i)
    \/ \E m \in Models : Start(m)
    \/ \E c \in Ceilings : ChangeSettings(c)
    \/ BeginRound
    \/ \E look \in {"moved", "still", "scene", "bad"} : LookAt(look)
    \/ WalkEnds \/ EndRound \/ Stop \/ Crash \/ DoJob

Spec == AnalyticsInit /\ [][AnalyticsNext]_avars
----------------------------------------------------------------------------
(* The walk goes past no recording: a frame on disk behind the place the   *)
(* thread has reached was looked at, or another less than a step before it *)
(* was, however late within the lag frames reach the disk, files end and   *)
(* the walk's windows fall; but for the rest of the window of a walk whose *)
(* open file the retention deletes (step_percurso, round,                  *)
(* FrameWalk::next_frame, proximo_arquivo).                                *)
Passed(s, f, ms) ==
    (s.begun <= f /\ f < ms /\ f \notin s.excused) => \E g \in s.looked : g <= f /\ f < g + Step

NothingSkipped ==
    worker.at # "off" =>
        \A i \in Listed : \A f \in reels[i].frames : Passed(seen[worker.model], f, worker.from)

(* The progress the database has is never ahead of its events: a frame     *)
(* that moved before it is in an event of the table, but for those of an   *)
(* event that was open when the progress was saved in the middle of a      *)
(* round, which a death of the server then loses (round, save_progress,    *)
(* FrameAnalyzer::flush).                                                  *)
ProgressTold ==
    progress.model \in Models =>
        LET s == seen[progress.model]
        IN  \A f \in s.moved :
                (f < progress.to /\ f \notin s.excused) =>
                    \E e \in events : e.start <= f /\ f <= e.end

(* A query finds every event that meets its window, as schema-v1.sql:178   *)
(* says: the window of starts it searches begins one ceiling of duration   *)
(* before it (DbEventStore::query).                                        *)
QueryFinds ==
    \A e \in events : \A from \in e.start .. e.end : e.start >= from - ceiling.store
=============================================================================
