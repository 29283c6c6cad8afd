------------------------------ MODULE Timeline ------------------------------
(***************************************************************************)
(* What the timeline shows of the recordings: the days, the segments and   *)
(* the inventory of src/server/src/api/recordings.rs, the ranges of        *)
(* index_cache.rs, the thinned blocks of media.rs and the local calendar   *)
(* of src/shared/src/clock.rs.                                             *)
(*                                                                         *)
(* An instant is a number; a day is DayLength of them, and local time is   *)
(* ahead of UTC by an offset that changes once (daylight saving).  A day   *)
(* is named by its number since the epoch.                                 *)
(***************************************************************************)
EXTENDS Naturals, Integers, Sequences, FiniteSets

CONSTANTS
    DayLength,      \* MS_PER_DAY
    Hop,            \* the 26 hours after which it is the next day
    Shifts,         \* the calendars: when the offset changes, from what, to what
    Horizon,        \* bound: instants
    MaxListed,      \* bound: files of the camera
    GapsAsked,      \* the gapMs asked for
    StepsAsked      \* the step of thinned media asked for

TimelineAssumption ==
    DayLength \in Nat \ {0} /\ Hop \in Nat /\ Hop > DayLength

VARIABLES
    listed,         \* list_files: start and end of each file, by start
    zone,           \* the calendar of the machine
    shown           \* the last answer, and its question

tvars == <<listed, zone, shown>>
----------------------------------------------------------------------------
(* The ranges (index_cache.rs).                                            *)

LaterOf(a, b) == IF a > b THEN a ELSE b
EarlierOf(a, b) == IF a < b THEN a ELSE b
Real(files) == SelectSeq(files, LAMBDA f : f.end > f.start)

\* Wrong on purpose: a file inside the one before cuts the range short.
JoinCutting(ranges, f, gap) ==
    LET n == Len(ranges)
    IN  IF n > 0 /\ f.start - ranges[n].end <= gap
        THEN [ranges EXCEPT ![n].end = f.end]
        ELSE Append(ranges, f)

\* One file joined to the ranges so far.
Join(ranges, f, gap) ==
    LET n == Len(ranges)
    IN  IF n > 0 /\ f.start - ranges[n].end <= gap
        THEN [ranges EXCEPT ![n].end = LaterOf(@, f.end)]
        ELSE Append(ranges, f)

\* merge_ranges.
MergeRanges(files, gap) ==
    LET real == Real(files)
        merged[n \in 0..Len(real)] ==
            IF n = 0 THEN <<>> ELSE Join(merged[n - 1], real[n], gap)
    IN  merged[Len(real)]

\* clip_ranges.
ClipRanges(ranges, from, to) ==
    LET cut == [i \in DOMAIN ranges |->
                   [start |-> LaterOf(ranges[i].start, from),
                    end |-> EarlierOf(ranges[i].end, to)]]
    IN  Real(cut)
----------------------------------------------------------------------------
(* The calendar (clock.rs, next_day).                                      *)

Offset(t) == IF t < zone.at THEN zone.before ELSE zone.after
LocalDayOf(t) == (t + Offset(t)) \div DayLength
LocalDayStart(d) ==
    LET midnight == d * DayLength
    IN  midnight - Offset(midnight - Offset(midnight))
NextDay(d) == LocalDayOf(LocalDayStart(d) + Hop)
----------------------------------------------------------------------------
(* The routes (recordings.rs).                                             *)

Length(ranges) ==
    LET sum[n \in 0..Len(ranges)] ==
            IF n = 0 THEN 0 ELSE sum[n - 1] + ranges[n].end - ranges[n].start
    IN  sum[Len(ranges)]

\* One day of the answer; a day with nothing is left out.
DayShown(d, exact, glued) ==
    LET from == LocalDayStart(d)
        to == LocalDayStart(NextDay(d))
        mine == ClipRanges(exact, from, to)
    IN  IF mine = <<>> THEN {}
        ELSE {[day |-> d, from |-> mine[1].start, to |-> mine[Len(mine)].end,
               recorded |-> Length(mine), segments |-> Len(ClipRanges(glued, from, to))]}

Question == [route |-> "none", day |-> 0, gap |-> 0, days |-> {}, ranges |-> <<>>]

Days(gap) ==
    /\ LET exact == MergeRanges(listed, 0)
           glued == MergeRanges(listed, gap)
           first == LocalDayOf(exact[1].start)
           last == LocalDayOf(exact[Len(exact)].end)
           \* the days the loop goes through, from the first
           walked[n \in 0..(last - first)] == IF n = 0 THEN first ELSE NextDay(walked[n - 1])
       IN  shown' = [Question EXCEPT !.route = "days", !.gap = gap,
               !.days = IF exact = <<>> THEN {}
                        ELSE UNION {DayShown(walked[n], exact, glued) :
                                    n \in {k \in 0..(last - first) : walked[k] <= last}}]
    /\ UNCHANGED <<listed, zone>>

Segments(d, gap) ==
    /\ shown' = [Question EXCEPT !.route = "segments", !.day = d, !.gap = gap,
          !.ranges = ClipRanges(MergeRanges(listed, gap),
                                LocalDayStart(d), LocalDayStart(NextDay(d)))]
    /\ UNCHANGED <<listed, zone>>

Recordings(from, to) ==
    /\ shown' = [Question EXCEPT !.route = "recordings", !.day = from, !.gap = to,
          !.ranges = SelectSeq(listed, LAMBDA f : f.end > from /\ f.start < to)]
    /\ UNCHANGED <<listed, zone>>
----------------------------------------------------------------------------
(* Thinned media (media.rs): of the frames of two blocks of a recording,   *)
(* the key frames a step apart.                                            *)

\* thin_block: last_ms goes from block to block.
ThinBlock(block, step, last) ==
    LET kept[n \in 0..Len(block)] ==
            IF n = 0 THEN [frames |-> <<>>, last |-> last]
            ELSE LET k == kept[n - 1]  f == block[n]
                 IN  IF f.key /\ (k.last = 0 \/ f.wall - k.last >= step)
                     THEN [frames |-> Append(k.frames, f.wall), last |-> f.wall] ELSE k
    IN  kept[Len(block)]

Thinned(keys, cut, step) ==
    LET frame(t) == [wall |-> t, key |-> t \in keys]
        one == [i \in 1..cut |-> frame(i)]
        two == [i \in 1..(Horizon - cut) |-> frame(cut + i)]
        a == ThinBlock(one, step, 0)
        b == ThinBlock(two, step, a.last)
    IN  /\ shown' = [Question EXCEPT !.route = "thinned", !.gap = step,
                        !.days = keys, !.ranges = a.frames \o b.frames]
        /\ UNCHANGED <<listed, zone>>
----------------------------------------------------------------------------
TimelineInit ==
    /\ zone \in Shifts
    /\ \E n \in 0..MaxListed :
         /\ listed \in [1..n -> [start : 1..Horizon, end : 1..Horizon]]
         /\ \A i \in 1..n : listed[i].start <= listed[i].end
         /\ \A i \in 1..(n - 1) : listed[i].start <= listed[i + 1].start
    /\ shown = Question

Answer ==
    \/ \E gap \in GapsAsked :
         \/ Days(gap)
         \/ \E d \in LocalDayOf(1) .. LocalDayOf(Horizon) : Segments(d, gap)
    \/ \E from, to \in {1, Horizon \div 2, Horizon} : Recordings(from, to)
    \/ listed = <<>> /\ \E keys \in SUBSET (1..Horizon), cut \in {2, Horizon \div 2},
                          step \in StepsAsked : Thinned(keys, cut, step)

\* The server keeps nothing of a question once it is answered.
Forget == shown # Question /\ shown' = Question /\ UNCHANGED <<listed, zone>>

TimelineNext == (shown = Question /\ Answer) \/ Forget

Spec == TimelineInit /\ [][TimelineNext]_tvars
----------------------------------------------------------------------------
Recorded == {t \in 1..Horizon : \E i \in DOMAIN listed : listed[i].start <= t /\ t < listed[i].end}
In(ranges) == {t \in 1..Horizon : \E i \in DOMAIN ranges : ranges[i].start <= t /\ t < ranges[i].end}

\* The instants clock.rs:228 says a change of the offset near midnight may
\* give to the wrong day.
Misdated(t) == LET d == LocalDayOf(t) IN t < LocalDayStart(d) \/ t >= LocalDayStart(d + 1)

(* Every recorded instant is in the day it belongs to and is counted once, *)
(* whatever the files overlap, a file's length and the length of the day,  *)
(* and the segments of a day are apart by more than the gap and cover what *)
(* was recorded in it (days, segments, merge_ranges, clip_ranges).         *)
DaysTell ==
    /\ (shown.route = "days" /\ ~\E t \in Recorded : Misdated(t)) =>
        /\ {LocalDayOf(t) : t \in Recorded} = {d.day : d \in shown.days}
        /\ \A d \in shown.days :
             LET mine == {t \in Recorded : LocalDayOf(t) = d.day}
             IN  /\ d.recorded = Cardinality(mine)
                 /\ d.from \in mine /\ d.to - 1 \in mine
                 /\ \A t \in mine : d.from <= t /\ t < d.to
    /\ shown.route = "segments" =>
        /\ \A t \in Recorded : (LocalDayOf(t) = shown.day /\ ~Misdated(t)) => t \in In(shown.ranges)
        /\ \A i \in 1..(Len(shown.ranges) - 1) :
             shown.ranges[i + 1].start - shown.ranges[i].end > shown.gap

(* Thinned media keeps key frames at least a step apart, across blocks     *)
(* too, and leaves none out but those less than a step after one it kept   *)
(* (thin_block).                                                           *)
ThinnedSteps ==
    shown.route = "thinned" =>
        LET kept == {shown.ranges[i] : i \in DOMAIN shown.ranges}
        IN  /\ \A a, b \in kept : a < b => b - a >= shown.gap
            /\ \A k \in shown.days \ kept : \E a \in kept : a < k /\ k - a < shown.gap
=============================================================================
