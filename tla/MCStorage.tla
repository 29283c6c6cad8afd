----------------------------- MODULE MCStorage ------------------------------
(***************************************************************************)
(* The recordings, and what is kept and made of them: small instances of   *)
(* IndexCache, Retention, MediaApi, Thumbs, Timeline, Settings,            *)
(* Interactions and Analytics.                                             *)
(* The components share no state: the variable part says which of them     *)
(* runs in a behaviour, the others stay as they started. One run of the    *)
(* model checker so goes through the whole instance of each of them, and   *)
(* each property is about one.                                             *)
(***************************************************************************)
EXTENDS Naturals, Sequences

CONSTANTS
  Nil,           \* a value nothing else equals
  \* of IndexCache, Retention, Thumbs, Interactions, Settings, MediaApi and
  \* Analytics, which are proved about
  RecordedFiles, CameraOf, MaxWrites, MaxIndexes, MaxLists, MaxServerStarts,
  NFiles, Grace, MaxAge, MaxTotal, MinFree, Capacity, MaxTime, MaxEvents, MaxSize,
  Threads, Lag, Slow, MissTtl, MinAge, MaxMinute, MaxThumbs,
  Gap, Longest, MaxClock, MaxCommands, MaxAnswers, MaxBack, MaxWriteFaults,
  Keys, Values, LeastTuning, On, Json, JsonOrder, JsonCams, Defaults, Registers,
  Tables, MaxBoots, MaxPosts,
  MediaFiles, MaxBlocks, MaxInstant, Assumed, Wanted, MaxFetches,
  Step, Behind, Window, Backfill, Jump, MergeGap, Ceilings, Models, SaveEvery, Delay,
  MaxToday, MaxReels, MaxStarts, MaxChanges

VARIABLES
  part,  \* which of the components runs
  disk, cached, loaded, dirty, tick, indexRows, posted, request, indexAsked,
  indexStarts,
  now, files, held, sweepEvents, happened, sweep,
  mediaClock, recs, player, fetch, got, asks,
  minute, frame, jpg, tmp, data, missed, absent, notes, making, thumbAsking,
  served,
  listed, zone, shown,
  settingMade, seeded, set, settingRows, imported, main, boot, works, hook,
  posts, unheard, settingStarts, settingAsked,
  logClock, back, open, ready, queue, table, phase, logMade, early, lost,
  logAsking,
  today, reels, filmed, worker, event, ceiling, jobs, analysisEvents,
  progress, lives, seen

indexVars == <<disk, cached, loaded, dirty, tick, indexRows, posted, request,
    indexAsked, indexStarts>>
sweepVars == <<now, files, held, sweepEvents, happened, sweep>>
mediaVars == <<mediaClock, recs, player, fetch, got, asks>>
thumbVars == <<minute, frame, jpg, tmp, data, missed, absent, notes, making,
    thumbAsking, served>>
dayVars == <<listed, zone, shown>>
settingVars == <<settingMade, seeded, set, settingRows, imported, main, boot, works, hook,
    posts, unheard, settingStarts, settingAsked>>
logVars == <<logClock, back, open, ready, queue, table, phase, logMade, early, lost,
    logAsking>>
analysisVars == <<today, reels, filmed, worker, event, ceiling, jobs, analysisEvents,
    progress, lives, seen>>

IC == INSTANCE IndexCache WITH
  Files <- RecordedFiles, Requests <- Threads, MaxSize <- MaxWrites,
  MaxAsked <- MaxLists, MaxStarts <- MaxServerStarts, None <- Nil,
  rows <- indexRows, asked <- indexAsked, starts <- indexStarts

ASSUME IndexCacheAssumption == IC!IndexCacheAssumption

\* Each recording of a camera of its own.
OneEach == [f \in RecordedFiles |-> f]

RT == INSTANCE Retention WITH events <- sweepEvents

ASSUME RetentionAssumption == RT!RetentionAssumption

MA == INSTANCE MediaApi WITH
  NFiles <- MediaFiles, MaxTime <- MaxInstant, MaxAsked <- MaxFetches,
  clock <- mediaClock

ASSUME MediaApiAssumption == MA!MediaApiAssumption

TH == INSTANCE Thumbs WITH
  Requests <- Threads, MaxTime <- MaxMinute, MaxAsked <- MaxThumbs,
  asking <- thumbAsking

ASSUME ThumbsAssumption == TH!ThumbsAssumption

\* A calendar that gains an hour, one that loses it, and one that never changes.
Zones ==
  {[at |-> 5, before |-> 1, after |-> 2], [at |-> 6, before |-> 2, after |-> 1],
   [at |-> 0, before |-> 0, after |-> 0]}

TL == INSTANCE Timeline WITH
  DayLength <- 4, Hop <- 6, Shifts <- Zones, Horizon <- 8, MaxListed <- 2,
  GapsAsked <- {0, 2}, StepsAsked <- {1, 3}

ASSUME TL!TimelineAssumption

\* A json that differs from the defaults of the schema in every setting but one.
TheJson == [enabled |-> 1, tune |-> 0, other |-> 2]
TheOrder == <<"other", "enabled", "tune">>
TheDefaults == [k \in DOMAIN TheJson |-> 0]
OneCamera == <<"c">>

SE == INSTANCE Settings WITH
  Least <- LeastTuning, Cameras <- Registers, Requests <- Threads,
  MaxStarts <- MaxBoots, None <- Nil, made <- settingMade,
  rows <- settingRows, starts <- settingStarts, asked <- settingAsked

ASSUME SettingsAssumption == SE!SettingsAssumption

LG == INSTANCE Interactions WITH
  MaxTime <- MaxClock, MaxFaults <- MaxWriteFaults, NoStretch <- Nil,
  clock <- logClock, made <- logMade, asking <- logAsking

ASSUME InteractionsAssumption == LG!InteractionsAssumption

AN == INSTANCE Analytics WITH
  Lag <- Behind, MaxTime <- MaxToday, MaxFiles <- MaxReels, NoWalk <- Nil, NoEvent <- Nil,
  events <- analysisEvents

ASSUME AnalyticsAssumption == AN!AnalyticsAssumption

Init ==
  /\ part \in {"index", "sweep", "media", "thumb", "day", "setting", "log", "analysis"}
  /\ IC!Init
  /\ RT!Init
  /\ MA!Init
  /\ TH!Init
  /\ TL!TimelineInit /\ (part = "day" \/ (listed = <<>> /\ zone.at = 0))
  /\ SE!SettingInit
  /\ LG!LogInit
  /\ AN!AnalyticsInit

ICStep ==
  /\ part = "index" /\ IC!Next
  /\ UNCHANGED <<part, sweepVars, mediaVars, thumbVars, dayVars, settingVars, logVars, analysisVars>>

RTStep ==
  /\ part = "sweep" /\ RT!Next
  /\ UNCHANGED <<part, indexVars, mediaVars, thumbVars, dayVars, settingVars, logVars, analysisVars>>

MAStep ==
  /\ part = "media" /\ MA!Next
  /\ UNCHANGED <<part, indexVars, sweepVars, thumbVars, dayVars, settingVars, logVars, analysisVars>>

THStep ==
  /\ part = "thumb" /\ TH!Next
  /\ UNCHANGED <<part, indexVars, sweepVars, mediaVars, dayVars, settingVars, logVars, analysisVars>>

TLStep ==
  /\ part = "day" /\ TL!TimelineNext
  /\ UNCHANGED <<part, indexVars, sweepVars, mediaVars, thumbVars, settingVars, logVars, analysisVars>>

SEStep ==
  /\ part = "setting" /\ SE!SettingNext
  /\ UNCHANGED <<part, indexVars, sweepVars, mediaVars, thumbVars, dayVars, logVars, analysisVars>>

LGStep ==
  /\ part = "log" /\ LG!LogNext
  /\ UNCHANGED <<part, indexVars, sweepVars, mediaVars, thumbVars, dayVars, settingVars, analysisVars>>

ANStep ==
  /\ part = "analysis" /\ AN!AnalyticsNext
  /\ UNCHANGED <<part, indexVars, sweepVars, mediaVars, thumbVars, dayVars, settingVars, logVars>>

Next == ICStep \/ RTStep \/ MAStep \/ THStep \/ TLStep \/ SEStep \/ LGStep \/ ANStep

vars == <<part, indexVars, sweepVars, mediaVars, thumbVars, dayVars, settingVars, logVars, analysisVars>>

Spec == Init /\ [][Next]_vars

-----------------------------------------------------------------------------
\* What is remembered for the size a closed recording has is what the
\* recording is, in memory and in the table, whoever wrote or read meanwhile;
\* and no more indexes than the limit are held.
IndexCacheSafe == IC!CacheTells /\ IC!FewIndexes

\* A file a recorder has open is never deleted; what a sweep deletes is the
\* oldest it may delete, and it ends within the limits or with nothing left
\* to delete.
RetentionSafe == RT!KeepsTheLive /\ []RT!SweepsEnough

\* A player that follows its cursors gets no block twice, none out of order,
\* and leaves none behind that was there when it asked, while files are
\* written, closed and deleted.
MediaApiSafe == []MA!OnceInOrder /\ MA!NothingLeftBehind

\* A minute that has a keyframe is never noted for good as one without a
\* picture.
AbsentForGood == TH!AbsentForGood

\* Every recorded instant is told in its day and once, on days of 3, 4 and 5
\* parts; thinned media keeps keyframes at least a step apart and drops none
\* it need not.
TimelineTells == TL!DaysTell /\ TL!ThinnedSteps

\* Two requests saving tunings at once leave every worker that was told with
\* the tuning that is saved; and the import from the json is marked only when
\* all of it is in the tables, at whatever point of it earlier starts died.
SettingsSafe == []SE!SettingTypeOK /\ []SE!LastTuningWins /\ SE!ImportedWhole

\* Each command is told by exactly one stretch, wherever the stretch is on
\* its way to the table, and is in the table once the server is off; an
\* answer tells no stretch twice and leaves out none.
InteractionsSafe == LG!EachCommandOnce /\ LG!AnswerTells

\* The walk over the recordings passes no frame by, however late within the
\* lag frames reach the disk; and the progress saved is never ahead of the
\* events saved.
AnalyticsSafe == AN!NothingSkipped /\ AN!ProgressTold

=============================================================================
