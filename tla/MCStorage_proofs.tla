--------------------------- MODULE MCStorage_proofs ---------------------------
(***************************************************************************)
(* Proofs about what MCStorage puts together: the thumbnails, the clean-up *)
(* of the recordings, what is known of them, the log of who moved a camera,*)
(* the settings, the pieces a player asks for and the image analysis, for  *)
(* any recordings, threads, commands, settings, players, models, times and *)
(* bounds.                                                                 *)
(***************************************************************************)
EXTENDS MCStorage, SequenceTheorems, FiniteSetTheorems, WellFoundedInduction, TLAPS

LEMMA LeastOf ==
  ASSUME NEW S, S \subseteq Nat, S # {}
  PROVE  \E i \in S : \A j \in S : i <= j
<1>1. IsWellFoundedOn(OpToRel(<, Nat), Nat)
  BY NatLessThanWellFounded
<1>2. PICK i \in S : \A j \in S : ~(<<j, i>> \in OpToRel(<, Nat))
  <2> HIDE DEF OpToRel
  <2> QED
    BY <1>1, WFMin
<1>3. \A j \in S : ~(j < i)
  BY <1>2 DEF OpToRel
<1> QED
  BY <1>3

LEMMA Greater ==
  ASSUME NEW u \in Nat, NEW v \in Nat
  PROVE  ~(u > u) /\ (u <= v /\ u # v => v > u)
OBVIOUS

-----------------------------------------------------------------------------
(* Thumbs: absent for good *)

\* A request that found nothing looked not long ago, and, where there may be
\* something yet, when the minute was young.
ThumbRequest(t) ==
  /\ {"at", "file", "looked"} \subseteq DOMAIN thumbAsking[t] /\ thumbAsking[t].looked \in Nat
  /\ thumbAsking[t].at = "missing" =>
       /\ minute <= thumbAsking[t].looked + Slow
       /\ frame # "never" => thumbAsking[t].looked <= Lag

Noted == BOOLEAN
Absent == TRUE

ThumbInv ==
  /\ frame \in {"awaited", "yes", "never"}
  /\ minute \in Nat /\ notes \in Seq(Noted)
  /\ frame = "awaited" => minute <= Lag
  /\ DOMAIN thumbAsking = Threads /\ \A t \in Threads : ThumbRequest(t)
  /\ absent = Absent => frame = "never"
  /\ \A i \in 1 .. Len(notes) : notes[i] = Absent => frame = "never"

LEMMA ThumbStarts == Init => ThumbInv
<1> SUFFICES ASSUME Init PROVE ThumbInv
  OBVIOUS
<1>1. /\ minute = 0 /\ frame = "awaited" /\ notes = <<>>
      /\ thumbAsking = [t \in Threads |-> [at |-> "idle", file |-> 0, looked |-> 0]]
  BY DEF Init, TH!Init, TH!Idle, TH!None
<1>2. notes \in Seq(Noted) /\ Len(notes) = 0
  BY <1>1
<1>3. Lag \in Nat
  BY ThumbsAssumption DEF TH!ThumbsAssumption
<1>5. absent # Absent
  BY Zenon DEF Init, TH!Init, Absent
<1>4. \A t \in Threads : ThumbRequest(t)
  BY <1>1 DEF ThumbRequest
<1> QED
  BY <1>1, <1>2, <1>3, <1>4, <1>5 DEF ThumbInv

LEMMA ThumbTicks ==
  ASSUME ThumbInv, TH!Tick \/ TH!Records
  PROVE  ThumbInv'
<1>1. /\ notes' = notes /\ absent' = absent /\ thumbAsking' = thumbAsking
  BY DEF TH!Tick, TH!Records, TH!Known
<1>2. minute \in Nat /\ Lag \in Nat /\ Slow \in Nat
  BY ThumbsAssumption DEF ThumbInv, TH!ThumbsAssumption
<1>3. CASE TH!Tick
  <2>1. /\ minute' = minute + 1 /\ frame' = frame
        /\ frame = "awaited" => minute + 1 <= Lag
        /\ minute + 1 \in Nat
        /\ \A t \in Threads : thumbAsking[t].at = "missing" => minute + 1 <= thumbAsking[t].looked + Slow
    BY <1>2, <1>3 DEF TH!Tick
  <2>2. \A t \in Threads : ThumbRequest(t)'
    BY <1>1, <2>1 DEF ThumbInv, ThumbRequest
  <2>3. \A i \in 1 .. Len(notes') : notes'[i] = Absent => frame' = "never"
    BY <1>1, <2>1 DEF ThumbInv
  <2> QED
    BY <1>1, <1>2, <2>1, <2>2, <2>3 DEF ThumbInv
<1>4. CASE TH!Records
  <2>1. minute' = minute /\ frame = "awaited" /\ frame' \in {"yes", "never"}
    BY <1>4 DEF TH!Records
  <2>2. \A t \in Threads : ThumbRequest(t)'
    BY <1>1, <2>1 DEF ThumbInv, ThumbRequest
  <2> QED
    BY <1>1, <1>2, <2>1, <2>2 DEF ThumbInv
<1> QED
  BY <1>3, <1>4

LEMMA ThumbWritesRow ==
  ASSUME ThumbInv, TH!WriteRow
  PROVE  ThumbInv'
<1>1. /\ notes # <<>> /\ absent' = Head(notes) /\ notes' = Tail(notes)
      /\ minute' = minute /\ frame' = frame /\ thumbAsking' = thumbAsking
  BY DEF TH!WriteRow
<1>2. /\ notes \in Seq(Noted) /\ Len(notes) \in Nat \ {0}
      /\ notes' \in Seq(Noted) /\ Len(notes') = Len(notes) - 1
      /\ \A i \in 1 .. Len(notes') : notes'[i] = notes[i + 1]
  <2>1. notes \in Seq(Noted)
    BY DEF ThumbInv
  <2>2. Len(notes) \in Nat \ {0}
    BY <1>1, <2>1
  <2> QED
    BY <1>1, <2>1, <2>2, HeadTailProperties
<1>3. \A i \in 1 .. Len(notes') : i + 1 \in 1 .. Len(notes)
  BY <1>2
<1>4. 1 \in 1 .. Len(notes)
  BY <1>2
<1>5. absent' = notes[1]
  BY <1>1, <1>2
<1>6. absent' = Absent => frame' = "never"
  BY <1>1, <1>4, <1>5, Zenon DEF ThumbInv
<1>7. \A i \in 1 .. Len(notes') : notes'[i] = Absent => frame' = "never"
  BY <1>1, <1>2, <1>3, Zenon DEF ThumbInv
<1>8. \A t \in Threads : ThumbRequest(t)'
  BY <1>1 DEF ThumbInv, ThumbRequest
<1> QED
  BY <1>1, <1>2, <1>6, <1>7, <1>8 DEF ThumbInv

LEMMA NoteAppended ==
  ASSUME NEW s \in Seq(Noted), NEW e \in Noted
  PROVE  /\ Append(s, e) \in Seq(Noted) /\ Len(Append(s, e)) = Len(s) + 1
         /\ Append(s, e)[Len(s) + 1] = e
         /\ \A i \in 1 .. Len(s) : Append(s, e)[i] = s[i]
  BY AppendProperties

\* A request goes on and notes nothing but, perhaps, that there is a picture.
LEMMA ThumbGoesOn ==
  ASSUME ThumbInv, NEW t \in Threads,
         TH!Get(t) \/ TH!Lock(t) \/ TH!Generate(t) \/ TH!Create(t) \/ TH!Write(t) \/ TH!Rename(t)
  PROVE  ThumbInv'
<1>1. minute' = minute /\ frame' = frame /\ absent' = absent
  BY DEF TH!Get, TH!Lock, TH!Generate, TH!Create, TH!Write, TH!Rename, TH!NoteHit, TH!Known
<1>2. minute \in Nat /\ Lag \in Nat /\ Slow \in Nat
  BY ThumbsAssumption DEF ThumbInv, TH!ThumbsAssumption
<1>3. \/ notes' = notes
      \/ notes' = Append(notes, FALSE)
  BY DEF TH!Get, TH!Lock, TH!Generate, TH!Create, TH!Write, TH!Rename, TH!NoteHit, TH!Known
<1>4. /\ notes' \in Seq(Noted)
      /\ \A i \in 1 .. Len(notes') : notes'[i] = Absent => frame' = "never"
  <2>1. CASE notes' = notes
    BY <1>1, <2>1, Zenon DEF ThumbInv
  <2>2. CASE notes' = Append(notes, FALSE)
    <3>1. notes \in Seq(Noted) /\ Len(notes) \in Nat
      BY DEF ThumbInv
    <3>2. /\ notes' \in Seq(Noted) /\ Len(notes') = Len(notes) + 1
          /\ notes'[Len(notes) + 1] = FALSE
          /\ \A i \in 1 .. Len(notes) : notes'[i] = notes[i]
      <4>1. FALSE \in Noted
        BY DEF Noted
      <4> QED
        BY <2>2, <3>1, <4>1, NoteAppended, Zenon
    <3>3. \A i \in 1 .. Len(notes') : i = Len(notes) + 1 \/ i \in 1 .. Len(notes)
      BY <3>1, <3>2
    <3>4. ASSUME NEW i \in 1 .. Len(notes'), notes'[i] = Absent PROVE frame' = "never"
      <4>1. i # Len(notes) + 1
        BY <3>2, <3>4, Zenon DEF Absent
      <4>2. i \in 1 .. Len(notes) /\ notes[i] = Absent
        BY <3>2, <3>3, <3>4, <4>1, Zenon
      <4> QED
        BY <1>1, <4>2, Zenon DEF ThumbInv
    <3> QED
      BY <3>2, <3>4
  <2> QED
    BY <1>3, <2>1, <2>2
<1>5. /\ DOMAIN thumbAsking' = Threads
      /\ \A u \in Threads \ {t} : thumbAsking'[u] = thumbAsking[u]
      /\ {"at", "file", "looked"} \subseteq DOMAIN thumbAsking'[t] /\ thumbAsking'[t].looked \in Nat
      /\ \/ thumbAsking'[t] = thumbAsking[t]
         \/ thumbAsking'[t].at # "missing"
         \/ frame # "yes" /\ thumbAsking'[t].looked = minute
  <2>1. DOMAIN thumbAsking = Threads /\ ThumbRequest(t)
    BY DEF ThumbInv
  <2>2. CASE TH!Get(t)
    BY <1>2, <2>1, <2>2 DEF ThumbRequest, TH!Get, TH!RecentMiss, TH!Goes
  <2>3. CASE TH!Lock(t)
    BY <1>2, <2>1, <2>3 DEF ThumbRequest, TH!Lock, TH!Goes
  <2>4. CASE TH!Generate(t)
    <3>1. CASE frame = "yes"
      <4>1. thumbAsking' = [thumbAsking EXCEPT ![t] = [TH!Idle EXCEPT !.at = "create"]]
        BY <2>4, <3>1 DEF TH!Generate
      <4>2. [TH!Idle EXCEPT !.at = "create"] = [at |-> "create", file |-> 0, looked |-> 0]
        BY DEF TH!Idle, TH!None
      <4> QED
        BY <2>1, <4>1, <4>2
    <3>2. CASE frame # "yes"
      <4>1. thumbAsking' = [thumbAsking EXCEPT ![t] =
              [TH!Idle EXCEPT !.at = "missing", !.looked = minute]]
        BY <2>4, <3>2 DEF TH!Generate
      <4> QED
        BY <1>2, <2>1, <3>2, <4>1 DEF TH!Idle, TH!None
    <3> QED
      BY <3>1, <3>2
  <2>5. CASE TH!Create(t)
    BY <1>2, <2>1, <2>5 DEF ThumbRequest, TH!Create
  <2>6. CASE TH!Write(t)
    BY <1>2, <2>1, <2>6 DEF ThumbRequest, TH!Write, TH!Goes
  <2>7. CASE TH!Rename(t)
    BY <1>2, <2>1, <2>7 DEF ThumbRequest, TH!Rename, TH!NoteHit, TH!Idle
  <2> QED
    BY <2>2, <2>3, <2>4, <2>5, <2>6, <2>7
<1>6. \A u \in Threads : ThumbRequest(u)'
  BY <1>1, <1>2, <1>5 DEF ThumbInv, ThumbRequest
<1> QED
  BY <1>1, <1>4, <1>5, <1>6 DEF ThumbInv

\* An absence is noted so late that what was not there then never will be.
LEMMA ThumbMisses ==
  ASSUME ThumbInv, NEW t \in Threads, TH!Missing(t)
  PROVE  ThumbInv'
<1>1. /\ thumbAsking[t].at = "missing" /\ minute' = minute /\ frame' = frame /\ absent' = absent
      /\ thumbAsking' = [thumbAsking EXCEPT ![t] = [at |-> "idle", file |-> 0, looked |-> 0]]
      /\ notes' = IF minute >= MinAge THEN Append(notes, TRUE) ELSE notes
  BY DEF TH!Missing, TH!At, TH!Idle, TH!None, TH!NotesAbsence
<1>2. /\ minute \in Nat /\ Lag \in Nat /\ Slow \in Nat /\ MinAge \in Nat /\ Lag + Slow < MinAge
      /\ thumbAsking[t].looked \in Nat /\ minute <= thumbAsking[t].looked + Slow
      /\ frame # "never" => thumbAsking[t].looked <= Lag
  BY <1>1, ThumbsAssumption DEF ThumbInv, ThumbRequest, TH!ThumbsAssumption
<1>3. minute >= MinAge => frame = "never"
  BY <1>2
<1>4. /\ notes' \in Seq(Noted)
      /\ \A i \in 1 .. Len(notes') : notes'[i] = Absent => frame' = "never"
  <2>1. CASE minute >= MinAge
    <3>1. notes' = Append(notes, TRUE) /\ frame' = "never"
      BY <1>1, <1>3, <2>1
    <3>2. notes \in Seq(Noted)
      BY DEF ThumbInv
    <3>3. Append(notes, TRUE) \in Seq(Noted)
      <4>1. TRUE \in Noted
        BY DEF Noted
      <4> QED
        BY <3>2, <4>1, AppendProperties
    <3> QED
      BY <3>1, <3>3
  <2>2. CASE ~(minute >= MinAge)
    <3>1. notes' = notes
      BY <1>1, <2>2
    <3> QED
      BY <1>1, <3>1, Zenon DEF ThumbInv
  <2> QED
    BY <2>1, <2>2
<1>5. DOMAIN thumbAsking' = Threads /\ \A u \in Threads : ThumbRequest(u)'
  BY <1>1 DEF ThumbInv, ThumbRequest
<1> QED
  BY <1>1, <1>4, <1>5 DEF ThumbInv

\* Whenever the recorder shows the minute's keyframe and however long a request
\* takes to find none, within their limits: a minute that has a keyframe is
\* never noted in the table as one without a picture.
THEOREM NeverAbsentWithAFrame == Spec => []AbsentForGood
<1>1. Init => ThumbInv
  BY ThumbStarts
<1>2. ThumbInv /\ [Next]_vars => ThumbInv'
  <2> SUFFICES ASSUME ThumbInv, [Next]_vars PROVE ThumbInv'
    OBVIOUS
  <2>1. CASE THStep
    <3>1. TH!Next
      BY <2>1 DEF THStep
    <3> QED
      BY <3>1, ThumbTicks, ThumbWritesRow, ThumbGoesOn, ThumbMisses DEF TH!Next
  <2>2. CASE thumbVars' = thumbVars
    BY <2>2 DEF thumbVars, ThumbInv, ThumbRequest
  <2> QED
    BY <2>1, <2>2 DEF Next, vars, ICStep, RTStep, MAStep, TLStep, SEStep, LGStep, ANStep
<1>3. ThumbInv => AbsentForGood
  <2> SUFFICES ASSUME ThumbInv, absent PROVE frame # "yes"
    BY DEF AbsentForGood, TH!AbsentForGood
  <2>1. absent = Absent
    BY DEF Absent
  <2> QED
    BY <2>1, Zenon DEF ThumbInv
<1> QED
  BY <1>1, <1>2, <1>3, PTL DEF Spec

-----------------------------------------------------------------------------
(* Retention: the live files stay, and the oldest go first *)

Recorded(f) ==
  /\ {"state", "start", "written", "size"} \subseteq DOMAIN files[f]
  /\ files[f].written \in Nat /\ files[f].size \in Nat
  /\ files[f].state = "open" => now - files[f].written < Grace

\* A file of the listing is there or was deleted, and, where the sweep may
\* delete it, no recorder has it open any more.
Listed(f) ==
  /\ f \in RT!Files
  /\ sweep.listing[f].written \in Nat /\ sweep.listing[f].size \in Nat
  /\ files[f].state \in {"open", "closed", "deleted"}
  /\ f \notin sweep.skip => files[f].state # "open"

SweepShape ==
  /\ now \in Nat
  /\ DOMAIN files = RT!Files /\ \A f \in RT!Files : Recorded(f)
  /\ {"at", "listing", "skip", "gone", "total", "avail", "time"} \subseteq DOMAIN sweep
  /\ sweep.at \in {"rest", "age", "size", "free", "end"}
  /\ sweep.total \in Int /\ sweep.avail \in Int /\ sweep.time \in Nat
  /\ sweep.gone \subseteq DOMAIN sweep.listing
  /\ \A f \in DOMAIN sweep.listing : Listed(f)

OldestFirst ==
  \A f \in sweep.gone, g \in RT!Left(sweep) :
    sweep.listing[f].written <= sweep.listing[g].written

\* What each pass leaves to the next.
PassesDone ==
  /\ sweep.at \in {"size", "free", "end"} /\ MaxAge > 0 =>
       \A f \in RT!Left(sweep) : sweep.listing[f].written >= sweep.time - MaxAge
  /\ sweep.at \in {"free", "end"} /\ MaxTotal > 0 => RT!Left(sweep) = {} \/ sweep.total <= MaxTotal
  /\ sweep.at = "end" /\ MinFree > 0 /\ sweep.avail > 0 =>
       RT!Left(sweep) = {} \/ sweep.avail >= MinFree

SweepInv == SweepShape /\ OldestFirst /\ PassesDone

LiveStays(f) == files[f].state = "open" => files'[f].state # "deleted"

LEMMA SweepFacts ==
  /\ {NFiles, Grace, MaxAge, MaxTotal, MinFree, Capacity, MaxTime, MaxEvents, MaxSize} \subseteq Nat
  /\ Grace > 0
BY RetentionAssumption DEF RT!RetentionAssumption

LEMMA SweepCounts ==
  ASSUME NEW S
  PROVE  RT!Cardinality(S) = Cardinality(S)
BY Zenon DEF RT!Cardinality, Cardinality

LEMMA SizesAreNumbers ==
  ASSUME NEW F, F \subseteq RT!Files
  PROVE  RT!SizeOf(F) \in Nat
<1>1. IsFiniteSet(RT!Files) /\ IsFiniteSet(1 .. MaxSize)
  BY SweepFacts, FS_Interval DEF RT!Files
<1>2. IsFiniteSet(F)
  BY <1>1, FS_Subset
<1>3. IsFiniteSet(F \X (1 .. MaxSize))
  BY <1>1, <1>2, FS_Product
<1>4. PICK P : P = {p \in F \X (1 .. MaxSize) : p[2] <= files[p[1]].size}
  OBVIOUS
<1>5. P \subseteq F \X (1 .. MaxSize)
  BY <1>4
<1>6. IsFiniteSet(P)
  BY <1>3, <1>5, FS_Subset
<1>7. Cardinality(P) \in Nat
  BY <1>6, FS_CardinalityType
<1> QED
  BY <1>4, <1>7, SweepCounts DEF RT!SizeOf

LEMMA SweepStarts == Init => SweepInv
<1> SUFFICES ASSUME Init PROVE SweepInv
  OBVIOUS
<1>1. /\ now = Grace /\ sweep = RT!Resting
      /\ files = [f \in RT!Files |-> [state |-> "none", start |-> 0, written |-> 0, size |-> 0]]
  BY DEF Init, RT!Init
<1>2. DOMAIN sweep.listing = {} /\ sweep.gone = {} /\ sweep.at = "rest"
  BY <1>1 DEF RT!Resting, RT!NoListing
<1>3. \A f \in RT!Files : Recorded(f)
  BY <1>1 DEF Recorded
<1>4. SweepShape
  BY <1>1, <1>2, <1>3, SweepFacts DEF SweepShape, RT!Resting
<1>5. OldestFirst /\ PassesDone
  BY <1>2 DEF OldestFirst, PassesDone
<1> QED
  BY <1>4, <1>5 DEF SweepInv

\* The sweep does not move: what the recorders do to its listing.
LEMMA SweepAside ==
  ASSUME SweepInv, sweep' = sweep, SweepShape'
  PROVE  SweepInv'
BY DEF SweepInv, OldestFirst, PassesDone, RT!Left

LEMMA RecorderSteps ==
  ASSUME SweepInv, NEW f \in RT!Files, RT!OpenFile(f) \/ RT!Write(f) \/ RT!CloseFile(f)
  PROVE  SweepInv' /\ \A g \in RT!Files : LiveStays(g)
<1>1. sweep' = sweep /\ now' = now /\ now \in Nat /\ Recorded(f) /\ DOMAIN files = RT!Files
  BY DEF RT!OpenFile, RT!Write, RT!CloseFile, SweepInv, SweepShape
<1>2. /\ DOMAIN files' = RT!Files /\ \A g \in RT!Files \ {f} : files'[g] = files[g]
      /\ {"state", "start", "written", "size"} \subseteq DOMAIN files'[f]
      /\ files'[f].size \in Nat /\ files'[f].written = now
      /\ \/ files[f].state = "none" /\ files'[f].state = "open"
         \/ files[f].state = "open" /\ files'[f].state \in {"open", "closed"}
  <2>1. CASE RT!OpenFile(f)
    BY <1>1, <2>1 DEF RT!OpenFile, Recorded
  <2>2. CASE RT!Write(f)
    BY <1>1, <2>2 DEF RT!Write, Recorded
  <2>3. CASE RT!CloseFile(f)
    BY <1>1, <2>3 DEF RT!CloseFile, Recorded
  <2> QED
    BY <2>1, <2>2, <2>3
<1>3. \A g \in RT!Files : Recorded(g)'
  BY <1>1, <1>2, SweepFacts DEF SweepInv, SweepShape, Recorded
<1>4. \A g \in DOMAIN sweep.listing : Listed(g)'
  BY <1>1, <1>2 DEF SweepInv, SweepShape, Listed
<1>5. SweepShape'
  BY <1>1, <1>2, <1>3, <1>4 DEF SweepInv, SweepShape
<1>6. \A g \in RT!Files : LiveStays(g)
  BY <1>2 DEF LiveStays
<1> QED
  BY <1>1, <1>5, <1>6, SweepAside

LEMMA OthersStep ==
  ASSUME SweepInv,
         RT!Tick \/ \E f \in RT!Files : RT!Hold(f) \/ RT!Release(f) \/ RT!Event(f)
  PROVE  SweepInv' /\ \A g \in RT!Files : LiveStays(g)
<1>1. sweep' = sweep /\ files' = files
  BY DEF RT!Tick, RT!Hold, RT!Release, RT!Event
<1>2. now' \in Nat /\ \A f \in RT!Files : Recorded(f)'
  <2>1. CASE RT!Tick
    BY <1>1, <2>1 DEF RT!Tick, SweepInv, SweepShape, Recorded
  <2>2. CASE now' = now
    BY <1>1, <2>2 DEF SweepInv, SweepShape, Recorded
  <2> QED
    BY <2>1, <2>2 DEF RT!Hold, RT!Release, RT!Event
<1>3. SweepShape'
  BY <1>1, <1>2 DEF SweepInv, SweepShape, Listed
<1>4. \A g \in RT!Files : LiveStays(g)
  BY <1>1 DEF LiveStays
<1> QED
  BY <1>1, <1>3, <1>4, SweepAside

\* What was written in the last Grace is left alone: all that is open.
LEMMA SweepLists ==
  ASSUME SweepInv, RT!List
  PROVE  SweepInv' /\ \A g \in RT!Files : LiveStays(g)
<1>1. PICK listing :
        /\ listing = [f \in RT!OnDisk |-> [size |-> files[f].size, written |-> files[f].written]]
        /\ sweep' = [at |-> "age", listing |-> listing, skip |-> RT!Fresh(listing), gone |-> {},
                     total |-> RT!SizeOf(RT!OnDisk), avail |-> RT!FreeSpace, time |-> now]
        /\ files' = files /\ now' = now
  BY DEF RT!List
<1>2. RT!OnDisk \subseteq RT!Files /\ \A f \in RT!OnDisk : files[f].state \in {"open", "closed"}
  BY DEF RT!OnDisk
<1>3. RT!SizeOf(RT!OnDisk) \in Nat
  BY <1>2, SizesAreNumbers
<1>4. RT!FreeSpace \in Int
  BY <1>3, SweepFacts DEF RT!FreeSpace
<1>5. /\ sweep'.at = "age" /\ sweep'.listing = listing /\ sweep'.skip = RT!Fresh(listing)
      /\ sweep'.gone = {} /\ sweep'.total \in Int /\ sweep'.avail \in Int /\ sweep'.time = now
      /\ {"at", "listing", "skip", "gone", "total", "avail", "time"} \subseteq DOMAIN sweep'
  BY <1>1, <1>3, <1>4
<1>6. ASSUME NEW f \in DOMAIN listing PROVE Listed(f)'
  <2>1. f \in RT!Files /\ Recorded(f) /\ now \in Nat /\ files[f].state \in {"open", "closed"}
    BY <1>1, <1>2, <1>6 DEF SweepInv, SweepShape
  <2>2. listing[f].written = files[f].written /\ listing[f].size = files[f].size
    BY <1>1, <1>6
  <2>3. files[f].state = "open" => f \in RT!Fresh(listing)
    BY <1>6, <2>1, <2>2, SweepFacts DEF Recorded, RT!Fresh
  <2> QED
    BY <1>1, <1>5, <2>1, <2>2, <2>3 DEF Recorded, Listed
<1>7. SweepShape'
  BY <1>1, <1>5, <1>6 DEF SweepInv, SweepShape, Recorded
<1>8. OldestFirst' /\ PassesDone'
  BY <1>5 DEF OldestFirst, PassesDone
<1>9. \A g \in RT!Files : LiveStays(g)
  BY <1>1 DEF LiveStays
<1> QED
  BY <1>7, <1>8, <1>9 DEF SweepInv


\* One deletion: of the oldest that are to go, and of none that is open.
LEMMA SweepDrops ==
  ASSUME SweepInv, NEW f \in RT!Files, RT!Drop(f)
  PROVE  SweepInv' /\ \A g \in RT!Files : LiveStays(g)
<1>1. /\ f \in RT!ToDelete(sweep)
      /\ \A g \in RT!ToDelete(sweep) : sweep.listing[f].written <= sweep.listing[g].written
      /\ now' = now
  BY DEF RT!Drop, RT!Oldest
<1>2. /\ \/ sweep.at = "age" /\ MaxAge > 0 /\ sweep.listing[f].written < sweep.time - MaxAge
            /\ RT!ToDelete(sweep) =
                 {g \in RT!Left(sweep) : MaxAge > 0 /\ sweep.listing[g].written < sweep.time - MaxAge}
         \/ sweep.at = "size" /\ MaxTotal > 0 /\ sweep.total > MaxTotal
            /\ RT!ToDelete(sweep) = RT!Left(sweep)
         \/ sweep.at = "free" /\ RT!ToDelete(sweep) = RT!Left(sweep)
      /\ f \in RT!Left(sweep)
  <2>1. sweep.at \in {"rest", "age", "size", "free", "end"}
    BY DEF SweepInv, SweepShape
  <2>2. CASE sweep.at = "age"
    BY <1>1, <2>2 DEF RT!ToDelete
  <2>3. CASE sweep.at = "size"
    BY <1>1, <2>3 DEF RT!ToDelete
  <2>4. CASE sweep.at = "free"
    BY <1>1, <2>4 DEF RT!ToDelete
  <2>5. CASE sweep.at \in {"rest", "end"}
    BY <1>1, <2>5 DEF RT!ToDelete
  <2> QED
    BY <2>1, <2>2, <2>3, <2>4, <2>5
<1>3. /\ f \in DOMAIN sweep.listing /\ f \notin sweep.skip /\ f \notin sweep.gone
      /\ Listed(f) /\ Recorded(f)
  BY <1>2 DEF RT!Left, SweepInv, SweepShape, Listed
<1>4. /\ sweep.at \in {"age", "size", "free"} /\ sweep.total \in Int /\ sweep.avail \in Int
      /\ sweep.time \in Nat /\ {MaxAge, MaxTotal, MinFree} \subseteq Nat
      /\ sweep.listing[f].size \in Nat /\ sweep.listing[f].written \in Nat
  BY <1>2, <1>3, SweepFacts DEF SweepInv, SweepShape, Listed
<1>5. ASSUME NEW g \in RT!Left(sweep)
      PROVE  sweep.listing[f].written <= sweep.listing[g].written
  <2>1. sweep.listing[g].written \in Nat
    BY <1>5 DEF RT!Left, SweepInv, SweepShape, Listed
  <2>2. CASE g \in RT!ToDelete(sweep)
    BY <1>1, <2>2
  <2>3. CASE g \notin RT!ToDelete(sweep)
    BY <1>2, <1>4, <1>5, <2>1, <2>3
  <2> QED
    BY <2>2, <2>3
<1>6. CASE f \in held
  <2>1. /\ sweep'.skip = sweep.skip \union {f} /\ sweep'.at = sweep.at
        /\ sweep'.listing = sweep.listing /\ sweep'.gone = sweep.gone /\ sweep'.total = sweep.total
        /\ sweep'.avail = sweep.avail /\ sweep'.time = sweep.time
        /\ {"at", "listing", "skip", "gone", "total", "avail", "time"} \subseteq DOMAIN sweep'
        /\ files' = files
    BY <1>6 DEF RT!Drop, SweepInv, SweepShape
  <2>2. RT!Left(sweep') \subseteq RT!Left(sweep)
    BY <2>1 DEF RT!Left
  <2>3. SweepShape'
    BY <1>1, <2>1 DEF SweepInv, SweepShape, Listed, Recorded
  <2>4. OldestFirst'
    BY <2>1, <2>2 DEF SweepInv, OldestFirst
  <2>5. PassesDone'
    BY <2>1, <2>2 DEF SweepInv, PassesDone
  <2> QED
    BY <2>1, <2>3, <2>4, <2>5 DEF SweepInv, LiveStays
<1>7. CASE f \notin held
  <2>1. /\ sweep'.skip = sweep.skip /\ sweep'.at = sweep.at
        /\ sweep'.listing = sweep.listing /\ sweep'.gone = sweep.gone \union {f}
        /\ sweep'.total = sweep.total - sweep.listing[f].size
        /\ sweep'.avail = sweep.avail + sweep.listing[f].size /\ sweep'.time = sweep.time
        /\ {"at", "listing", "skip", "gone", "total", "avail", "time"} \subseteq DOMAIN sweep'
    BY <1>7 DEF RT!Drop, SweepInv, SweepShape
  <2>2. /\ DOMAIN files' = RT!Files /\ \A g \in RT!Files \ {f} : files'[g] = files[g]
        /\ {"state", "start", "written", "size"} \subseteq DOMAIN files'[f]
        /\ files'[f].state = "deleted" /\ files'[f].written = files[f].written
        /\ files'[f].size = files[f].size
    BY <1>3, <1>7 DEF RT!Drop, SweepInv, SweepShape, Recorded
  <2>3. RT!Left(sweep') \subseteq RT!Left(sweep)
    BY <2>1 DEF RT!Left
  <2>4. \A g \in RT!Files : Recorded(g)'
    BY <1>1, <1>3, <2>2 DEF SweepInv, SweepShape, Recorded
  <2>5. \A g \in DOMAIN sweep.listing : Listed(g)'
    BY <2>1, <2>2 DEF SweepInv, SweepShape, Listed
  <2>6. SweepShape'
    BY <1>1, <1>3, <1>4, <2>1, <2>2, <2>4, <2>5 DEF SweepInv, SweepShape
  <2>7. OldestFirst'
    BY <1>5, <2>1, <2>3 DEF SweepInv, OldestFirst
  <2>8. PassesDone'
    <3>1. \A g \in RT!Left(sweep) : sweep'.listing[g] = sweep.listing[g]
      BY <2>1
    <3>2. sweep'.total <= sweep.total
      BY <1>4, <2>1
    <3>3. ASSUME sweep.at \in {"size", "free"}, MaxAge > 0, NEW g \in RT!Left(sweep')
          PROVE  sweep'.listing[g].written >= sweep'.time - MaxAge
      BY <2>1, <2>3, <3>3 DEF SweepInv, PassesDone
    <3>4. ASSUME sweep.at = "free", MaxTotal > 0
          PROVE  RT!Left(sweep') = {} \/ sweep'.total <= MaxTotal
      <4>1. sweep.total <= MaxTotal
        BY <1>2, <3>4 DEF SweepInv, PassesDone
      <4> QED
        BY <1>4, <2>1, <3>2, <4>1
    <3> QED
      BY <1>4, <2>1, <3>3, <3>4 DEF PassesDone
  <2>9. \A g \in RT!Files : LiveStays(g)
    BY <1>3, <2>2 DEF LiveStays, Listed
  <2> QED
    BY <2>6, <2>7, <2>8, <2>9 DEF SweepInv
<1> QED
  BY <1>6, <1>7

LEMMA SweepGoesOn ==
  ASSUME SweepInv, RT!NextPass
  PROVE  SweepInv' /\ \A g \in RT!Files : LiveStays(g)
<1>1. /\ sweep.at \in {"age", "size", "free"} /\ RT!ToDelete(sweep) = {}
      /\ now' = now /\ files' = files
  BY DEF RT!NextPass
<1>2. /\ sweep'.skip = sweep.skip /\ sweep'.listing = sweep.listing /\ sweep'.gone = sweep.gone
      /\ sweep'.total = sweep.total /\ sweep'.avail = sweep.avail /\ sweep'.time = sweep.time
      /\ {"at", "listing", "skip", "gone", "total", "avail", "time"} \subseteq DOMAIN sweep'
      /\ \/ sweep.at = "age" /\ sweep'.at = "size"
         \/ sweep.at = "size" /\ sweep'.at = "free"
         \/ sweep.at = "free" /\ sweep'.at = "end"
  BY <1>1 DEF RT!NextPass, SweepInv, SweepShape
<1>3. RT!Left(sweep') = RT!Left(sweep)
  BY <1>2 DEF RT!Left
<1>4. SweepShape'
  BY <1>1, <1>2 DEF SweepInv, SweepShape, Listed, Recorded
<1>5. OldestFirst'
  BY <1>2, <1>3 DEF SweepInv, OldestFirst
<1>6. /\ sweep.total \in Int /\ sweep.avail \in Int /\ sweep.time \in Nat
      /\ {MaxAge, MaxTotal, MinFree} \subseteq Nat
      /\ \A g \in RT!Left(sweep) : sweep.listing[g].written \in Nat
  BY SweepFacts DEF SweepInv, SweepShape, Listed, RT!Left
<1>7. PassesDone'
  <2>1. CASE sweep.at = "age"
    <3>1. ASSUME NEW g \in RT!Left(sweep), MaxAge > 0
          PROVE  sweep.listing[g].written >= sweep.time - MaxAge
      <4>1. ~(sweep.listing[g].written < sweep.time - MaxAge)
        BY <1>1, <2>1, <3>1 DEF RT!ToDelete
      <4> QED
        BY <1>6, <3>1, <4>1
    <3> QED
      BY <1>2, <1>3, <2>1, <3>1 DEF PassesDone
  <2>2. CASE sweep.at = "size"
    <3>1. RT!Left(sweep) = {} \/ ~(MaxTotal > 0 /\ sweep.total > MaxTotal)
      BY <1>1, <2>2 DEF RT!ToDelete
    <3>2. MaxTotal > 0 => RT!Left(sweep) = {} \/ sweep.total <= MaxTotal
      BY <1>6, <3>1
    <3> QED
      BY <1>2, <1>3, <2>2, <3>2 DEF SweepInv, PassesDone
  <2>3. CASE sweep.at = "free"
    <3>1. RT!Left(sweep) = {} \/ ~(MinFree > 0 /\ sweep.avail > 0 /\ sweep.avail < MinFree)
      BY <1>1, <2>3 DEF RT!ToDelete
    <3>2. MinFree > 0 /\ sweep.avail > 0 => RT!Left(sweep) = {} \/ sweep.avail >= MinFree
      BY <1>6, <3>1
    <3> QED
      BY <1>2, <1>3, <2>3, <3>2 DEF SweepInv, PassesDone
  <2> QED
    BY <1>1, <2>1, <2>2, <2>3
<1> QED
  BY <1>1, <1>4, <1>5, <1>7 DEF SweepInv, LiveStays

LEMMA SweepPrunes ==
  ASSUME SweepInv, RT!Prune
  PROVE  SweepInv' /\ \A g \in RT!Files : LiveStays(g)
<1>1. sweep' = RT!Resting /\ now' = now /\ files' = files
  BY DEF RT!Prune
<1>2. /\ DOMAIN sweep'.listing = {} /\ sweep'.gone = {} /\ sweep'.at = "rest"
      /\ sweep'.total = 0 /\ sweep'.avail = 0 /\ sweep'.time = 0
      /\ {"at", "listing", "skip", "gone", "total", "avail", "time"} \subseteq DOMAIN sweep'
  BY <1>1 DEF RT!Resting, RT!NoListing
<1>3. SweepShape'
  BY <1>1, <1>2 DEF SweepInv, SweepShape, Recorded
<1>4. OldestFirst' /\ PassesDone'
  BY <1>2 DEF OldestFirst, PassesDone
<1> QED
  BY <1>1, <1>3, <1>4 DEF SweepInv, LiveStays

LEMMA SweepSteps ==
  ASSUME SweepInv, RT!Next
  PROVE  SweepInv' /\ \A g \in RT!Files : LiveStays(g)
<1>1. ASSUME NEW f \in RT!Files, RT!OpenFile(f) \/ RT!Write(f) \/ RT!CloseFile(f)
      PROVE  SweepInv' /\ \A g \in RT!Files : LiveStays(g)
  BY <1>1, RecorderSteps
<1>2. ASSUME RT!Tick \/ \E f \in RT!Files : RT!Hold(f) \/ RT!Release(f) \/ RT!Event(f)
      PROVE  SweepInv' /\ \A g \in RT!Files : LiveStays(g)
  BY <1>2, OthersStep
<1>3. ASSUME NEW f \in RT!Files, RT!Drop(f)
      PROVE  SweepInv' /\ \A g \in RT!Files : LiveStays(g)
  BY <1>3, SweepDrops
<1> QED
  BY <1>1, <1>2, <1>3, SweepLists, SweepGoesOn, SweepPrunes DEF RT!Next, RT!Sweeper

\* Whatever the limits, however the recorders write while a sweep deletes by a
\* listing that gets old, and whatever a player holds: no file a recorder has
\* open is deleted, none is deleted while an older one might be, and the sweep
\* ends within every limit or with nothing left that it may delete.
THEOREM OldestGoLiveStay == Spec => RetentionSafe
<1>1. Init => SweepInv
  BY SweepStarts
<1>2. SweepInv /\ [Next]_vars => SweepInv' /\ [\A g \in RT!Files : LiveStays(g)]_sweepVars
  <2> SUFFICES ASSUME SweepInv, [Next]_vars
               PROVE  SweepInv' /\ [\A g \in RT!Files : LiveStays(g)]_sweepVars
    OBVIOUS
  <2>1. CASE RTStep
    BY <2>1, SweepSteps DEF RTStep
  <2>2. CASE sweepVars' = sweepVars
    BY <2>2 DEF sweepVars, SweepInv, SweepShape, OldestFirst, PassesDone, Listed, Recorded, RT!Left
  <2> QED
    BY <2>1, <2>2 DEF Next, vars, ICStep, MAStep, THStep, TLStep, SEStep, LGStep, ANStep
<1>3. [\A g \in RT!Files : LiveStays(g)]_sweepVars
      => [\A f \in RT!Files : files[f].state = "open" => files'[f].state # "deleted"]_RT!vars
  BY DEF LiveStays, sweepVars, RT!vars
<1>4. SweepInv => RT!SweepsEnough
  BY SweepFacts DEF SweepInv, OldestFirst, PassesDone, RT!SweepsEnough
<1>5. Spec => RT!KeepsTheLive
  BY <1>1, <1>2, <1>3, PTL DEF Spec, RT!KeepsTheLive
<1>6. Spec => []RT!SweepsEnough
  BY <1>1, <1>2, <1>4, PTL DEF Spec
<1> QED
  BY <1>5, <1>6 DEF RetentionSafe

-----------------------------------------------------------------------------
(* IndexCache: what is remembered is what the recording is *)

\* A summary of a file as it is, or as it was before its sidecar had the last block.
Good(info, d) == info \in {IC!Info(d), IC!Info([d EXCEPT !.noted = FALSE])}

\* What was read under a stamp tells the file that still has that stamp.
Fits(info, stamp, f) ==
  /\ stamp \in Nat /\ stamp <= disk[f].size
  /\ stamp = disk[f].size => Good(info, disk[f])

Indexed(ix, f) ==
  /\ {"blocks", "upTo", "size", "used"} \subseteq DOMAIN ix
  /\ ix.blocks \in Int /\ ix.upTo = ix.blocks /\ ix.size \in Nat /\ ix.used \in Nat
  /\ ix.size <= disk[f].size /\ ix.used <= tick
  /\ ix.blocks > 0 /\ ix.size = disk[f].size => ix.blocks = IC!Blocks(disk[f])

Known(f) ==
  cached[f] # Nil =>
    /\ {"info", "stamp", "index"} \subseteq DOMAIN cached[f]
    /\ Fits(cached[f].info, cached[f].stamp, f) /\ Indexed(cached[f].index, f)

Row(row, f) == Fits(row.info, row.stamp, f) /\ row.info.closed

\* What a request holds at each place of its way.
Handed(r) ==
  /\ {"at", "camera", "todo", "file", "stamp", "info", "blocks", "upTo"} \subseteq DOMAIN r
  /\ r.at \in {"read", "store", "size", "index", "keep"} => r.file \in RecordedFiles
  /\ r.at \in {"read", "store", "index", "keep"} => r.stamp \in Nat /\ r.stamp <= disk[r.file].size
  /\ r.at = "store" /\ r.stamp = disk[r.file].size => Good(r.info, disk[r.file])
  /\ r.at \in {"index", "keep"} => r.blocks \in Int /\ r.upTo = r.blocks
  /\ r.at = "keep" /\ r.stamp = disk[r.file].size => r.blocks = IC!Blocks(disk[r.file])

Holding(f) == cached[f] # Nil /\ cached[f].index.blocks > 0

DiskShape ==
  DOMAIN disk = RecordedFiles /\
  \A f \in RecordedFiles : {"size", "noted", "closed", "on"} \subseteq DOMAIN disk[f] /\ disk[f].size \in Nat

KnownInv == DOMAIN cached = RecordedFiles /\ tick \in Nat /\ \A f \in RecordedFiles : Known(f)

TableInv ==
  /\ DOMAIN indexRows = RecordedFiles
  /\ \A f \in RecordedFiles : indexRows[f] # Nil => Row(indexRows[f], f)
  /\ \E S : posted \in Seq(S)
  /\ \A i \in 1 .. Len(posted) : \A f \in DOMAIN posted[i] : f \in RecordedFiles /\ Row(posted[i][f], f)

RequestInv == DOMAIN request = Threads /\ \A t \in Threads : Handed(request[t])

\* Few indexes, and no two used at the same time.
IndexInv ==
  /\ Cardinality({f \in RecordedFiles : Holding(f)}) <= MaxIndexes
  /\ \A f, g \in RecordedFiles :
       Holding(f) /\ Holding(g) /\ cached[f].index.used = cached[g].index.used => f = g

CacheInv == DiskShape /\ KnownInv /\ TableInv /\ RequestInv /\ IndexInv

LEMMA CacheCounts ==
  ASSUME NEW S
  PROVE  IC!Cardinality(S) = Cardinality(S)
BY Zenon DEF IC!Cardinality, Cardinality

LEMMA CacheFinite ==
  ASSUME NEW S, S \subseteq RecordedFiles
  PROVE  IsFiniteSet(S) /\ Cardinality(S) \in Nat
<1>1. IC!IsFiniteSet(RecordedFiles)
  BY IndexCacheAssumption DEF IC!IndexCacheAssumption
<1>2. IsFiniteSet(RecordedFiles)
  BY <1>1, Zenon DEF IC!IsFiniteSet, IsFiniteSet
<1> QED
  BY <1>2, FS_Subset, FS_CardinalityType

LEMMA InfoOf ==
  ASSUME NEW d, NEW e, e.size = d.size, e.closed = d.closed, e.noted <=> d.noted
  PROVE  IC!Info(e) = IC!Info(d)
BY DEF IC!Info, IC!Summary, IC!Blocks

\* A file grows, or is the same to whoever reads it, but for its sidecar.
LEMMA DiskMoves ==
  ASSUME DiskShape, NEW f \in RecordedFiles, IC!Write(f) \/ IC!Note(f) \/ IC!Close(f) \/ IC!Delete(f)
  PROVE  /\ DiskShape'
         /\ \A g \in RecordedFiles :
              /\ disk'[g].size >= disk[g].size
              /\ disk'[g].size = disk[g].size =>
                   /\ IC!Blocks(disk'[g]) = IC!Blocks(disk[g])
                   /\ \A info : Good(info, disk[g]) => Good(info, disk'[g])
<1>1. {"size", "noted", "closed", "on"} \subseteq DOMAIN disk[f] /\ disk[f].size \in Nat
  BY DEF DiskShape
<1>2. /\ DOMAIN disk' = RecordedFiles /\ \A g \in RecordedFiles \ {f} : disk'[g] = disk[g]
      /\ {"size", "noted", "closed", "on"} \subseteq DOMAIN disk'[f]
      /\ \/ disk'[f].size = disk[f].size + 1
         \/ /\ disk'[f].size = disk[f].size /\ disk'[f].closed = disk[f].closed
            /\ (disk'[f].noted <=> disk[f].noted) \/ ~disk[f].noted
  <2>1. CASE IC!Write(f)
    BY <1>1, <2>1 DEF IC!Write, DiskShape
  <2>2. CASE IC!Note(f)
    BY <1>1, <2>2 DEF IC!Note, DiskShape
  <2>3. CASE IC!Close(f)
    BY <1>1, <2>3 DEF IC!Close, DiskShape
  <2>4. CASE IC!Delete(f)
    BY <1>1, <2>4 DEF IC!Delete, DiskShape
  <2> QED
    BY <2>1, <2>2, <2>3, <2>4
<1>3. disk'[f].size \in Nat /\ disk'[f].size >= disk[f].size
  BY <1>1, <1>2
<1>4. ASSUME disk'[f].size = disk[f].size
      PROVE  /\ IC!Blocks(disk'[f]) = IC!Blocks(disk[f])
             /\ \A info : Good(info, disk[f]) => Good(info, disk'[f])
  <2>1. /\ disk'[f].closed = disk[f].closed
        /\ (disk'[f].noted <=> disk[f].noted) \/ ~disk[f].noted
    BY <1>1, <1>2, <1>4
  <2>2. PICK d, e : d = [disk[f] EXCEPT !.noted = FALSE] /\ e = [disk'[f] EXCEPT !.noted = FALSE]
    OBVIOUS
  <2>3. /\ d.size = disk[f].size /\ d.closed = disk[f].closed /\ ~d.noted
        /\ e.size = disk'[f].size /\ e.closed = disk'[f].closed /\ ~e.noted
    BY <1>1, <1>2, <2>2
  <2>4. IC!Info(e) = IC!Info(d)
    BY <1>4, <2>1, <2>3, InfoOf
  <2>5. IC!Info(disk[f]) \in {IC!Info(disk'[f]), IC!Info(e)}
    <3>1. CASE disk'[f].noted <=> disk[f].noted
      BY <1>4, <2>1, <3>1, InfoOf
    <3>2. CASE ~disk[f].noted
      <4>1. IC!Info(e) = IC!Info(disk[f])
        BY <1>4, <2>1, <2>3, <3>2, InfoOf
      <4> QED
        BY <4>1
    <3> QED
      BY <2>1, <3>1, <3>2
  <2>6. IC!Blocks(disk'[f]) = IC!Blocks(disk[f])
    BY <1>4, <2>1 DEF IC!Blocks
  <2> QED
    BY <2>2, <2>4, <2>5, <2>6 DEF Good
<1> QED
  BY <1>2, <1>3, <1>4 DEF DiskShape

LEMMA CacheDisk ==
  ASSUME CacheInv, NEW f \in RecordedFiles, IC!Write(f) \/ IC!Note(f) \/ IC!Close(f) \/ IC!Delete(f)
  PROVE  CacheInv'
<1>1. /\ cached' = cached /\ tick' = tick /\ indexRows' = indexRows /\ posted' = posted
      /\ request' = request
  BY DEF IC!Write, IC!Note, IC!Close, IC!Delete, IC!Cache, IC!Table
<1>2. /\ DiskShape' /\ DiskShape
      /\ \A g \in RecordedFiles :
           /\ disk'[g].size >= disk[g].size
           /\ disk'[g].size = disk[g].size =>
                /\ IC!Blocks(disk'[g]) = IC!Blocks(disk[g])
                /\ \A info : Good(info, disk[g]) => Good(info, disk'[g])
  BY DiskMoves DEF CacheInv
<1>3. \A g \in RecordedFiles : disk[g].size \in Nat /\ disk'[g].size \in Nat
  BY <1>2 DEF DiskShape
<1>4. ASSUME NEW info, NEW stamp, NEW g \in RecordedFiles, Fits(info, stamp, g)
      PROVE  Fits(info, stamp, g)'
  BY <1>2, <1>3, <1>4 DEF Fits
<1>5. ASSUME NEW g \in RecordedFiles, NEW ix, Indexed(ix, g)
      PROVE  Indexed(ix, g)'
  BY <1>1, <1>2, <1>3, <1>5 DEF Indexed
<1>6. KnownInv'
  BY <1>1, <1>4, <1>5 DEF CacheInv, KnownInv, Known
<1>7. TableInv'
  BY <1>1, <1>4 DEF CacheInv, TableInv, Row
<1>8. RequestInv'
  BY <1>1, <1>2, <1>3 DEF CacheInv, RequestInv, Handed
<1>9. IndexInv'
  BY <1>1 DEF CacheInv, IndexInv, Holding
<1> QED
  BY <1>2, <1>6, <1>7, <1>8, <1>9 DEF CacheInv


LEMMA CacheStarts ==
  ASSUME DiskShape, DOMAIN indexRows = RecordedFiles,
         \A f \in RecordedFiles : indexRows[f] # Nil => Row(indexRows[f], f),
         cached = [f \in RecordedFiles |-> Nil], tick = 0, posted = <<>>,
         request = [t \in Threads |-> IC!Idle]
  PROVE  CacheInv
<1>1. DOMAIN cached = RecordedFiles /\ \A f \in RecordedFiles : cached[f] = Nil
  OBVIOUS
<1>2. KnownInv
  BY <1>1 DEF KnownInv, Known
<1>3. TableInv
  <2>1. posted \in Seq({}) /\ Len(posted) = 0
    OBVIOUS
  <2> QED
    BY <2>1 DEF TableInv
<1>4. RequestInv
  BY DEF RequestInv, Handed, IC!Idle
<1>5. IndexInv
  <2>1. {f \in RecordedFiles : Holding(f)} = {}
    BY <1>1 DEF Holding
  <2>2. MaxIndexes \in Nat
    BY IndexCacheAssumption DEF IC!IndexCacheAssumption
  <2> QED
    BY SMTT(30), <1>1, <2>1, <2>2, FS_EmptySet DEF IndexInv, Holding
<1> QED
  BY <1>2, <1>3, <1>4, <1>5 DEF CacheInv

LEMMA CacheBegins == Init => CacheInv
<1> SUFFICES ASSUME Init PROVE CacheInv
  OBVIOUS
<1>1. /\ disk = [f \in RecordedFiles |-> [size |-> 0, noted |-> TRUE, closed |-> FALSE, on |-> FALSE]]
      /\ cached = [f \in RecordedFiles |-> Nil] /\ tick = 0 /\ posted = <<>>
      /\ indexRows = [f \in RecordedFiles |-> Nil] /\ request = [t \in Threads |-> IC!Idle]
  BY DEF Init, IC!Init
<1>2. DiskShape
  <2>1. \A f \in RecordedFiles : disk[f] = [size |-> 0, noted |-> TRUE, closed |-> FALSE, on |-> FALSE]
    BY <1>1
  <2>2. \A f \in RecordedFiles : {"size", "noted", "closed", "on"} \subseteq DOMAIN disk[f]
    BY <2>1
  <2>3. \A f \in RecordedFiles : disk[f].size = 0
    BY <2>1
  <2> QED
    BY <1>1, <2>2, <2>3 DEF DiskShape
<1> QED
  BY <1>1, <1>2, CacheStarts

LEMMA CacheRestarts ==
  ASSUME CacheInv, IC!Restart
  PROVE  CacheInv'
<1>1. /\ disk' = disk /\ indexRows' = indexRows
      /\ cached' = [f \in RecordedFiles |-> Nil] /\ tick' = 0 /\ posted' = <<>>
      /\ request' = [t \in Threads |-> IC!Idle]
  BY DEF IC!Restart
<1>2. DiskShape'
  BY <1>1 DEF CacheInv, DiskShape
<1>3. DOMAIN cached' = RecordedFiles /\ \A f \in RecordedFiles : cached'[f] = Nil
  BY <1>1
<1>4. KnownInv'
  BY <1>1, <1>3 DEF KnownInv, Known
<1>5. TableInv'
  <2>1. posted' \in Seq({}) /\ Len(posted') = 0
    BY <1>1
  <2>2. (\E S : posted' \in Seq(S)) /\ \A i \in 1 .. Len(posted') : FALSE
    BY <2>1
  <2>3. DOMAIN indexRows = RecordedFiles /\ \A f \in RecordedFiles : indexRows[f] # Nil => Row(indexRows[f], f)
    BY DEF CacheInv, TableInv
  <2>4. ASSUME NEW f \in RecordedFiles, NEW row, Row(row, f)
        PROVE  Row(row, f)'
    BY <1>1, <2>4 DEF Row, Fits
  <2>5. DOMAIN indexRows' = RecordedFiles /\ \A f \in RecordedFiles : indexRows'[f] # Nil => Row(indexRows[f], f)'
    BY <1>1, <2>3, <2>4
  <2>6. \A f \in RecordedFiles : (indexRows[f] # Nil => Row(indexRows[f], f))'
    BY <1>1, <2>5
  <2> QED
    BY <2>2, <2>5, <2>6 DEF TableInv
<1>6. RequestInv'
  BY <1>1 DEF RequestInv, Handed, IC!Idle
<1>7. IndexInv'
  <2>1. \A f \in RecordedFiles : ~Holding(f)'
    BY <1>3 DEF Holding
  <2>2. {f \in RecordedFiles : Holding(f)'} = {}
    BY <2>1
  <2>3. MaxIndexes \in Nat
    BY IndexCacheAssumption DEF IC!IndexCacheAssumption
  <2>4. Cardinality({f \in RecordedFiles : Holding(f)'}) <= MaxIndexes
    BY <2>2, <2>3, FS_EmptySet
  <2> QED
    BY <2>1, <2>4 DEF IndexInv
<1> QED
  BY <1>2, <1>4, <1>5, <1>6, <1>7 DEF CacheInv

\* A request goes on, and nothing else but what is cached changes.
LEMMA CacheMoves ==
  ASSUME CacheInv, disk' = disk, indexRows' = indexRows, posted' = posted,
         KnownInv', IndexInv',
         NEW t \in Threads, NEW r, request' = [request EXCEPT ![t] = r], Handed(r)
  PROVE  CacheInv'
<1>1. DiskShape' /\ TableInv'
  BY DEF CacheInv, DiskShape, TableInv, Row, Fits
<1>2. Handed(r)'
  BY DEF Handed
<1>3. RequestInv'
  BY <1>2 DEF CacheInv, RequestInv, Handed
<1> QED
  BY <1>1, <1>3 DEF CacheInv

LEMMA CacheStays ==
  ASSUME CacheInv, disk' = disk, cached' = cached, tick' = tick
  PROVE  KnownInv' /\ IndexInv'
BY DEF CacheInv, KnownInv, Known, Fits, Indexed, IndexInv, Holding

\* No index is added, and those that stay were used when they were.
LEMMA IndexesStay ==
  ASSUME CacheInv,
         \A f \in RecordedFiles : Holding(f)' =>
           Holding(f) /\ cached'[f].index.used = cached[f].index.used
  PROVE  IndexInv'
<1>1. PICK holders, kept : holders = {f \in RecordedFiles : Holding(f)} /\ kept = {f \in RecordedFiles : Holding(f)'}
  OBVIOUS
<1>2. kept \subseteq holders /\ holders \subseteq RecordedFiles
  BY <1>1
<1>3. /\ IsFiniteSet(holders) /\ Cardinality(holders) \in Nat /\ Cardinality(kept) \in Nat
      /\ Cardinality(kept) <= Cardinality(holders)
  BY <1>2, CacheFinite, FS_Subset
<1>4. Cardinality(holders) <= MaxIndexes /\ MaxIndexes \in Nat
  BY <1>1, IndexCacheAssumption DEF CacheInv, IndexInv, IC!IndexCacheAssumption
<1>5. Cardinality(kept) <= MaxIndexes
  BY <1>3, <1>4
<1> QED
  BY <1>1, <1>5 DEF CacheInv, IndexInv

\* Listing, up to what it reads of a file.
LEMMA CacheLists ==
  ASSUME CacheInv, NEW t \in Threads,
         \/ \E f \in RecordedFiles : IC!ListFolder(t, CameraOf[f]) \/ IC!ListEntry(t, f)
         \/ IC!ReadInfo(t) \/ IC!ListEnd(t) \/ IC!ReadIndex(t)
  PROVE  CacheInv'
<1>1. /\ disk' = disk /\ cached' = cached /\ tick' = tick /\ indexRows' = indexRows /\ posted' = posted
  BY DEF IC!ListFolder, IC!ListEntry, IC!ReadInfo, IC!ListEnd, IC!ReadIndex, IC!Cache, IC!Table
<1>2. KnownInv' /\ IndexInv'
  BY <1>1, CacheStays
<1>3. DOMAIN request = Threads /\ Handed(request[t]) /\ DiskShape
  BY DEF CacheInv, RequestInv
<1>4. ASSUME NEW f \in RecordedFiles, IC!ListFolder(t, CameraOf[f])
      PROVE  \E r : request' = [request EXCEPT ![t] = r] /\ Handed(r)
  <2>1. PICK c : c = CameraOf[f]
    OBVIOUS
  <2>2. PICK r : /\ request' = [request EXCEPT ![t] = r]
                 /\ r = [request[t] EXCEPT
                      !.at = IF c \in loaded THEN "list" ELSE "load", !.camera = c,
                      !.todo = {g \in RecordedFiles : CameraOf[g] = c /\ disk[g].on}]
    BY <1>4, <2>1 DEF IC!ListFolder, IC!Becomes
  <2>3. Handed(r)
    BY <1>3, <2>2 DEF Handed
  <2> QED
    BY <2>2, <2>3
<1>5. ASSUME NEW f \in RecordedFiles, IC!ListEntry(t, f)
      PROVE  \E r : request' = [request EXCEPT ![t] = r] /\ Handed(r)
  <2>1. PICK r : /\ request' = [request EXCEPT ![t] = r] /\ request[t].at = "list"
                 /\ \/ r = [request[t] EXCEPT !.at = "read", !.todo = @ \ {f},
                              !.file = f, !.stamp = disk[f].size]
                    \/ r = [request[t] EXCEPT !.todo = @ \ {f}]
    BY <1>5 DEF IC!ListEntry, IC!Becomes, IC!At, IC!Stamp
  <2>2. disk[f].size \in Nat /\ disk[f].size <= disk[f].size
    BY <1>3 DEF DiskShape
  <2>3. /\ {"at", "camera", "todo", "file", "stamp", "info", "blocks", "upTo"} \subseteq DOMAIN r
        /\ \/ r.at = "list"
           \/ r.at = "read" /\ r.file = f /\ r.stamp = disk[f].size
    BY <1>3, <2>1 DEF Handed
  <2>4. Handed(r)
    BY <2>2, <2>3 DEF Handed
  <2> QED
    BY <2>1, <2>4
<1>6. ASSUME IC!ReadInfo(t)
      PROVE  \E r : request' = [request EXCEPT ![t] = r] /\ Handed(r)
  <2>1. PICK r : /\ request' = [request EXCEPT ![t] = r] /\ request[t].at = "read"
                 /\ \/ r = [request[t] EXCEPT !.at = "store", !.info = IC!Info(disk[request[t].file])]
                    \/ r = IC!Idle
                    \/ r = IC!Listing(request[t])
    BY <1>6 DEF IC!ReadInfo, IC!Becomes, IC!At
  <2>2. Good(IC!Info(disk[request[t].file]), disk[request[t].file])
    BY DEF Good
  <2>3. /\ {"at", "camera", "todo", "file", "stamp", "info", "blocks", "upTo"} \subseteq DOMAIN r
        /\ \/ r.at \in {"idle", "list"}
           \/ /\ r.at = "store" /\ r.file = request[t].file /\ r.stamp = request[t].stamp
              /\ r.info = IC!Info(disk[r.file])
    <3>1. CASE r = [request[t] EXCEPT !.at = "store", !.info = IC!Info(disk[request[t].file])]
      BY <1>3, <3>1 DEF Handed
    <3>2. CASE r = IC!Idle
      BY <3>2 DEF IC!Idle
    <3>3. CASE r = IC!Listing(request[t])
      BY <3>3 DEF IC!Listing, IC!Idle
    <3> QED
      BY <2>1, <3>1, <3>2, <3>3
  <2>4. /\ request[t].file \in RecordedFiles
        /\ request[t].stamp \in Nat /\ request[t].stamp <= disk[request[t].file].size
    BY <1>3, <2>1 DEF Handed
  <2>5. Handed(r)
    BY <2>2, <2>3, <2>4 DEF Handed
  <2> QED
    BY <2>1, <2>5
<1>7. ASSUME IC!ListEnd(t)
      PROVE  \E r : request' = [request EXCEPT ![t] = r] /\ Handed(r)
  <2>1. PICK r : /\ request' = [request EXCEPT ![t] = r]
                 /\ r = [request[t] EXCEPT !.at = "save"] \/ r = IC!Idle
    BY <1>7 DEF IC!ListEnd, IC!Becomes
  <2>2. Handed(r)
    BY <1>3, <2>1 DEF Handed, IC!Idle
  <2> QED
    BY <2>1, <2>2
<1>8. ASSUME IC!ReadIndex(t)
      PROVE  \E r : request' = [request EXCEPT ![t] = r] /\ Handed(r)
  <2>1. PICK d, n : /\ d = disk[request[t].file]
                    /\ n = request[t].blocks + (IC!Blocks(d) - request[t].upTo)
    OBVIOUS
  <2>2. PICK r : /\ request' = [request EXCEPT ![t] = r] /\ request[t].at = "index"
                 /\ \/ r = [request[t] EXCEPT !.at = "keep", !.blocks = n, !.upTo = IC!Blocks(d)]
                    \/ r = IC!Idle
    BY <1>8, <2>1 DEF IC!ReadIndex, IC!Extended, IC!Becomes, IC!At
  <2>3. d.size \in Nat
    BY <1>3, <2>1, <2>2 DEF Handed, DiskShape
  <2>4. IC!Blocks(d) \in Int
    BY <2>3 DEF IC!Blocks
  <2>5. n = IC!Blocks(d)
    BY <1>3, <2>1, <2>2, <2>4 DEF Handed
  <2>6. /\ {"at", "camera", "todo", "file", "stamp", "info", "blocks", "upTo"} \subseteq DOMAIN r
        /\ \/ r.at = "idle"
           \/ /\ r.at = "keep" /\ r.file = request[t].file /\ r.stamp = request[t].stamp
              /\ r.blocks = IC!Blocks(d) /\ r.upTo = IC!Blocks(d)
    <3>1. CASE r = [request[t] EXCEPT !.at = "keep", !.blocks = n, !.upTo = IC!Blocks(d)]
      BY <1>3, <2>5, <3>1 DEF Handed
    <3>2. CASE r = IC!Idle
      BY <3>2 DEF IC!Idle
    <3> QED
      BY <2>2, <3>1, <3>2
  <2>7. /\ request[t].file \in RecordedFiles
        /\ request[t].stamp \in Nat /\ request[t].stamp <= disk[request[t].file].size
    BY <1>3, <2>2 DEF Handed
  <2>8. Handed(r)
    BY <2>1, <2>4, <2>6, <2>7 DEF Handed
  <2> QED
    BY <2>2, <2>8
<1> QED
  BY <1>1, <1>2, <1>4, <1>5, <1>6, <1>7, <1>8, CacheMoves

\* No file is given an index.
LEMMA HeldStay ==
  ASSUME CacheInv, \A f \in RecordedFiles : Holding(f)' => Holding(f)
  PROVE  Cardinality({f \in RecordedFiles : Holding(f)'}) <= MaxIndexes
<1>1. PICK holders, kept : holders = {f \in RecordedFiles : Holding(f)} /\ kept = {f \in RecordedFiles : Holding(f)'}
  OBVIOUS
<1>2. kept \subseteq holders /\ holders \subseteq RecordedFiles
  BY <1>1
<1>3. /\ IsFiniteSet(holders) /\ Cardinality(holders) \in Nat /\ Cardinality(kept) \in Nat
      /\ Cardinality(kept) <= Cardinality(holders)
  BY <1>2, CacheFinite, FS_Subset
<1>4. Cardinality(holders) <= MaxIndexes /\ MaxIndexes \in Nat
  BY <1>1, IndexCacheAssumption DEF CacheInv, IndexInv, IC!IndexCacheAssumption
<1>5. Cardinality(kept) <= MaxIndexes
  BY <1>3, <1>4
<1> QED
  BY <1>1, <1>5

\* A summary is stored, and the index stays.
LEMMA StoredKnown ==
  ASSUME CacheInv, NEW f \in RecordedFiles, NEW info, NEW stamp, Fits(info, stamp, f),
         NEW c, c = IC!Stored(f, info, stamp)
  PROVE  /\ {"info", "stamp", "index"} \subseteq DOMAIN c
         /\ Fits(c.info, c.stamp, f) /\ Indexed(c.index, f)
         /\ c.index.blocks > 0 => Holding(f) /\ c.index.used = cached[f].index.used
<1>1. /\ c.info = info /\ c.stamp = stamp /\ {"info", "stamp", "index"} \subseteq DOMAIN c
      /\ c.index = IF cached[f] = Nil THEN IC!NoIndex ELSE cached[f].index
  BY DEF IC!Stored
<1>2. tick \in Nat /\ disk[f].size \in Nat /\ Known(f)
  BY DEF CacheInv, KnownInv, DiskShape
<1>3. Indexed(IC!NoIndex, f) /\ IC!NoIndex.blocks = 0
  BY <1>2 DEF Indexed, IC!NoIndex
<1>4. CASE cached[f] = Nil
  <2>1. c.index = IC!NoIndex
    BY <1>1, <1>4
  <2> QED
    BY <1>1, <1>3, <2>1
<1>5. CASE cached[f] # Nil
  BY <1>1, <1>2, <1>5 DEF Known, Holding
<1> QED
  BY <1>4, <1>5

LEMMA CacheKnows ==
  ASSUME CacheInv, disk' = disk, tick' = tick, indexRows' = indexRows, posted' = posted,
         DOMAIN cached' = RecordedFiles,
         \A f \in RecordedFiles :
           \/ cached'[f] \in {cached[f], Nil}
           \/ \E info, stamp : Fits(info, stamp, f) /\ cached'[f] = IC!Stored(f, info, stamp),
         NEW t \in Threads, NEW r, request' = [request EXCEPT ![t] = r], Handed(r)
  PROVE  CacheInv'
<1>1. PICK c : cached' = c
  OBVIOUS
<1>2. ASSUME NEW f \in RecordedFiles, c[f] # Nil
      PROVE  /\ {"info", "stamp", "index"} \subseteq DOMAIN c[f]
             /\ Fits(c[f].info, c[f].stamp, f) /\ Indexed(c[f].index, f)
             /\ c[f].index.blocks > 0 => Holding(f) /\ c[f].index.used = cached[f].index.used
  <2>1. CASE c[f] = cached[f]
    BY <1>2, <2>1 DEF CacheInv, KnownInv, Known, Holding
  <2>2. CASE \E info, stamp : Fits(info, stamp, f) /\ c[f] = IC!Stored(f, info, stamp)
    BY <2>2, StoredKnown
  <2> QED
    BY <1>1, <1>2, <2>1, <2>2
<1>3. KnownInv'
  <2>1. tick' \in Nat
    BY DEF CacheInv, KnownInv
  <2>2. ASSUME NEW f \in RecordedFiles
        PROVE  Known(f)'
    BY <1>1, <1>2 DEF Known, Fits, Indexed
  <2> QED
    BY <2>1, <2>2 DEF KnownInv
<1>4. \A f \in RecordedFiles : Holding(f)' => Holding(f) /\ cached'[f].index.used = cached[f].index.used
  BY <1>1, <1>2 DEF Holding
<1>5. IndexInv'
  BY <1>4, IndexesStay
<1> QED
  BY <1>3, <1>5, CacheMoves

LEMMA CacheReadsTable ==
  ASSUME CacheInv, NEW t \in Threads, IC!LoadDiskCache(t)
  PROVE  CacheInv'
<1>1. PICK r : r = IC!Listing(request[t])
  OBVIOUS
<1>2. /\ disk' = disk /\ tick' = tick /\ indexRows' = indexRows /\ posted' = posted
      /\ request' = [request EXCEPT ![t] = r]
      /\ cached' = [f \in RecordedFiles |->
           IF CameraOf[f] = request[t].camera /\ indexRows[f] # Nil
           THEN IC!Stored(f, indexRows[f].info, indexRows[f].stamp) ELSE cached[f]]
  BY <1>1 DEF IC!LoadDiskCache, IC!Becomes, IC!Table
<1>3. Handed(r)
  BY <1>1 DEF Handed, IC!Listing, IC!Idle
<1>4. ASSUME NEW f \in RecordedFiles
      PROVE  \/ cached'[f] \in {cached[f], Nil}
             \/ \E info, stamp : Fits(info, stamp, f) /\ cached'[f] = IC!Stored(f, info, stamp)
  <2>1. CASE CameraOf[f] = request[t].camera /\ indexRows[f] # Nil
    <3>1. Fits(indexRows[f].info, indexRows[f].stamp, f)
      BY <2>1 DEF CacheInv, TableInv, Row
    <3>2. cached'[f] = IC!Stored(f, indexRows[f].info, indexRows[f].stamp)
      BY <1>2, <2>1
    <3> QED
      BY <3>1, <3>2
  <2>2. CASE ~(CameraOf[f] = request[t].camera /\ indexRows[f] # Nil)
    BY <1>2, <2>2
  <2> QED
    BY <2>1, <2>2
<1>5. DOMAIN cached' = RecordedFiles
  BY <1>2
<1> QED
  BY <1>2, <1>3, <1>4, <1>5, CacheKnows

LEMMA CacheStores ==
  ASSUME CacheInv, NEW t \in Threads, IC!StoreInfo(t)
  PROVE  CacheInv'
<1>1. PICK q, r : /\ q = request[t]
                  /\ r = IF q.camera # Nil THEN IC!Listing(q) ELSE [IC!Idle EXCEPT !.at = "size", !.file = q.file]
  OBVIOUS
<1>2. /\ disk' = disk /\ tick' = tick /\ indexRows' = indexRows /\ posted' = posted
      /\ request' = [request EXCEPT ![t] = r] /\ q.at = "store"
      /\ cached' = [cached EXCEPT ![q.file] = IC!Stored(q.file, q.info, q.stamp)]
  BY <1>1 DEF IC!StoreInfo, IC!Becomes, IC!Table, IC!At
<1>3. Handed(q) /\ DOMAIN cached = RecordedFiles
  BY <1>1 DEF CacheInv, RequestInv, KnownInv
<1>4. q.file \in RecordedFiles /\ Fits(q.info, q.stamp, q.file)
  BY <1>2, <1>3 DEF Handed, Fits
<1>5. Handed(r)
  <2>1. CASE r = IC!Listing(q)
    BY <2>1 DEF Handed, IC!Listing, IC!Idle
  <2>2. CASE r = [IC!Idle EXCEPT !.at = "size", !.file = q.file]
    BY <1>4, <2>2 DEF Handed, IC!Idle
  <2> QED
    BY <1>1, <2>1, <2>2
<1>6. ASSUME NEW f \in RecordedFiles
      PROVE  \/ cached'[f] \in {cached[f], Nil}
             \/ \E info, stamp : Fits(info, stamp, f) /\ cached'[f] = IC!Stored(f, info, stamp)
  <2>1. CASE f = q.file
    <3>1. cached'[f] = IC!Stored(f, q.info, q.stamp)
      BY <1>2, <1>3, <2>1
    <3> QED
      BY <1>4, <2>1, <3>1
  <2>2. CASE f # q.file
    BY <1>2, <1>3, <2>2
  <2> QED
    BY <2>1, <2>2
<1>7. DOMAIN cached' = RecordedFiles
  BY <1>2, <1>3
<1> QED
  BY <1>2, <1>5, <1>6, <1>7, CacheKnows

LEMMA CacheAsked ==
  ASSUME CacheInv, NEW t \in Threads, NEW f \in RecordedFiles, IC!AskIndex(t, f)
  PROVE  CacheInv'
<1>1. PICK r : /\ request' = [request EXCEPT ![t] = r]
               /\ \/ r = IC!Idle
                  \/ r = [IC!Idle EXCEPT !.file = f, !.at = "size"]
                  \/ r = [IC!Idle EXCEPT !.file = f, !.at = "read", !.stamp = disk[f].size]
  <2>1. PICK q : q = [IC!Idle EXCEPT !.file = f]
    OBVIOUS
  <2>2. \/ request' = [request EXCEPT ![t] = IC!Idle]
        \/ request' = [request EXCEPT ![t] = [q EXCEPT !.at = "size"]]
        \/ request' = [request EXCEPT ![t] = [q EXCEPT !.at = "read", !.stamp = disk[f].size]]
    BY <2>1 DEF IC!AskIndex, IC!Becomes, IC!Stamp
  <2>3. /\ [q EXCEPT !.at = "size"] = [IC!Idle EXCEPT !.file = f, !.at = "size"]
        /\ [q EXCEPT !.at = "read", !.stamp = disk[f].size]
             = [IC!Idle EXCEPT !.file = f, !.at = "read", !.stamp = disk[f].size]
    BY <2>1
  <2> QED
    BY <2>2, <2>3
<1>2. /\ disk' = disk /\ tick' = tick /\ indexRows' = indexRows /\ posted' = posted
      /\ cached' = [cached EXCEPT ![f] = IF disk[f].on THEN @ ELSE Nil]
  BY DEF IC!AskIndex, IC!Table
<1>3. DOMAIN cached = RecordedFiles /\ disk[f].size \in Nat /\ disk[f].size <= disk[f].size
  BY DEF CacheInv, KnownInv, DiskShape
<1>4. /\ {"at", "camera", "todo", "file", "stamp", "info", "blocks", "upTo"} \subseteq DOMAIN r
      /\ \/ r.at = "idle"
         \/ r.at = "size" /\ r.file = f
         \/ r.at = "read" /\ r.file = f /\ r.stamp = disk[f].size
  <2>1. CASE r = IC!Idle
    BY <2>1 DEF IC!Idle
  <2>2. CASE r = [IC!Idle EXCEPT !.file = f, !.at = "size"]
    BY <2>2 DEF IC!Idle
  <2>3. CASE r = [IC!Idle EXCEPT !.file = f, !.at = "read", !.stamp = disk[f].size]
    BY <2>3 DEF IC!Idle
  <2> QED
    BY <1>1, <2>1, <2>2, <2>3
<1>5. Handed(r)
  BY <1>3, <1>4 DEF Handed
<1>6. DOMAIN cached' = RecordedFiles /\ \A g \in RecordedFiles : cached'[g] \in {cached[g], Nil}
  BY <1>2, <1>3
<1> QED
  BY <1>1, <1>2, <1>5, <1>6, CacheKnows

\* An index is looked up, and its turn to be dropped is put off.
LEMMA CacheLooksUp ==
  ASSUME CacheInv, NEW t \in Threads, IC!IndexSize(t)
  PROVE  CacheInv'
<1>1. PICK q, f, d : q = request[t] /\ f = q.file /\ d = disk[f]
  OBVIOUS
<1>2. /\ q.at = "size" /\ disk' = disk /\ indexRows' = indexRows /\ posted' = posted
  BY <1>1 DEF IC!IndexSize, IC!Table, IC!At
<1>3. /\ Handed(q) /\ f \in RecordedFiles /\ DOMAIN cached = RecordedFiles /\ tick \in Nat
      /\ d.size \in Nat /\ d.size <= d.size
  BY <1>1, <1>2 DEF CacheInv, RequestInv, Handed, KnownInv, DiskShape
<1>4. CASE ~d.on
  <2>1. cached' = cached /\ tick' = tick /\ request' = [request EXCEPT ![t] = IC!Idle]
    BY <1>1, <1>4 DEF IC!IndexSize, IC!Becomes
  <2>2. KnownInv' /\ IndexInv'
    BY <1>2, <2>1, CacheStays
  <2>3. Handed(IC!Idle)
    BY DEF Handed, IC!Idle
  <2> QED
    BY <1>2, <2>1, <2>2, <2>3, CacheMoves
<1>5. CASE d.on
  <2>1. /\ tick' = tick + 1
        /\ cached' = IF Holding(f) THEN [cached EXCEPT ![f].index.used = tick + 1] ELSE cached
    BY <1>1, <1>5 DEF IC!IndexSize, Holding
  <2>2. PICK r : /\ request' = [request EXCEPT ![t] = r]
                 /\ \/ r = IC!Idle
                    \/ r = [q EXCEPT !.at = "index", !.stamp = d.size, !.blocks = 0, !.upTo = 0]
                    \/ /\ Holding(f)
                       /\ r = [q EXCEPT !.at = "index", !.stamp = d.size,
                                 !.blocks = cached[f].index.blocks, !.upTo = cached[f].index.upTo]
    <3>1. PICK has, grew : /\ has = (cached[f] # Nil /\ cached[f].index.blocks > 0)
                           /\ grew = (has /\ d.size > cached[f].index.size)
                           /\ has \in BOOLEAN /\ grew \in BOOLEAN
      OBVIOUS
    <3>2. request' = [request EXCEPT ![t] =
              IF has /\ cached[f].index.size = d.size THEN IC!Idle
              ELSE [q EXCEPT !.at = "index", !.stamp = d.size,
                       !.blocks = IF grew THEN cached[f].index.blocks ELSE 0,
                       !.upTo = IF grew THEN cached[f].index.upTo ELSE 0]]
      BY <1>1, <1>5, <3>1 DEF IC!IndexSize, IC!Becomes, IC!Stamp
    <3>3. CASE has /\ cached[f].index.size = d.size
      BY <3>2, <3>3
    <3>4. CASE ~(has /\ cached[f].index.size = d.size) /\ grew
      <4>1. Holding(f)
        BY <3>1, <3>4 DEF Holding
      <4>2. request' = [request EXCEPT ![t] =
              [q EXCEPT !.at = "index", !.stamp = d.size,
                       !.blocks = cached[f].index.blocks, !.upTo = cached[f].index.upTo]]
        BY <3>2, <3>4
      <4> QED
        BY <4>1, <4>2
    <3>5. CASE ~(has /\ cached[f].index.size = d.size) /\ ~grew
      BY <3>2, <3>5
    <3> QED
      BY <3>3, <3>4, <3>5
  <2>3. cached[f] # Nil => Indexed(cached[f].index, f) /\ {"info", "stamp", "index"} \subseteq DOMAIN cached[f]
    BY <1>3 DEF CacheInv, KnownInv, Known
  <2>4. /\ {"at", "camera", "todo", "file", "stamp", "info", "blocks", "upTo"} \subseteq DOMAIN r
        /\ \/ r.at = "idle"
           \/ r.at = "index" /\ r.file = f /\ r.stamp = d.size /\ r.blocks \in Int /\ r.upTo = r.blocks
    <3>1. CASE r = IC!Idle
      BY <3>1 DEF IC!Idle
    <3>2. CASE r = [q EXCEPT !.at = "index", !.stamp = d.size, !.blocks = 0, !.upTo = 0]
      BY <1>1, <1>3, <3>2 DEF Handed
    <3>3. CASE /\ Holding(f)
               /\ r = [q EXCEPT !.at = "index", !.stamp = d.size,
                         !.blocks = cached[f].index.blocks, !.upTo = cached[f].index.upTo]
      <4>1. cached[f].index.blocks \in Int /\ cached[f].index.upTo = cached[f].index.blocks
        BY <2>3, <3>3 DEF Holding, Indexed
      <4> QED
        BY <1>1, <1>3, <3>3, <4>1 DEF Handed
    <3> QED
      BY <2>2, <3>1, <3>2, <3>3
  <2>5. Handed(r)
    BY <1>1, <1>3, <2>4 DEF Handed
  <2>6. PICK c : cached' = c
    OBVIOUS
  <2>7. /\ DOMAIN c = RecordedFiles /\ \A g \in RecordedFiles \ {f} : c[g] = cached[g]
        /\ ~Holding(f) => c[f] = cached[f]
    BY <1>3, <2>1, <2>6
  <2>8. ASSUME Holding(f)
        PROVE  /\ {"info", "stamp", "index"} \subseteq DOMAIN c[f]
               /\ c[f].info = cached[f].info /\ c[f].stamp = cached[f].stamp
               /\ {"blocks", "upTo", "size", "used"} \subseteq DOMAIN c[f].index
               /\ c[f].index.blocks = cached[f].index.blocks /\ c[f].index.upTo = cached[f].index.upTo
               /\ c[f].index.size = cached[f].index.size /\ c[f].index.used = tick + 1
    <3>1. c[f] = [cached[f] EXCEPT !.index.used = tick + 1]
      BY <1>3, <2>1, <2>6, <2>8
    <3>2. c[f] = [cached[f] EXCEPT !.index = [cached[f].index EXCEPT !.used = tick + 1]]
      BY <3>1
    <3>3. /\ {"info", "stamp", "index"} \subseteq DOMAIN c[f]
          /\ c[f].info = cached[f].info /\ c[f].stamp = cached[f].stamp
          /\ c[f].index = [cached[f].index EXCEPT !.used = tick + 1]
      BY <2>3, <2>8, <3>2 DEF Holding
    <3> QED
      BY <2>3, <2>8, <3>3 DEF Holding, Indexed
  <2>9. KnownInv'
    <3>1. ASSUME NEW g \in RecordedFiles, cached[g] # Nil, ~Holding(g) \/ g # f
          PROVE  Known(g)'
      <4>1. cached'[g] = cached[g] /\ Known(g)
        BY <2>6, <2>7, <3>1 DEF CacheInv, KnownInv
      <4> QED
        BY <1>2, <1>3, <2>1, <3>1, <4>1 DEF Known, Fits, Indexed
    <3>2. ASSUME NEW g \in RecordedFiles, cached[g] = Nil
          PROVE  Known(g)'
      <4>1. ~Holding(g)
        BY <3>2 DEF Holding
      <4>2. cached'[g] = cached[g]
        BY <2>6, <2>7, <4>1
      <4> QED
        BY <3>2, <4>2 DEF Known
    <3>3. ASSUME Holding(f)
          PROVE  Known(f)'
      <4>1. cached[f] # Nil /\ Known(f)
        BY <1>3, <3>3 DEF CacheInv, KnownInv, Holding
      <4>2. Fits(c[f].info, c[f].stamp, f)'
        BY <1>2, <2>8, <3>3, <4>1 DEF Known, Fits
      <4>3. Indexed(c[f].index, f)'
        BY <1>2, <1>3, <2>1, <2>8, <3>3, <4>1 DEF Known, Indexed
      <4> QED
        BY <2>6, <2>8, <3>3, <4>2, <4>3 DEF Known
    <3>4. ASSUME NEW g \in RecordedFiles
          PROVE  Known(g)'
      BY <3>1, <3>2, <3>3
    <3> QED
      BY <1>3, <2>1, <2>6, <2>7, <3>4 DEF KnownInv
  <2>10. \A g \in RecordedFiles :
           /\ Holding(g)' => Holding(g)
           /\ cached'[g].index.used =
                IF g = f /\ Holding(f) THEN tick + 1 ELSE cached[g].index.used
    BY <2>6, <2>7, <2>8 DEF Holding
  <2>11. \A g \in RecordedFiles : Holding(g) => cached[g].index.used \in Nat /\ cached[g].index.used <= tick
    BY DEF CacheInv, KnownInv, Known, Indexed, Holding
  <2>12. \A g, h \in RecordedFiles :
           Holding(g)' /\ Holding(h)' /\ cached'[g].index.used = cached'[h].index.used => g = h
    <3>1. \A g, h \in RecordedFiles :
            Holding(g) /\ Holding(h) /\ cached[g].index.used = cached[h].index.used => g = h
      BY DEF CacheInv, IndexInv
    <3> SUFFICES ASSUME NEW g \in RecordedFiles, NEW h \in RecordedFiles,
                        Holding(g)', Holding(h)', cached'[g].index.used = cached'[h].index.used
                 PROVE  g = h
      OBVIOUS
    <3>2. Holding(g) /\ Holding(h)
      BY <2>10
    <3>3. CASE g = f \/ h = f
      BY <1>3, <2>10, <2>11, <3>2, <3>3
    <3>4. CASE g # f /\ h # f
      BY <2>10, <3>1, <3>2, <3>4
    <3> QED
      BY <3>3, <3>4
  <2>13. IndexInv'
    BY <2>10, <2>12, HeldStay DEF IndexInv
  <2> QED
    BY <1>2, <2>2, <2>5, <2>9, <2>13, CacheMoves
<1> QED
  BY <1>4, <1>5

\* What trim_indexes leaves: the indexes used last, as many as may be held.
UsedApart(c) ==
  /\ \A f \in RecordedFiles : c[f] # Nil => "index" \in DOMAIN c[f]
  /\ \A f \in RecordedFiles : c[f] # Nil /\ c[f].index.blocks > 0 => c[f].index.used \in Nat
  /\ \A f, g \in RecordedFiles :
       /\ c[f] # Nil /\ c[f].index.blocks > 0 /\ c[g] # Nil /\ c[g].index.blocks > 0
       /\ c[f].index.used = c[g].index.used
       => f = g

CutFrom(cut, c) ==
  /\ DOMAIN cut = RecordedFiles
  /\ \A f \in RecordedFiles :
       \/ cut[f] = c[f]
       \/ c[f] # Nil /\ cut[f] = [c[f] EXCEPT !.index = IC!NoIndex]
  /\ Cardinality({f \in RecordedFiles : cut[f] # Nil /\ cut[f].index.blocks > 0}) <= MaxIndexes

LEMMA Trims ==
  ASSUME NEW c, UsedApart(c), NEW cut, cut = IC!Trimmed(c)
  PROVE  CutFrom(cut, c)
<1> USE DEF UsedApart
<1> DEFINE holders == {f \in RecordedFiles : c[f] # Nil /\ c[f].index.blocks > 0}
           newer(f) == {g \in holders : c[g].index.used > c[f].index.used}
           kept == {f \in holders : ~(IC!Cardinality(newer(f)) >= MaxIndexes)}
           left == {f \in RecordedFiles : cut[f] # Nil /\ cut[f].index.blocks > 0}
<1>1. cut = [f \in RecordedFiles |-> IF f \in holders /\ IC!Cardinality(newer(f)) >= MaxIndexes
                                  THEN [c[f] EXCEPT !.index = IC!NoIndex]
                                  ELSE c[f]]
  BY DEF IC!Trimmed
<1>2. \A f \in holders : c[f] # Nil /\ c[f].index.used \in Nat
  OBVIOUS
<1>3. /\ DOMAIN cut = RecordedFiles
      /\ \A f \in RecordedFiles :
           \/ cut[f] = c[f] /\ (f \in holders => f \in kept)
           \/ f \in holders /\ cut[f] = [c[f] EXCEPT !.index = IC!NoIndex]
  <2> HIDE DEF newer, holders
  <2> QED
    BY <1>1
<1>4. left \subseteq kept
  <2>1. ASSUME NEW f \in RecordedFiles, cut[f] = [c[f] EXCEPT !.index = IC!NoIndex], f \in holders
        PROVE  f \notin left
    <3>1. cut[f].index = IC!NoIndex
      BY <1>2, <2>1
    <3>2. IC!NoIndex.blocks = 0
      BY DEF IC!NoIndex
    <3> QED
      BY <3>1, <3>2
  <2>2. ASSUME NEW f \in left
        PROVE  f \in kept
    <3>1. cut[f] = c[f] /\ (f \in holders => f \in kept)
      BY <1>3, <2>1, <2>2
    <3>2. f \in holders
      BY <2>2, <3>1
    <3> QED
      BY <3>1, <3>2
  <2> QED
    BY <2>2
<1>5. /\ IsFiniteSet(kept) /\ Cardinality(left) \in Nat /\ Cardinality(kept) \in Nat
      /\ Cardinality(left) <= Cardinality(kept) /\ MaxIndexes \in Nat
  <2>1. kept \subseteq RecordedFiles /\ left \subseteq RecordedFiles
    OBVIOUS
  <2>2. MaxIndexes \in Nat
    BY IndexCacheAssumption DEF IC!IndexCacheAssumption
  <2> HIDE DEF kept, left
  <2> QED
    BY <1>4, <2>1, <2>2, CacheFinite, FS_Subset
<1>6. Cardinality(kept) <= MaxIndexes
  <2>1. CASE kept = {}
    <3> HIDE DEF kept
    <3> QED
      BY <1>5, <2>1, FS_EmptySet
  <2>2. CASE kept # {}
    <3> DEFINE uses == {c[f].index.used : f \in kept}
    <3>1. uses \subseteq Nat /\ uses # {}
      BY <1>2, <2>2
    <3>2. PICK least \in uses : \A u \in uses : least <= u
      <4> HIDE DEF uses
      <4> QED
        BY <3>1, LeastOf
    <3>3. PICK f \in kept : c[f].index.used = least
      OBVIOUS
    <3>4. f \in RecordedFiles /\ f \in holders
      OBVIOUS
    <3>5. kept \subseteq newer(f) \union {f}
      <4> SUFFICES ASSUME NEW g \in kept, g # f PROVE g \in newer(f)
        OBVIOUS
      <4>1. g \in RecordedFiles /\ g \in holders /\ c[g].index.used \in uses
        OBVIOUS
      <4>2. c[g].index.used # c[f].index.used
        BY <3>4, <4>1
      <4>3. c[f].index.used <= c[g].index.used /\ c[g].index.used \in Nat /\ c[f].index.used \in Nat
        BY <1>2, <3>2, <3>3, <3>4, <4>1
      <4>4. PICK u, v : u = c[f].index.used /\ v = c[g].index.used
        OBVIOUS
      <4>5. u \in Nat /\ v \in Nat /\ u <= v /\ v # u
        BY <4>2, <4>3, <4>4, Zenon
      <4>6. v > u
        BY <4>5, Greater, Zenon
      <4>7. c[g].index.used > c[f].index.used
        BY <4>4, <4>6, Zenon
      <4> QED
        BY <4>1, <4>7
    <3>6. ~(c[f].index.used > c[f].index.used)
      <4>1. PICK u : u = c[f].index.used
        OBVIOUS
      <4>2. u \in Nat
        BY <1>2, <3>4, <4>1, Zenon
      <4>3. ~(u > u)
        BY <4>2, Greater, Zenon
      <4> QED
        BY <4>1, <4>3, Zenon
    <3>7. f \notin newer(f) /\ newer(f) \subseteq RecordedFiles
      BY <3>6
    <3>8. ~(Cardinality(newer(f)) >= MaxIndexes)
      <4>1. ~(IC!Cardinality(newer(f)) >= MaxIndexes)
        OBVIOUS
      <4> HIDE DEF newer
      <4> QED
        BY <4>1, CacheCounts
    <3> HIDE DEF newer, kept
    <3>9. IsFiniteSet(newer(f)) /\ Cardinality(newer(f)) \in Nat
      BY <3>7, CacheFinite
    <3>10. /\ IsFiniteSet(newer(f) \union {f})
           /\ Cardinality(newer(f) \union {f}) = Cardinality(newer(f)) + 1
      BY <3>7, <3>9, FS_AddElement
    <3>11. Cardinality(kept) <= Cardinality(newer(f) \union {f})
      BY <3>5, <3>10, FS_Subset
    <3> QED
      BY <1>5, <3>8, <3>9, <3>10, <3>11
  <2> QED
    BY <2>1, <2>2
<1>7. Cardinality(left) <= MaxIndexes
  <2> HIDE DEF kept, left
  <2> QED
    BY <1>5, <1>6
<1> QED
  BY <1>3, <1>7 DEF CutFrom

\* An index is kept, for a recording that is still known.
LEMMA CacheKeeps ==
  ASSUME CacheInv, NEW t \in Threads, IC!StoreIndex(t)
  PROVE  CacheInv'
<1>1. PICK q, ix : /\ q = request[t]
                   /\ ix = [blocks |-> q.blocks, upTo |-> q.upTo, size |-> q.stamp, used |-> tick + 1]
  OBVIOUS
<1>2. /\ q.at = "keep" /\ disk' = disk /\ indexRows' = indexRows /\ posted' = posted
      /\ tick' = tick + 1 /\ request' = [request EXCEPT ![t] = IC!Idle]
      /\ cached' = IF cached[q.file] = Nil THEN cached
                   ELSE IC!Trimmed([cached EXCEPT ![q.file].index = ix])
  BY <1>1 DEF IC!StoreIndex, IC!Table, IC!Becomes, IC!At
<1>3. /\ Handed(q) /\ q.file \in RecordedFiles /\ DOMAIN cached = RecordedFiles /\ tick \in Nat
  BY <1>1, <1>2 DEF CacheInv, RequestInv, Handed, KnownInv
<1>4. Handed(IC!Idle)
  BY DEF Handed, IC!Idle
<1>5. \A g \in RecordedFiles : Known(g)
  BY DEF CacheInv, KnownInv
<1>6. CASE cached[q.file] = Nil
  <2>1. cached' = cached
    BY <1>2, <1>6
  <2>2. KnownInv'
    <3>1. tick' \in Nat /\ tick <= tick'
      BY <1>2, <1>3
    <3>2. ASSUME NEW g \in RecordedFiles, NEW used, Indexed(used, g)
          PROVE  Indexed(used, g)'
      BY <1>2, <1>3, <3>1, <3>2 DEF Indexed
    <3>3. ASSUME NEW g \in RecordedFiles
          PROVE  Known(g)'
      BY <1>2, <1>5, <2>1, <3>2 DEF Known, Fits
    <3> QED
      BY <1>3, <2>1, <3>1, <3>3 DEF KnownInv
  <2>3. IndexInv'
    BY <2>1 DEF CacheInv, IndexInv, Holding
  <2> QED
    BY <1>2, <1>4, <2>2, <2>3, CacheMoves
<1>7. CASE cached[q.file] # Nil
  <2>1. PICK c, cut : /\ c = [cached EXCEPT ![q.file].index = ix]
                      /\ cut = IC!Trimmed(c)
    OBVIOUS
  <2>2. cached' = cut
    BY <1>2, <1>7, <2>1
  <2>3. \A g \in RecordedFiles \ {q.file} : c[g] = cached[g]
    BY <1>3, <2>1
  <2>4. /\ {"info", "stamp", "index"} \subseteq DOMAIN c[q.file]
        /\ c[q.file].info = cached[q.file].info /\ c[q.file].stamp = cached[q.file].stamp
        /\ c[q.file].index = ix
    <3>1. {"info", "stamp", "index"} \subseteq DOMAIN cached[q.file]
      BY <1>3, <1>5, <1>7 DEF Known
    <3>2. c[q.file] = [cached[q.file] EXCEPT !.index = ix]
      BY <1>3, <2>1
    <3> QED
      BY <3>1, <3>2
  <2>5. Indexed(ix, q.file)'
    BY <1>1, <1>2, <1>3 DEF Handed, Indexed
  <2>6. ix.used = tick + 1
    BY <1>1
  <2>7. ASSUME NEW g \in RecordedFiles, c[g] # Nil
        PROVE  /\ {"info", "stamp", "index"} \subseteq DOMAIN c[g]
               /\ Fits(c[g].info, c[g].stamp, g)' /\ Indexed(c[g].index, g)'
               /\ c[g].index.used \in Nat /\ (g # q.file => c[g].index.used <= tick)
    <3>1. CASE g = q.file
      BY <1>2, <1>3, <1>5, <1>7, <2>4, <2>5, <2>6, <3>1 DEF Known, Fits
    <3>2. CASE g # q.file
      BY <1>2, <1>3, <1>5, <2>3, <2>7, <3>2 DEF Known, Fits, Indexed
    <3> QED
      BY <3>1, <3>2
  <2>8. ASSUME NEW g \in RecordedFiles, NEW h \in RecordedFiles,
               c[g] # Nil, c[g].index.blocks > 0, c[h] # Nil, c[h].index.blocks > 0,
               c[g].index.used = c[h].index.used
        PROVE  g = h
    <3>1. CASE g = q.file \/ h = q.file
      BY <1>3, <2>4, <2>6, <2>7, <2>8, <3>1
    <3>2. CASE g # q.file /\ h # q.file
      BY <2>3, <2>8, <3>2 DEF CacheInv, IndexInv, Holding
    <3> QED
      BY <3>1, <3>2
  <2>9. /\ DOMAIN cut = RecordedFiles
        /\ \A g \in RecordedFiles :
             \/ cut[g] = c[g]
             \/ c[g] # Nil /\ cut[g] = [c[g] EXCEPT !.index = IC!NoIndex]
        /\ Cardinality({g \in RecordedFiles : cut[g] # Nil /\ cut[g].index.blocks > 0}) <= MaxIndexes
    <3>1. \A g \in RecordedFiles : c[g] # Nil => "index" \in DOMAIN c[g]
      BY <2>7
    <3>2. \A g \in RecordedFiles : c[g] # Nil /\ c[g].index.blocks > 0 => c[g].index.used \in Nat
      BY <2>7
    <3>3. \A g, h \in RecordedFiles :
            /\ c[g] # Nil /\ c[g].index.blocks > 0 /\ c[h] # Nil /\ c[h].index.blocks > 0
            /\ c[g].index.used = c[h].index.used
            => g = h
      BY <2>8
    <3>4. UsedApart(c)
      BY <3>1, <3>2, <3>3 DEF UsedApart
    <3>5. CutFrom(cut, c)
      BY <2>1, <3>4, Trims, Zenon
    <3> QED
      BY <3>5 DEF CutFrom
  <2>10. tick' \in Nat /\ tick' = tick + 1
    BY <1>2, <1>3
  <2>11. ASSUME NEW g \in RecordedFiles, cut[g] = [c[g] EXCEPT !.index = IC!NoIndex], c[g] # Nil
         PROVE  /\ {"info", "stamp", "index"} \subseteq DOMAIN cut[g]
                /\ cut[g].info = c[g].info /\ cut[g].stamp = c[g].stamp
                /\ cut[g].index = IC!NoIndex /\ ~(cut[g].index.blocks > 0)
    <3>1. IC!NoIndex.blocks = 0
      BY DEF IC!NoIndex
    <3>2. /\ {"info", "stamp", "index"} \subseteq DOMAIN cut[g]
          /\ cut[g].info = c[g].info /\ cut[g].stamp = c[g].stamp
          /\ cut[g].index = IC!NoIndex
      BY <2>7, <2>11
    <3> QED
      BY <3>1, <3>2
  <2>12. ASSUME NEW g \in RecordedFiles
         PROVE  Known(g)'
    <3>1. disk'[g].size \in Nat
      BY <1>2 DEF CacheInv, DiskShape
    <3>2. Indexed(IC!NoIndex, g)'
      BY <2>10, <3>1 DEF Indexed, IC!NoIndex
    <3>3. CASE cut[g] = c[g]
      BY <2>2, <2>7, <3>3 DEF Known
    <3>4. CASE c[g] # Nil /\ cut[g] = [c[g] EXCEPT !.index = IC!NoIndex]
      BY <2>2, <2>7, <2>11, <3>2, <3>4 DEF Known
    <3> QED
      BY <2>9, <3>3, <3>4
  <2>13. KnownInv'
    BY <2>2, <2>9, <2>10, <2>12 DEF KnownInv
  <2>14. ASSUME NEW g \in RecordedFiles, Holding(g)'
         PROVE  cut[g] = c[g]
    BY <2>2, <2>9, <2>11, <2>14 DEF Holding
  <2>15. IndexInv'
    <3>1. \A g, h \in RecordedFiles :
            Holding(g)' /\ Holding(h)' /\ cached'[g].index.used = cached'[h].index.used => g = h
      BY <2>2, <2>8, <2>14 DEF Holding
    <3> QED
      BY <2>2, <2>9, <3>1 DEF IndexInv, Holding
  <2> QED
    BY <1>2, <1>4, <2>13, <2>15, CacheMoves
<1> QED
  BY <1>6, <1>7

LEMMA CachePosts ==
  ASSUME CacheInv, NEW t \in Threads, IC!SaveDiskCache(t)
  PROVE  CacheInv'
<1>1. PICK gone : gone = IC!Saved(request[t].camera)
  OBVIOUS
<1>2. PICK row : row = [f \in gone |-> [info |-> cached[f].info, stamp |-> cached[f].stamp]]
  OBVIOUS
<1>3. /\ disk' = disk /\ cached' = cached /\ tick' = tick /\ indexRows' = indexRows
      /\ posted' = Append(posted, row) /\ request' = [request EXCEPT ![t] = IC!Idle]
  BY <1>1, <1>2 DEF IC!SaveDiskCache, IC!Cache, IC!Becomes
<1>4. \A f \in gone : f \in RecordedFiles /\ cached[f] # Nil /\ cached[f].info.closed
  BY <1>1 DEF IC!Saved
<1>5. DOMAIN row = gone /\ \A f \in gone : f \in RecordedFiles /\ Row(row[f], f)
  BY <1>2, <1>4 DEF CacheInv, KnownInv, Known, Row
<1>6. KnownInv' /\ IndexInv'
  BY <1>3, CacheStays
<1>7. DiskShape'
  BY <1>3 DEF CacheInv, DiskShape
<1>8. RequestInv'
  <2>1. Handed(IC!Idle)'
    BY DEF Handed, IC!Idle
  <2> QED
    BY <1>3, <2>1 DEF CacheInv, RequestInv, Handed
<1>9. TableInv'
  <2>1. PICK S : posted \in Seq(S)
    BY DEF CacheInv, TableInv
  <2>2. posted \in Seq(S \union {row})
    BY <2>1
  <2>3. /\ posted' \in Seq(S \union {row}) /\ Len(posted') = Len(posted) + 1 /\ Len(posted) \in Nat
        /\ \A i \in 1 .. Len(posted') : posted'[i] = IF i = Len(posted') THEN row ELSE posted[i]
    BY <1>3, <2>2
  <2>4. ASSUME NEW i \in 1 .. Len(posted'), NEW f \in DOMAIN posted'[i]
        PROVE  f \in RecordedFiles /\ Row(posted'[i][f], f)
    <3>1. CASE i = Len(posted')
      BY <1>5, <2>3, <2>4, <3>1
    <3>2. CASE i # Len(posted')
      <4>1. i \in 1 .. Len(posted) /\ posted'[i] = posted[i]
        BY <2>3, <3>2
      <4> QED
        BY <2>4, <4>1 DEF CacheInv, TableInv
    <3> QED
      BY <3>1, <3>2
  <2>5. ASSUME NEW f, NEW r, Row(r, f)
        PROVE  Row(r, f)'
    BY <1>3, <2>5 DEF Row, Fits
  <2>6. ASSUME NEW i \in 1 .. Len(posted'), NEW f \in DOMAIN posted'[i]
        PROVE  f \in RecordedFiles /\ Row(posted[i][f], f)'
    <3>1. PICK r : r = posted'[i][f]
      OBVIOUS
    <3>2. f \in RecordedFiles /\ Row(r, f)'
      BY <2>4, <2>5, <3>1
    <3> QED
      BY <3>1, <3>2
  <2>7. \A f \in RecordedFiles : (indexRows[f] # Nil => Row(indexRows[f], f))'
    BY <1>3 DEF CacheInv, TableInv, Row, Fits
  <2> QED
    BY <1>3, <2>3, <2>6, <2>7 DEF CacheInv, TableInv
<1> QED
  BY <1>6, <1>7, <1>8, <1>9 DEF CacheInv

LEMMA CacheUpserts ==
  ASSUME CacheInv, IC!Upsert
  PROVE  CacheInv'
<1>1. /\ disk' = disk /\ cached' = cached /\ tick' = tick /\ request' = request
      /\ posted # <<>> /\ posted' = Tail(posted)
      /\ indexRows' = [f \in RecordedFiles |-> IF f \in DOMAIN Head(posted)
                                            THEN Head(posted)[f] ELSE indexRows[f]]
  BY DEF IC!Upsert, IC!Cache
<1>2. PICK S : posted \in Seq(S)
  BY DEF CacheInv, TableInv
<1>3. /\ posted' \in Seq(S) /\ Len(posted') = Len(posted) - 1 /\ Len(posted) \in Nat /\ Len(posted) > 0
      /\ \A i \in 1 .. Len(posted') : posted'[i] = posted[i + 1]
      /\ Head(posted) = posted[1]
  BY <1>1, <1>2
<1>4. ASSUME NEW f, NEW r, Row(r, f)
      PROVE  Row(r, f)'
  BY <1>1, <1>4 DEF Row, Fits
<1>5. ASSUME NEW i \in 1 .. Len(posted'), NEW f \in DOMAIN posted'[i]
      PROVE  f \in RecordedFiles /\ Row(posted[i][f], f)'
  <2>1. PICK r : r = posted'[i][f]
    OBVIOUS
  <2>2. i + 1 \in 1 .. Len(posted) /\ posted'[i] = posted[i + 1]
    BY <1>3
  <2>3. f \in RecordedFiles /\ Row(r, f)
    BY <1>5, <2>1, <2>2 DEF CacheInv, TableInv
  <2> QED
    BY <1>4, <2>1, <2>3
<1>6. ASSUME NEW f \in RecordedFiles, indexRows'[f] # Nil
      PROVE  Row(indexRows[f], f)'
  <2>1. PICK r : r = indexRows'[f]
    OBVIOUS
  <2>2. CASE f \in DOMAIN posted[1]
    <3>1. 1 \in 1 .. Len(posted)
      BY <1>3
    <3>2. r = posted[1][f]
      BY <1>1, <1>3, <2>1, <2>2
    <3>3. Row(r, f)
      BY <2>2, <3>1, <3>2 DEF CacheInv, TableInv
    <3> QED
      BY <1>4, <2>1, <3>3
  <2>3. CASE f \notin DOMAIN posted[1]
    <3>1. r = indexRows[f]
      BY <1>1, <1>3, <2>1, <2>3
    <3>2. Row(r, f)
      BY <1>6, <2>1, <3>1 DEF CacheInv, TableInv
    <3> QED
      BY <1>4, <2>1, <3>2
  <2> QED
    BY <2>2, <2>3
<1>7. TableInv'
  BY <1>1, <1>3, <1>5, <1>6 DEF TableInv
<1>8. KnownInv' /\ IndexInv'
  BY <1>1, CacheStays
<1>9. DiskShape' /\ RequestInv'
  BY <1>1 DEF CacheInv, DiskShape, RequestInv, Handed
<1> QED
  BY <1>7, <1>8, <1>9 DEF CacheInv

LEMMA CacheSteps ==
  ASSUME CacheInv, IC!Next
  PROVE  CacheInv'
<1>1. ASSUME NEW t \in Threads, IC!Request(t)
      PROVE  CacheInv'
  <2>1. CASE \/ \E f \in RecordedFiles : IC!ListFolder(t, CameraOf[f]) \/ IC!ListEntry(t, f)
             \/ IC!ReadInfo(t) \/ IC!ListEnd(t) \/ IC!ReadIndex(t)
    BY <2>1, CacheLists
  <2>2. CASE \E f \in RecordedFiles : IC!AskIndex(t, f)
    BY <2>2, CacheAsked
  <2>3. CASE IC!LoadDiskCache(t) \/ IC!StoreInfo(t) \/ IC!SaveDiskCache(t) \/ IC!IndexSize(t) \/ IC!StoreIndex(t)
    BY <2>3, CacheReadsTable, CacheStores, CachePosts, CacheLooksUp, CacheKeeps
  <2> QED
    BY <1>1, <2>1, <2>2, <2>3, Zenon DEF IC!Request
<1> QED
  BY <1>1, CacheDisk, CacheUpserts, CacheRestarts, Zenon DEF IC!Next

\* However the requests interleave with each other, with the recorders and the
\* clean-up, and however often the server starts again: what is remembered under
\* the stamp a recording has, in memory or in the table, tells the recording,
\* and no more indexes are held than allowed.
THEOREM WhatIsKnownIsTrue == Spec => []IndexCacheSafe
<1>1. Init => CacheInv
  BY CacheBegins
<1>2. CacheInv /\ [Next]_vars => CacheInv'
  <2> SUFFICES ASSUME CacheInv, [Next]_vars
               PROVE  CacheInv'
    OBVIOUS
  <2>1. CASE ICStep
    BY <2>1, CacheSteps DEF ICStep
  <2>2. CASE indexVars' = indexVars
    BY <2>2 DEF indexVars, CacheInv, DiskShape, KnownInv, Known, TableInv, Row, RequestInv,
                Handed, IndexInv, Holding, Fits, Indexed
  <2> QED
    BY <2>1, <2>2 DEF Next, vars, RTStep, MAStep, THStep, TLStep, SEStep, LGStep, ANStep
<1>3. CacheInv => IndexCacheSafe
  <2> SUFFICES ASSUME CacheInv PROVE IndexCacheSafe
    OBVIOUS
  <2>1. IC!CacheTells
    <3> SUFFICES ASSUME NEW f \in RecordedFiles
                 PROVE  /\ (cached[f] # Nil /\ cached[f].stamp = disk[f].size)
                             => Good(cached[f].info, disk[f])
                        /\ (cached[f] # Nil /\ cached[f].index.blocks > 0 /\ cached[f].index.size = disk[f].size)
                             => cached[f].index.blocks = IC!Blocks(disk[f])
                        /\ (indexRows[f] # Nil /\ indexRows[f].stamp = disk[f].size)
                             => indexRows[f].info = IC!Info(disk[f])
      BY DEF IC!CacheTells, IC!Stamp, Good
    <3>1. Known(f)
      BY DEF CacheInv, KnownInv
    <3>2. ASSUME indexRows[f] # Nil, indexRows[f].stamp = disk[f].size
          PROVE  indexRows[f].info = IC!Info(disk[f])
      <4>1. PICK d : d = [disk[f] EXCEPT !.noted = FALSE]
        OBVIOUS
      <4>2. /\ indexRows[f].info \in {IC!Info(disk[f]), IC!Info(d)} /\ indexRows[f].info.closed
        BY <3>2, <4>1 DEF CacheInv, TableInv, Row, Fits, Good
      <4>3. d.size = disk[f].size /\ d.closed = disk[f].closed
        BY <4>1 DEF CacheInv, DiskShape
      <4>4. IC!Info(d).closed = disk[f].closed
        BY <4>3 DEF IC!Info
      <4>5. CASE disk[f].closed
        BY <4>2, <4>3, <4>5 DEF IC!Info, IC!Blocks
      <4>6. CASE ~disk[f].closed
        BY <4>2, <4>4, <4>6 DEF IC!Info
      <4> QED
        BY <4>5, <4>6
    <3> QED
      BY <3>1, <3>2 DEF Known, Fits, Indexed
  <2>2. IC!FewIndexes
    BY CacheCounts DEF CacheInv, IndexInv, Holding, IC!FewIndexes
  <2> QED
    BY <2>1, <2>2 DEF IndexCacheSafe
<1> QED
  BY <1>1, <1>2, <1>3, PTL DEF Spec

-----------------------------------------------------------------------------
(* Interactions: each command is told by one stretch *)

AStretch == [start : Nat, end : Nat, commands : SUBSET Nat]

\* The stretches that are over: written, or on their way to the table.
Past == table \union {queue[i] : i \in DOMAIN queue}

\* A stretch is no longer than the question looks back, and tells what was done.
Plausible(s) ==
  s.start <= s.end /\ s.end <= s.start + Longest /\ \A c \in s.commands : c \in 1 .. logMade

Apart(s, t) == s.commands \intersect t.commands = {}

LogShape ==
  /\ logClock \in Nat /\ logMade \in Nat /\ early \in 0 .. logMade
  /\ phase \in {"running", "api", "draining", "off"}
  /\ table \subseteq AStretch /\ IsFiniteSet(table)
  /\ queue \in Seq(AStretch)
  /\ open \in AStretch \union {Nil}
  /\ phase = "running" => early = logMade
  /\ phase = "off" => queue = <<>>

\* What is told now, by a stretch that is over or by the open one.
ToldInv ==
  /\ \A s \in Past : Plausible(s) /\ \A t \in Past : s = t \/ Apart(s, t)
  /\ open # Nil => Plausible(open) /\ \A s \in Past : Apart(s, open)
  /\ phase # "running" /\ open # Nil => \A c \in open.commands : c > early
  /\ \A c \in (1 .. early) \ lost :
       (\E s \in Past : c \in s.commands) \/ (open # Nil /\ c \in open.commands)

\* A question between its two halves has rows of the table, each once.
AnswerInv ==
  /\ {"at", "from", "to", "answers", "before", "found"} \subseteq DOMAIN logAsking
  /\ logAsking.at \in {"idle", "table", "answered"}
  /\ logAsking.before \subseteq table /\ logAsking.found \in Seq(AStretch)
  /\ logAsking.at = "table" =>
       \A i, j \in DOMAIN logAsking.found :
         logAsking.found[i] \in logAsking.before /\ (i # j => logAsking.found[i] # logAsking.found[j])
  /\ logAsking.at # "idle" =>
       \A r \in logAsking.before : LG!Meets(r, logAsking.from, logAsking.to) =>
         \E i \in DOMAIN logAsking.found : logAsking.found[i] = r
  /\ logAsking.at = "answered" =>
       \A i, j \in DOMAIN logAsking.found :
         i # j => Apart(logAsking.found[i], logAsking.found[j])

LogInv == LogShape /\ ToldInv /\ AnswerInv

LEMMA LogStarts == Init => LogInv
<1> SUFFICES ASSUME Init PROVE LogInv
  OBVIOUS
<1>1. /\ logClock = 0 /\ logMade = 0 /\ early = 0 /\ phase = "running" /\ open = Nil
      /\ table = {} /\ queue = <<>> /\ logAsking = LG!NoQuestion
  BY DEF Init, LG!LogInit
<1>2. LogShape
  <2>1. IsFiniteSet({})
    BY FS_EmptySet
  <2> QED
    BY <1>1, <2>1 DEF LogShape
<1>3. Past = {}
  BY <1>1 DEF Past
<1>4. ToldInv
  BY <1>1, <1>3 DEF ToldInv
<1>5. AnswerInv
  BY <1>1 DEF AnswerInv, LG!NoQuestion
<1> QED
  BY <1>2, <1>4, <1>5 DEF LogInv

\* Closing a stretch: it is posted, or nobody takes it any more, or it is lost.
LEMMA Shutting ==
  ASSUME LogInv, open # Nil, LG!Shut(open), table' = table
  PROVE  /\ queue' \in Seq(AStretch) /\ (phase = "off" => queue' = queue)
         /\ \/ lost' = lost /\ Past' = Past \union {open}
            \/ lost' = lost /\ Past' = Past /\ phase \in {"draining", "off"}
            \/ lost' = lost \union open.commands /\ Past' = Past
<1>1. PICK S : S = AStretch
  OBVIOUS
<1>2. queue \in Seq(S) /\ open \in S /\ phase \in {"running", "api", "draining", "off"}
  BY <1>1 DEF LogInv, LogShape
<1>3. \/ lost' = lost /\ queue' = Append(queue, open) /\ phase \in {"running", "api"}
      \/ lost' = lost /\ queue' = queue /\ phase \in {"draining", "off"}
      \/ lost' = lost \union open.commands /\ queue' = queue
  BY <1>2 DEF LG!Shut, LG!Posted
<1>4. CASE queue' = queue
  BY <1>1, <1>2, <1>3, <1>4 DEF Past
<1>5. CASE lost' = lost /\ queue' = Append(queue, open) /\ phase \in {"running", "api"}
  <2>1. /\ queue' \in Seq(S) /\ DOMAIN queue' = DOMAIN queue \union {Len(queue) + 1}
        /\ queue'[Len(queue) + 1] = open /\ \A i \in DOMAIN queue : queue'[i] = queue[i]
    BY <1>2, <1>5
  <2>2. {queue'[i] : i \in DOMAIN queue'} = {queue[i] : i \in DOMAIN queue} \union {open}
    BY <2>1
  <2> QED
    BY <1>1, <1>5, <2>1, <2>2 DEF Past
<1> QED
  BY <1>3, <1>4, <1>5

\* What is asked does not mind what happens to the open stretch, or that rows come.
LEMMA AnswerStays ==
  ASSUME AnswerInv, logAsking' = logAsking, table \subseteq table'
  PROVE  AnswerInv'
BY DEF AnswerInv, LG!Meets, Apart

LEMMA LogClockMoves ==
  ASSUME LogInv, LG!Tick \/ LG!SetBack \/ LG!CloseQueue \/ LG!JoinWriter
  PROVE  LogInv'
<1>1. /\ open' = open /\ queue' = queue /\ table' = table /\ logMade' = logMade /\ early' = early
      /\ lost' = lost /\ logAsking' = logAsking
      /\ logClock' \in Nat
      /\ \/ phase' = phase
         \/ phase = "api" /\ phase' = "draining"
         \/ phase = "draining" /\ phase' = "off" /\ queue = <<>>
  BY DEF LogInv, LogShape, LG!Tick, LG!SetBack, LG!CloseQueue, LG!JoinWriter, LG!Log, LG!Clock, LG!Marks
<1>2. LogShape'
  BY <1>1 DEF LogInv, LogShape
<1>3. Past' = Past
  BY <1>1 DEF Past
<1>4. ToldInv'
  BY <1>1, <1>3 DEF LogInv, ToldInv, Plausible, Apart
<1>5. AnswerInv'
  BY <1>1, AnswerStays DEF LogInv
<1> QED
  BY <1>2, <1>4, <1>5 DEF LogInv

\* A command begins a stretch, or makes the open one longer.
LEMMA LogRegisters ==
  ASSUME LogInv, LG!Register
  PROVE  LogInv'
<1>1. /\ phase' = phase /\ table' = table /\ logClock' = logClock /\ logAsking' = logAsking
      /\ phase # "off" /\ logMade' = logMade + 1
      /\ early' = IF phase = "running" THEN logMade + 1 ELSE early
  BY DEF LG!Register, LG!Clock, LG!Running
<1>2. /\ logMade \in Nat /\ logMade' \in Nat /\ early \in 0 .. logMade /\ early' \in 0 .. logMade'
      /\ logClock \in Nat /\ Longest \in Nat
      /\ phase \in {"running", "api", "draining", "off"}
      /\ phase = "running" => early = logMade /\ early' = logMade + 1
      /\ phase # "running" => early' = early
  BY <1>1, InteractionsAssumption DEF LogInv, LogShape, LG!InteractionsAssumption
<1>3. PICK b : /\ b = LG!Begun /\ b \in AStretch /\ b.commands = {logMade + 1}
               /\ b.start = logClock /\ b.end = logClock
  <2>1. PICK b : b = LG!Begun
    OBVIOUS
  <2>2. b = [start |-> logClock, end |-> logClock, commands |-> {logMade + 1}]
    BY <2>1 DEF LG!Begun
  <2>3. logMade + 1 \in Nat
    BY <1>2
  <2>4. {logMade + 1} \in SUBSET Nat
    BY <2>3
  <2>5. b \in AStretch
    BY <1>2, <2>2, <2>4 DEF AStretch
  <2> QED
    BY <2>1, <2>2, <2>5
<1>4. Nil \notin AStretch
  BY InteractionsAssumption DEF LG!InteractionsAssumption, AStretch
<1>5. ASSUME NEW s, Plausible(s)
      PROVE  Plausible(s)' /\ logMade + 1 \notin s.commands
  BY <1>1, <1>2, <1>5 DEF Plausible
<1>6. Plausible(b)'
  BY <1>1, <1>2, <1>3 DEF Plausible
<1>7. AnswerInv'
  BY <1>1, AnswerStays DEF LogInv
<1>8. CASE open # Nil /\ LG!Stale(open)
  <2>1. LG!Shut(open) /\ open' = b
    BY <1>3, <1>8 DEF LG!Register
  <2>2. /\ queue' \in Seq(AStretch)
        /\ \/ lost' = lost /\ Past' = Past \union {open}
           \/ lost' = lost /\ Past' = Past /\ phase \in {"draining", "off"}
           \/ lost' = lost \union open.commands /\ Past' = Past
    BY <1>1, <1>8, <2>1, Shutting
  <2>3. LogShape'
    BY <1>1, <1>2, <1>3, <2>1, <2>2 DEF LogInv, LogShape
  <2>4. \A s \in Past' : /\ Plausible(s) /\ Plausible(s)' /\ logMade + 1 \notin s.commands
                         /\ \A t \in Past' : s = t \/ Apart(s, t)
    BY <1>5, <1>8, <2>2 DEF LogInv, ToldInv, Apart
  <2>5. \A s \in Past' : Apart(s, open')
    BY <1>3, <2>1, <2>4 DEF Apart
  <2>6. phase # "running" => \A c \in open'.commands : c > early'
    BY <1>2, <1>3, <2>1
  <2>7. ASSUME NEW c \in (1 .. early') \ lost'
        PROVE  (\E s \in Past' : c \in s.commands) \/ c \in open'.commands
    <3>1. CASE c \in 1 .. early
      <4>1. c \notin lost
        BY <2>2, <2>7
      <4>2. (\E s \in Past : c \in s.commands) \/ c \in open.commands
        BY <3>1, <4>1 DEF LogInv, ToldInv
      <4>3. CASE \E s \in Past : c \in s.commands
        BY <2>2, <4>3
      <4>4. CASE c \in open.commands
        <5>1. phase = "running" \/ c > early
          BY <1>8, <4>4 DEF LogInv, ToldInv
        <5>2. phase = "running"
          BY <1>2, <3>1, <5>1
        <5> QED
          BY <2>2, <2>7, <4>4, <5>2
      <4> QED
        BY <4>2, <4>3, <4>4
    <3>2. CASE c \notin 1 .. early
      <4>1. c = logMade + 1
        BY <1>2, <2>7, <3>2
      <4> QED
        BY <1>3, <2>1, <4>1
    <3> QED
      BY <3>1, <3>2
  <2>8. open' # Nil
    BY <1>3, <1>4, <2>1
  <2>9. ToldInv'
    <3>1. (\A s \in Past : Plausible(s) /\ \A t \in Past : s = t \/ Apart(s, t))'
      BY <2>4 DEF Apart
    <3>2. (open # Nil => Plausible(open) /\ \A s \in Past : Apart(s, open))'
      BY <1>6, <2>1, <2>5 DEF Apart, Plausible
    <3>3. (phase # "running" /\ open # Nil => \A c \in open.commands : c > early)'
      BY <1>1, <2>6
    <3>4. (\A c \in (1 .. early) \ lost :
             (\E s \in Past : c \in s.commands) \/ (open # Nil /\ c \in open.commands))'
      BY <2>7, <2>8
    <3> QED
      BY <3>1, <3>2, <3>3, <3>4 DEF ToldInv
  <2> QED
    BY <1>7, <2>3, <2>9 DEF LogInv
<1>9. CASE ~(open # Nil /\ LG!Stale(open))
  <2>1. PICK o : /\ open' = o /\ queue' = queue /\ lost' = lost
                 /\ o = IF open = Nil THEN b
                        ELSE [open EXCEPT !.end = LG!LaterOf(@, LG!LaterOf(logClock, open.start)),
                                          !.commands = @ \union {logMade + 1}]
    BY <1>3, <1>9 DEF LG!Register
  <2>2. /\ o \in AStretch
        /\ o.commands = IF open = Nil THEN {logMade + 1} ELSE open.commands \union {logMade + 1}
        /\ Plausible(o)'
    <3>1. CASE open = Nil
      BY <1>3, <1>6, <2>1, <3>1 DEF Plausible
    <3>2. CASE open # Nil
      <4>1. open \in AStretch /\ Plausible(open)
        BY <3>2 DEF LogInv, LogShape, ToldInv
      <4>2. PICK a, e, m : a = open.start /\ e = open.end /\ m = LG!LaterOf(e, LG!LaterOf(logClock, a))
        OBVIOUS
      <4>3. a \in Nat /\ e \in Nat /\ a <= e /\ e <= a + Longest /\ open.commands \subseteq Nat
        BY <4>1, <4>2 DEF AStretch, Plausible
      <4>4. ~(logClock - a > Longest)
        BY <1>9, <3>2, <4>2 DEF LG!Stale
      <4>5. m \in Nat /\ a <= m /\ m <= a + Longest
        BY <1>2, <4>2, <4>3, <4>4 DEF LG!LaterOf
      <4>6. o = [open EXCEPT !.end = m, !.commands = open.commands \union {logMade + 1}]
        BY <2>1, <3>2, <4>2
      <4>7. /\ o \in AStretch /\ o.start = a /\ o.end = m
            /\ o.commands = open.commands \union {logMade + 1}
        <5>1. o = [start |-> a, end |-> m, commands |-> open.commands \union {logMade + 1}]
          BY <4>1, <4>2, <4>6 DEF AStretch
        <5> QED
          BY <1>2, <4>3, <4>5, <5>1 DEF AStretch
      <4>8. \A c \in o.commands : c \in 1 .. logMade'
        BY <1>1, <1>2, <4>1, <4>7 DEF Plausible
      <4>9. Plausible(o)'
        BY <4>5, <4>7, <4>8 DEF Plausible
      <4> QED
        BY <3>2, <4>7, <4>9
    <3> QED
      BY <3>1, <3>2
  <2>3. LogShape'
    BY <1>1, <1>2, <2>1, <2>2 DEF LogInv, LogShape
  <2>4. Past' = Past
    BY <1>1, <2>1 DEF Past
  <2>5. \A s \in Past : Plausible(s)' /\ logMade + 1 \notin s.commands /\ \A t \in Past : s = t \/ Apart(s, t)
    BY <1>5 DEF LogInv, ToldInv
  <2>6. \A s \in Past : Apart(s, o)
    <3>1. \A s \in Past : open # Nil => Apart(s, open)
      BY DEF LogInv, ToldInv
    <3> QED
      BY <2>2, <2>5, <3>1 DEF Apart
  <2>7. phase # "running" => \A c \in o.commands : c > early'
    <3>1. phase # "running" /\ open # Nil => \A c \in open.commands : c > early
      BY DEF LogInv, ToldInv
    <3>2. phase # "running" => logMade + 1 > early'
      BY <1>2
    <3> QED
      BY <1>2, <2>2, <3>1, <3>2
  <2>8. ASSUME NEW c \in (1 .. early') \ lost
        PROVE  (\E s \in Past : c \in s.commands) \/ c \in o.commands
    <3>1. CASE c \in 1 .. early
      <4>1. (\E s \in Past : c \in s.commands) \/ (open # Nil /\ c \in open.commands)
        BY <2>8, <3>1 DEF LogInv, ToldInv
      <4> QED
        BY <2>2, <4>1
    <3>2. CASE c \notin 1 .. early
      <4>1. c = logMade + 1
        BY <1>2, <2>8, <3>2
      <4> QED
        BY <2>2, <4>1
    <3> QED
      BY <3>1, <3>2
  <2>9. o # Nil
    BY <1>4, <2>2
  <2>10. ToldInv'
    BY <1>1, <2>1, <2>2, <2>4, <2>5, <2>6, <2>7, <2>8, <2>9 DEF ToldInv, Apart, Plausible
  <2> QED
    BY <1>7, <2>3, <2>10 DEF LogInv
<1> QED
  BY <1>8, <1>9

\* The open stretch is closed by the sweep, or at the end.
LEMMA LogCloses ==
  ASSUME LogInv, LG!Sweep \/ LG!CloseAll
  PROVE  LogInv'
<1>1. /\ phase = "running" /\ phase' \in {"running", "api"} /\ open' = Nil
      /\ table' = table /\ logClock' = logClock /\ logMade' = logMade /\ early' = early
      /\ logAsking' = logAsking
      /\ (open # Nil /\ LG!Shut(open)) \/ (open = Nil /\ queue' = queue /\ lost' = lost)
  BY DEF LG!Sweep, LG!CloseAll, LG!Clock
<1>2. /\ queue' \in Seq(AStretch)
      /\ \/ lost' = lost /\ Past' = Past \union {open} /\ open # Nil
         \/ lost' = lost \union open.commands /\ Past' = Past /\ open # Nil
         \/ lost' = lost /\ Past' = Past /\ open = Nil
  <2>1. CASE open # Nil /\ LG!Shut(open)
    BY <1>1, <2>1, Shutting
  <2>2. CASE open = Nil /\ queue' = queue /\ lost' = lost
    BY <1>1, <2>2 DEF LogInv, LogShape, Past
  <2> QED
    BY <1>1, <2>1, <2>2
<1>3. LogShape'
  BY <1>1, <1>2 DEF LogInv, LogShape
<1>4. \A s \in Past' : Plausible(s) /\ \A t \in Past' : s = t \/ Apart(s, t)
  BY <1>2 DEF LogInv, ToldInv, Apart
<1>5. ASSUME NEW c \in (1 .. early) \ lost'
      PROVE  \E s \in Past' : c \in s.commands
  <2>1. c \notin lost
    BY <1>2, <1>5
  <2>2. (\E s \in Past : c \in s.commands) \/ (open # Nil /\ c \in open.commands)
    BY <1>5, <2>1 DEF LogInv, ToldInv
  <2> QED
    BY <1>2, <1>5, <2>2
<1>6. ToldInv'
  BY <1>1, <1>4, <1>5 DEF ToldInv, Plausible, Apart
<1>7. AnswerInv'
  BY <1>1, AnswerStays DEF LogInv
<1> QED
  BY <1>3, <1>6, <1>7 DEF LogInv

LEMMA LogWrites ==
  ASSUME LogInv, LG!WriteRow
  PROVE  LogInv'
<1>1. PICK row : row = Head(queue)
  OBVIOUS
<1>2. /\ queue # <<>> /\ queue' = Tail(queue) /\ open' = open /\ phase' = phase /\ phase # "off"
      /\ logClock' = logClock /\ logMade' = logMade /\ early' = early /\ logAsking' = logAsking
      /\ \/ table' = table \union {row} /\ lost' = lost
         \/ table' = table /\ lost' = lost \union row.commands
  BY <1>1 DEF LG!WriteRow, LG!Clock, LG!Running
<1>3. PICK S : S = AStretch
  OBVIOUS
<1>4. queue \in Seq(S)
  BY <1>3 DEF LogInv, LogShape
<1>5. /\ queue' \in Seq(S) /\ row \in S /\ 1 \in DOMAIN queue /\ row = queue[1]
      /\ \A i \in DOMAIN queue' : i + 1 \in DOMAIN queue /\ queue'[i] = queue[i + 1]
      /\ \A i \in DOMAIN queue : i # 1 => i - 1 \in DOMAIN queue' /\ queue'[i - 1] = queue[i]
  BY <1>1, <1>2, <1>4
<1>6. {queue[i] : i \in DOMAIN queue} = {queue'[i] : i \in DOMAIN queue'} \union {row}
  <2>1. ASSUME NEW i \in DOMAIN queue
        PROVE  queue[i] \in {queue'[j] : j \in DOMAIN queue'} \union {row}
    BY <1>5
  <2>2. ASSUME NEW i \in DOMAIN queue'
        PROVE  queue'[i] \in {queue[j] : j \in DOMAIN queue}
    BY <1>5
  <2>3. row \in {queue[i] : i \in DOMAIN queue}
    BY <1>5
  <2> QED
    BY <2>1, <2>2, <2>3
<1>7. /\ Past' \subseteq Past /\ Past \subseteq Past' \union {row}
      /\ Past' = Past \/ lost' = lost \union row.commands
  BY <1>2, <1>6 DEF Past
<1>8. LogShape'
  <2>1. IsFiniteSet(table')
    BY <1>2, FS_AddElement DEF LogInv, LogShape
  <2> QED
    BY <1>2, <1>3, <1>5, <2>1 DEF LogInv, LogShape
<1>9. ASSUME NEW c \in (1 .. early) \ lost'
      PROVE  (\E s \in Past' : c \in s.commands) \/ (open # Nil /\ c \in open.commands)
  <2>1. c \notin lost
    BY <1>2, <1>9
  <2>2. (\E s \in Past : c \in s.commands) \/ (open # Nil /\ c \in open.commands)
    BY <1>9, <2>1 DEF LogInv, ToldInv
  <2> QED
    BY <1>7, <1>9, <2>2
<1>10. ToldInv'
  <2>1. \A s \in Past' : Plausible(s) /\ \A t \in Past' : s = t \/ Apart(s, t)
    BY <1>7 DEF LogInv, ToldInv
  <2>2. open # Nil => Plausible(open) /\ \A s \in Past' : Apart(s, open)
    BY <1>7 DEF LogInv, ToldInv
  <2>3. phase # "running" /\ open # Nil => \A c \in open.commands : c > early
    BY DEF LogInv, ToldInv
  <2> QED
    BY <1>2, <1>9, <2>1, <2>2, <2>3 DEF ToldInv, Plausible, Apart
<1>11. AnswerInv'
  BY <1>2, AnswerStays DEF LogInv
<1> QED
  BY <1>8, <1>10, <1>11 DEF LogInv

LEMMA LogCounts ==
  ASSUME NEW S
  PROVE  LG!Cardinality(S) = Cardinality(S)
BY Zenon DEF LG!Cardinality, Cardinality

\* The first half of a question: the rows there are, in the order of their starts.
LEMMA AsksTable ==
  ASSUME LogInv, NEW from \in 0 .. MaxClock + 1, NEW to \in 0 .. MaxClock + 1, LG!AskTable(from, to)
  PROVE  LogInv'
<1>1. PICK rows : rows = {r \in table : r.start >= from - Longest /\ LG!Meets(r, from, to)}
  OBVIOUS
<1>2. PICK order \in [1 .. LG!Cardinality(rows) -> rows] :
        /\ \A r \in rows : \E i \in DOMAIN order : order[i] = r
        /\ logAsking' = [at |-> "table", from |-> from, to |-> to,
                         answers |-> logAsking.answers + 1, before |-> table, found |-> order]
  BY <1>1 DEF LG!AskTable
<1>3. /\ phase' = phase /\ open' = open /\ queue' = queue /\ table' = table /\ lost' = lost
      /\ logClock' = logClock /\ logMade' = logMade /\ early' = early
  BY DEF LG!AskTable, LG!Clock, LG!Marks
<1>4. /\ IsFiniteSet(rows) /\ Cardinality(rows) \in Nat
      /\ order \in [1 .. Cardinality(rows) -> rows] /\ DOMAIN order = 1 .. Cardinality(rows)
  <2>1. rows \subseteq table /\ IsFiniteSet(table)
    BY <1>1 DEF LogInv, LogShape
  <2>2. IsFiniteSet(rows) /\ Cardinality(rows) \in Nat
    BY <2>1, FS_Subset, FS_CardinalityType
  <2> QED
    BY <1>2, <2>2, LogCounts
<1>5. \A i, j \in DOMAIN order : i # j => order[i] # order[j]
  <2>1. IsFiniteSet(1 .. Cardinality(rows)) /\ Cardinality(1 .. Cardinality(rows)) = Cardinality(rows)
    BY <1>4, FS_Interval
  <2>2. order \in Surjection(1 .. Cardinality(rows), rows)
    BY <1>2, <1>4 DEF Surjection
  <2>3. order \in Injection(1 .. Cardinality(rows), rows)
    BY <2>1, <2>2, FS_SurjSameCardinalityImpliesInj
  <2> QED
    BY <1>4, <2>3 DEF Injection, IsInjective
<1>6. order \in Seq(AStretch)
  <2>1. rows \subseteq AStretch
    BY <1>1 DEF LogInv, LogShape
  <2>2. PICK S : S = AStretch
    OBVIOUS
  <2>3. order \in [1 .. Cardinality(rows) -> S]
    BY <1>4, <2>1, <2>2
  <2>4. order \in Seq(S)
    BY <1>4, <2>3
  <2> QED
    BY <2>2, <2>4
<1>7. ASSUME NEW r \in table, LG!Meets(r, from, to)
      PROVE  \E i \in DOMAIN order : order[i] = r
  <2>1. r \in AStretch /\ Plausible(r)
    BY <1>7 DEF LogInv, LogShape, ToldInv, Past
  <2>2. r.start \in Nat /\ r.end \in Nat /\ r.end <= r.start + Longest /\ r.end >= from
        /\ from \in Int /\ Longest \in Nat
    BY <1>7, <2>1, InteractionsAssumption DEF AStretch, Plausible, LG!Meets, LG!InteractionsAssumption
  <2>3. r.start >= from - Longest
    BY <2>2
  <2> QED
    BY <1>1, <1>2, <1>7, <2>3
<1>8. LogShape' /\ ToldInv'
  BY <1>3 DEF LogInv, LogShape, ToldInv, Past, Plausible, Apart
<1>9. AnswerInv'
  <2>1. /\ logAsking'.at = "table" /\ logAsking'.from = from /\ logAsking'.to = to
        /\ logAsking'.before = table /\ logAsking'.found = order
        /\ {"at", "from", "to", "answers", "before", "found"} \subseteq DOMAIN logAsking'
    BY <1>2
  <2>2. \A i \in DOMAIN order : order[i] \in table
    BY <1>1, <1>4
  <2>3. LG!Meets(0, 0, 0)' = LG!Meets(0, 0, 0)
    BY DEF LG!Meets
  <2> QED
    BY <1>3, <1>5, <1>6, <1>7, <2>1, <2>2 DEF AnswerInv, LG!Meets
<1> QED
  BY <1>8, <1>9 DEF LogInv

\* The second half: the stretch that is open now goes after them.
LEMMA AsksOpen ==
  ASSUME LogInv, LG!AskOpen
  PROVE  LogInv'
<1>1. PICK rows, told : /\ rows = logAsking.found /\ logAsking.at = "table"
                        /\ logAsking' = [logAsking EXCEPT !.at = "answered", !.found = told]
                        /\ told = rows \/ (open # Nil /\ told = Append(rows, open))
  <2>1. PICK rows : rows = logAsking.found
    OBVIOUS
  <2>2. logAsking.at = "table"
        /\ logAsking' = [logAsking EXCEPT !.at = "answered",
             !.found = IF open # Nil /\ LG!Meets(open, logAsking.from, logAsking.to)
                       THEN Append(rows, open) ELSE rows]
    BY <2>1 DEF LG!AskOpen
  <2>3. CASE open # Nil /\ LG!Meets(open, logAsking.from, logAsking.to)
    BY <2>1, <2>2, <2>3
  <2>4. CASE ~(open # Nil /\ LG!Meets(open, logAsking.from, logAsking.to))
    BY <2>1, <2>2, <2>4
  <2> QED
    BY <2>3, <2>4
<1>2. /\ phase' = phase /\ open' = open /\ queue' = queue /\ table' = table /\ lost' = lost
      /\ logClock' = logClock /\ logMade' = logMade /\ early' = early
  BY DEF LG!AskOpen, LG!Clock, LG!Log, LG!Marks
<1>3. LogShape' /\ ToldInv'
  BY <1>2 DEF LogInv, LogShape, ToldInv, Past, Plausible, Apart
<1>4. PICK S : S = AStretch
  OBVIOUS
<1>5. /\ rows \in Seq(S) /\ (open # Nil => open \in S)
      /\ \A i, j \in DOMAIN rows : rows[i] \in logAsking.before /\ (i # j => rows[i] # rows[j])
      /\ logAsking.before \subseteq table
  BY <1>1, <1>4 DEF LogInv, LogShape, AnswerInv
<1>6. \A i, j \in DOMAIN rows : i # j => Apart(rows[i], rows[j])
  BY <1>5 DEF LogInv, ToldInv, Past
<1>7. open # Nil => \A i \in DOMAIN rows : Apart(rows[i], open) /\ Apart(open, rows[i])
  BY <1>5 DEF LogInv, ToldInv, Past, Apart
<1>8. /\ told \in Seq(S) /\ DOMAIN rows \subseteq DOMAIN told
      /\ \A i \in DOMAIN rows : told[i] = rows[i]
      /\ \A i, j \in DOMAIN told : i # j => Apart(told[i], told[j])
  <2>1. CASE told = rows
    BY <1>5, <1>6, <2>1
  <2>2. CASE open # Nil /\ told = Append(rows, open)
    <3>1. /\ told \in Seq(S) /\ DOMAIN told = DOMAIN rows \union {Len(rows) + 1}
          /\ told[Len(rows) + 1] = open /\ \A i \in DOMAIN rows : told[i] = rows[i]
      BY <1>5, <2>2
    <3> QED
      BY <1>6, <1>7, <2>2, <3>1
  <2> QED
    BY <1>1, <2>1, <2>2
<1>9. /\ logAsking'.at = "answered" /\ logAsking'.found = told
      /\ logAsking'.from = logAsking.from /\ logAsking'.to = logAsking.to
      /\ logAsking'.before = logAsking.before
      /\ {"at", "from", "to", "answers", "before", "found"} \subseteq DOMAIN logAsking'
  BY <1>1 DEF LogInv, AnswerInv
<1>10. \A r \in logAsking.before : LG!Meets(r, logAsking.from, logAsking.to) =>
         \E i \in DOMAIN told : told[i] = r
  <2>1. \A r \in logAsking.before : LG!Meets(r, logAsking.from, logAsking.to) =>
          \E i \in DOMAIN rows : rows[i] = r
    BY <1>1 DEF LogInv, AnswerInv
  <2> QED
    BY <1>8, <2>1
<1>11. AnswerInv'
  BY <1>2, <1>4, <1>5, <1>8, <1>9, <1>10 DEF AnswerInv, LG!Meets, Apart
<1> QED
  BY <1>3, <1>11 DEF LogInv

\* However commands, the sweep, the writer of the database and the end of the
\* server interleave, clock set back and writes failing: a command made before
\* the server began to close is told by exactly one stretch, by one in the table
\* in the end, and an answer tells no stretch twice and leaves out no row.
THEOREM EachIsToldOnce == Spec => []InteractionsSafe
<1>1. Init => LogInv
  BY LogStarts
<1>2. LogInv /\ [Next]_vars => LogInv'
  <2> SUFFICES ASSUME LogInv, [Next]_vars
               PROVE  LogInv'
    OBVIOUS
  <2>1. CASE LGStep
    BY <2>1, LogClockMoves, LogRegisters, LogCloses, LogWrites, AsksTable, AsksOpen DEF LGStep, LG!LogNext
  <2>2. CASE logVars' = logVars
    BY <2>2 DEF logVars, LogInv, LogShape, ToldInv, AnswerInv, Past, Plausible, Apart, LG!Meets
  <2> QED
    BY <2>1, <2>2 DEF Next, vars, ICStep, RTStep, MAStep, THStep, TLStep, SEStep, ANStep
<1>3. LogInv => InteractionsSafe
  <2> SUFFICES ASSUME LogInv PROVE LG!EachCommandOnce /\ LG!AnswerTells
    BY DEF InteractionsSafe
  <2>1. ASSUME NEW c \in (1 .. early) \ lost
        PROVE  /\ LG!Cardinality({s \in LG!Stretches : c \in s.commands}) = 1
               /\ phase = "off" => \E r \in table : c \in r.commands
    <3>1. PICK telling : telling = {s \in LG!Stretches : c \in s.commands}
      OBVIOUS
    <3>2. LG!Stretches = Past \union (IF open = Nil THEN {} ELSE {open})
      BY DEF LG!Stretches, Past
    <3>3. \A s, t \in telling : s = t
      BY <3>1, <3>2 DEF LogInv, ToldInv, Apart
    <3>4. PICK s : s \in telling
      BY <3>1, <3>2, <2>1 DEF LogInv, ToldInv
    <3>5. telling = {s}
      BY <3>3, <3>4
    <3>6. Cardinality(telling) = 1
      BY <3>5, FS_Singleton
    <3>7. ASSUME phase = "off"
          PROVE  \E r \in table : c \in r.commands
      <4>1. Past = table
        <5>1. DOMAIN queue = {}
          BY <3>7 DEF LogInv, LogShape
        <5> QED
          BY <5>1 DEF Past
      <4>2. open # Nil => c \notin open.commands
        <5>1. open # Nil => \A d \in open.commands : d > early
          BY <3>7 DEF LogInv, ToldInv
        <5>2. ~(c > early)
          BY <2>1 DEF LogInv, LogShape
        <5> QED
          BY <5>1, <5>2
      <4> QED
        BY <2>1, <4>1, <4>2 DEF LogInv, ToldInv
    <3> QED
      BY <3>1, <3>6, <3>7, LogCounts
  <2>2. LG!EachCommandOnce
    BY <2>1 DEF LG!EachCommandOnce
  <2>3. LG!AnswerTells
    BY DEF LogInv, AnswerInv, LG!AnswerTells, Apart
  <2> QED
    BY <2>2, <2>3
<1> QED
  BY <1>1, <1>2, <1>3, PTL DEF Spec

-----------------------------------------------------------------------------
(* Settings: the last tuning wins, and an import is marked when whole *)

\* What a request of the page holds at each place of its way.
Posting(r) ==
  /\ "at" \in DOMAIN posts[r]
  /\ SE!At(r, "put") =>
       /\ {"keys", "v", "tunes"} \subseteq DOMAIN posts[r]
       /\ posts[r].keys \subseteq Keys /\ posts[r].v \in Values /\ posts[r].tunes \in BOOLEAN
  /\ SE!At(r, "apply") => "cfg" \in DOMAIN posts[r] /\ posts[r].cfg \in Values /\ hook = r

\* A worker, where there is one.
Working(c) ==
  works[c] # Nil =>
    /\ {"cfg", "next", "told"} \subseteq DOMAIN works[c]
    /\ works[c].next \in Values \cup {Nil}

SettingShape ==
  /\ SE!SettingTypeOK
  /\ DOMAIN posts = Threads /\ \A r \in Threads : Posting(r)
  /\ DOMAIN works = Registers /\ \A c \in Registers : Working(c)
  /\ "at" \in DOMAIN main
  /\ ~SE!Up => hook = Nil /\ ~unheard /\ \A r \in Threads : SE!At(r, "idle")

\* The first n keys and cameras of the json are in the tables; the camera at n + 1
\* may be the same as one of them, half written again.
KeysDone(n) == \A j \in 1 .. n : set[JsonOrder[j]] = SE!FromJson(JsonOrder[j])
CamerasDone(n) ==
  \A j \in 1 .. n :
    \/ settingRows[JsonCams[j]] = "whole"
    \/ n < Len(JsonCams) /\ JsonCams[n + 1] = JsonCams[j]

\* What each place of the start has already done.
Starting ==
  /\ main.at = "schema" => "i" \in DOMAIN main /\ main.i \in Nat
  /\ main.at \notin {"schema", "refused"} => set \in [Keys -> Values]
  /\ main.at = "keys" =>
       "i" \in DOMAIN main /\ main.i \in 1 .. Len(JsonOrder) + 1 /\ KeysDone(main.i - 1)
  /\ main.at = "cams" =>
       /\ "i" \in DOMAIN main /\ main.i \in 1 .. Len(JsonCams) + 1
       /\ KeysDone(Len(JsonOrder)) /\ CamerasDone(main.i - 1)
  /\ main.at = "rig" =>
       {"on", "tune", "cams"} \subseteq DOMAIN main /\ main.tune = SE!LoadTuning

\* A tuning was written, and the hook not told of it yet.
Untold == unheard \/ \E r \in Threads : SE!At(r, "put") /\ posts[r].tunes

\* Once the hook read what is saved, it gives it to every worker.
Telling ==
  SE!Up /\ ~Untold =>
    /\ \A r \in Threads : SE!At(r, "apply") => posts[r].cfg = SE!LoadTuning
    /\ (\A r \in Threads : ~SE!At(r, "apply")) =>
         \A c \in Registers : works[c] # Nil /\ works[c].told => SE!Given(works[c]) = SE!LoadTuning

SettingInv == SettingShape /\ Starting /\ Telling

LEMMA SettingFacts ==
  /\ Values \subseteq Nat /\ LeastTuning \in Values /\ Nil \notin Values /\ Nil \notin Threads
  /\ {"enabled", "tune"} \subseteq Keys
  /\ \A k \in Keys : SE!FromJson(k) \in Values /\ Json[k] \in Values /\ Defaults[k] \in Values
  /\ \A v \in Values : SE!Clamped(v) \in Values
  /\ set \in [Keys -> Values] => SE!LoadTuning \in Values
  /\ Len(JsonOrder) \in Nat /\ Len(JsonCams) \in Nat /\ Tables \in Nat
  /\ \A k \in Keys : \E i \in 1 .. Len(JsonOrder) : JsonOrder[i] = k
  /\ \A i \in 1 .. Len(JsonOrder) : JsonOrder[i] \in Keys
  /\ \A i \in 1 .. Len(JsonCams) : JsonCams[i] \in Registers
<1>1. /\ {"enabled", "tune"} \subseteq Keys /\ Nil \notin Nat \cup Threads
      /\ Values \subseteq Nat /\ LeastTuning \in Values
      /\ Json \in [Keys -> Values] /\ Defaults \in [Keys -> Values]
      /\ JsonOrder \in Seq(Keys) /\ JsonCams \in Seq(Registers) /\ Tables \in Nat
      /\ {JsonOrder[i] : i \in DOMAIN JsonOrder} = Keys
  BY SettingsAssumption DEF SE!SettingsAssumption
<1>2. \A v \in Values : SE!Clamped(v) \in Values
  BY <1>1 DEF SE!Clamped
<1>3. \A k \in Keys : SE!FromJson(k) \in Values /\ Json[k] \in Values /\ Defaults[k] \in Values
  BY <1>1, <1>2 DEF SE!FromJson
<1>4. set \in [Keys -> Values] => SE!LoadTuning \in Values
  BY <1>1, <1>2 DEF SE!LoadTuning
<1>5. DOMAIN JsonOrder = 1 .. Len(JsonOrder)
  BY <1>1
<1>6. \A k \in Keys : \E i \in 1 .. Len(JsonOrder) : JsonOrder[i] = k
  <2> SUFFICES ASSUME NEW k \in Keys
               PROVE  \E i \in 1 .. Len(JsonOrder) : JsonOrder[i] = k
    OBVIOUS
  <2>1. k \in {JsonOrder[i] : i \in DOMAIN JsonOrder}
    BY <1>1
  <2> QED
    BY <1>5, <2>1
<1>7. /\ Len(JsonOrder) \in Nat /\ \A i \in 1 .. Len(JsonOrder) : JsonOrder[i] \in Keys
      /\ Len(JsonCams) \in Nat /\ \A i \in 1 .. Len(JsonCams) : JsonCams[i] \in Registers
  BY <1>1
<1>8. Nil \notin Values /\ Nil \notin Threads
  BY <1>1
<1> QED
  BY <1>1, <1>2, <1>3, <1>4, <1>6, <1>7, <1>8

LEMMA SettingStarts == Init => SettingInv
<1> SUFFICES ASSUME Init PROVE SettingInv
  OBVIOUS
<1>1. /\ settingMade = 0 /\ seeded = FALSE /\ set = [k \in Keys |-> Nil]
      /\ settingRows = [c \in Registers |-> "none"] /\ imported = FALSE
      /\ main = [at |-> "schema", i |-> 0] /\ boot = Nil /\ works = [c \in Registers |-> Nil]
      /\ hook = Nil /\ posts = [r \in Threads |-> [at |-> "idle"]] /\ unheard = FALSE
  BY DEF Init, SE!SettingInit, SE!Idle, SE!NoWorkers
<1>2. SE!SettingTypeOK
  <2>1. settingMade \in 0 .. Tables
    BY <1>1, SettingFacts
  <2> QED
    BY <1>1, <2>1 DEF SE!SettingTypeOK
<1>3. \A r \in Threads : Posting(r) /\ SE!At(r, "idle")
  BY <1>1 DEF Posting, SE!At
<1>4. SettingShape
  BY <1>1, <1>2, <1>3 DEF SettingShape, Working
<1>5. Starting /\ Telling
  BY <1>1 DEF Starting, Telling, SE!Up
<1> QED
  BY <1>4, <1>5 DEF SettingInv

\* Before the server is up nobody asks it anything, and nothing is to be told.
LEMMA BeforeUp ==
  ASSUME SettingInv, UNCHANGED <<boot, works, hook, posts, unheard>>, ~SE!Up, ~SE!Up',
         SE!SettingTypeOK', "at" \in DOMAIN main', Starting'
  PROVE  SettingInv'
<1>1. SettingShape'
  BY DEF SettingInv, SettingShape, Posting, Working, SE!At
<1>2. Telling'
  BY DEF Telling
<1> QED
  BY <1>1, <1>2 DEF SettingInv

LEMMA SchemaIsMade ==
  ASSUME SettingInv, SE!MakeTable \/ SE!Seed \/ SE!ImportOrNot
  PROVE  SettingInv'
<1>1. /\ UNCHANGED <<boot, works, hook, posts, unheard, settingRows, imported>>
      /\ main.at \in {"schema", "asks"}
  BY DEF SE!MakeTable, SE!Seed, SE!ImportOrNot, SE!process, SE!database
<1>2. ~SE!Up
  BY <1>1 DEF SE!Up
<1>3. SE!SettingTypeOK /\ Starting /\ "at" \in DOMAIN main
  BY DEF SettingInv, SettingShape
<1>4. CASE SE!MakeTable
  <2>1. /\ seeded' = seeded /\ set' = set
        /\ \/ main' = [at |-> "refused"] /\ settingMade' = settingMade
           \/ /\ settingMade' = settingMade + 1 /\ ~(settingMade > main.i) /\ main.i < Tables
              /\ main' = [main EXCEPT !.i = @ + 1] /\ main.at = "schema"
    BY <1>4 DEF SE!MakeTable
  <2>2. "at" \in DOMAIN main' /\ main'.at \in {"schema", "refused"}
    BY <1>3, <2>1
  <2>3. main'.at = "schema" => "i" \in DOMAIN main' /\ main'.i \in Nat
    BY <1>3, <2>1 DEF Starting
  <2>4. settingMade' \in 0 .. Tables
    <3>1. settingMade \in 0 .. Tables /\ Tables \in Nat
      BY <1>3, SettingFacts DEF SE!SettingTypeOK
    <3>2. main.at = "schema" => main.i \in Nat
      BY <1>3 DEF Starting
    <3>3. CASE settingMade' = settingMade
      BY <3>1, <3>3
    <3>4. CASE /\ settingMade' = settingMade + 1 /\ ~(settingMade > main.i) /\ main.i < Tables
               /\ main.at = "schema"
      BY <3>1, <3>2, <3>4
    <3> QED
      BY <2>1, <3>3, <3>4
  <2>5. SE!SettingTypeOK'
    BY <1>1, <1>3, <2>1, <2>4 DEF SE!SettingTypeOK
  <2>6. Starting' /\ ~SE!Up'
    BY <2>2, <2>3 DEF Starting, SE!Up
  <2> QED
    BY <1>1, <1>2, <2>2, <2>5, <2>6, BeforeUp
<1>5. CASE SE!Seed
  <2>1. /\ seeded' = TRUE /\ settingMade' = settingMade /\ main' = [at |-> "asks"]
        /\ set' = [k \in Keys |-> IF set[k] = Nil THEN Defaults[k] ELSE set[k]]
    BY <1>5 DEF SE!Seed
  <2>2. set' \in [Keys -> Values]
    BY <1>3, <2>1, SettingFacts DEF SE!SettingTypeOK
  <2>3. SE!SettingTypeOK'
    BY <1>1, <1>3, <2>1, <2>2 DEF SE!SettingTypeOK
  <2>4. Starting' /\ ~SE!Up' /\ "at" \in DOMAIN main'
    BY <2>1, <2>2 DEF Starting, SE!Up
  <2> QED
    BY <1>1, <1>2, <2>3, <2>4, BeforeUp
<1>6. CASE SE!ImportOrNot
  <2>1. /\ UNCHANGED <<seeded, settingMade, set>> /\ main.at = "asks"
        /\ main' = [at |-> "load"] \/ main' = [at |-> "keys", i |-> 1]
    BY <1>6 DEF SE!ImportOrNot, SE!database
  <2>2. set' \in [Keys -> Values]
    BY <1>3, <2>1 DEF Starting
  <2>3. SE!SettingTypeOK'
    BY <1>1, <1>3, <2>1 DEF SE!SettingTypeOK
  <2>4. KeysDone(0)'
    BY DEF KeysDone
  <2>5. 1 \in 1 .. Len(JsonOrder) + 1 /\ 1 - 1 = 0
    BY SettingFacts
  <2>6. main'.at = "keys" => "i" \in DOMAIN main' /\ main'.i = 1
    BY <2>1
  <2>7. main'.at \in {"load", "keys"} /\ "at" \in DOMAIN main'
    BY <2>1
  <2>8. Starting' /\ ~SE!Up'
    BY <2>2, <2>4, <2>5, <2>6, <2>7 DEF Starting, SE!Up
  <2> QED
    BY <1>1, <1>2, <2>3, <2>7, <2>8, BeforeUp
<1> QED
  BY <1>4, <1>5, <1>6

LEMMA ImportWrites ==
  ASSUME SettingInv, SE!ImportKey \/ SE!ImportCamera
  PROVE  SettingInv'
<1>1. /\ UNCHANGED <<boot, works, hook, posts, unheard, imported, settingMade, seeded>>
      /\ main.at \in {"keys", "cams"}
  BY DEF SE!ImportKey, SE!ImportCamera, SE!process
<1>2. ~SE!Up
  BY <1>1 DEF SE!Up
<1>3. /\ SE!SettingTypeOK /\ Starting /\ "at" \in DOMAIN main /\ set \in [Keys -> Values]
      /\ "i" \in DOMAIN main
  BY <1>1 DEF SettingInv, SettingShape, Starting
<1>4. CASE SE!ImportKey /\ main.i <= Len(JsonOrder)
  <2>1. /\ settingRows' = settingRows /\ main.at = "keys"
        /\ set' = [set EXCEPT ![JsonOrder[main.i]] = SE!FromJson(JsonOrder[main.i])]
        /\ main' = [main EXCEPT !.i = @ + 1]
    BY <1>4 DEF SE!ImportKey
  <2>2. main.i \in 1 .. Len(JsonOrder) + 1 /\ KeysDone(main.i - 1)
    BY <1>3, <2>1 DEF Starting
  <2>3. /\ main.i \in 1 .. Len(JsonOrder) /\ main.i \in Nat /\ main.i + 1 \in 1 .. Len(JsonOrder) + 1
        /\ main.i + 1 - 1 = main.i
    <3>1. Len(JsonOrder) \in Nat
      BY SettingFacts
    <3> QED
      BY <1>4, <2>2, <3>1
  <2>a. PICK i : i = main.i
    OBVIOUS
  <2>4. JsonOrder[i] \in Keys /\ SE!FromJson(JsonOrder[i]) \in Values
    BY <2>3, <2>a, SettingFacts
  <2>5. set' \in [Keys -> Values]
    BY <1>3, <2>1, <2>4, <2>a
  <2>6. main'.at = "keys" /\ main'.i = i + 1 /\ {"at", "i"} \subseteq DOMAIN main'
    BY <1>3, <2>1, <2>a
  <2>7. KeysDone(i)'
    <3> SUFFICES ASSUME NEW j \in 1 .. i
                 PROVE  set'[JsonOrder[j]] = SE!FromJson(JsonOrder[j])
      BY DEF KeysDone
    <3>2. JsonOrder[j] \in Keys
      <4>1. j \in 1 .. Len(JsonOrder)
        BY <2>3, <2>a
      <4> QED
        BY <4>1, SettingFacts
    <3>3. CASE JsonOrder[j] = JsonOrder[i]
      BY <1>3, <2>1, <2>a, <3>2, <3>3
    <3>4. CASE JsonOrder[j] # JsonOrder[i]
      <4>1. j \in 1 .. main.i - 1
        BY <2>3, <2>a, <3>4
      <4>2. set[JsonOrder[j]] = SE!FromJson(JsonOrder[j])
        BY <2>2, <4>1 DEF KeysDone
      <4> QED
        BY <1>3, <2>1, <2>a, <3>2, <3>4, <4>2
    <3> QED
      BY <3>3, <3>4
  <2>8. SE!SettingTypeOK'
    BY <1>1, <1>3, <2>1, <2>5 DEF SE!SettingTypeOK
  <2>9. Starting' /\ ~SE!Up'
    <3>1. main'.i - 1 = i /\ main'.i \in 1 .. Len(JsonOrder) + 1
      BY <2>3, <2>6, <2>a
    <3>2. KeysDone(main.i - 1)'
      BY <2>7, <3>1 DEF KeysDone
    <3> QED
      BY <2>5, <2>6, <3>1, <3>2 DEF Starting, SE!Up
  <2> QED
    BY <1>1, <1>2, <2>6, <2>8, <2>9, BeforeUp
<1>5. CASE SE!ImportKey /\ ~(main.i <= Len(JsonOrder))
  <2>1. /\ settingRows' = settingRows /\ main.at = "keys" /\ set' = set
        /\ main' = [at |-> "cams", i |-> 1]
    BY <1>5 DEF SE!ImportKey
  <2>2. main.i - 1 = Len(JsonOrder) /\ KeysDone(main.i - 1)
    <3>1. main.i \in 1 .. Len(JsonOrder) + 1 /\ KeysDone(main.i - 1) /\ Len(JsonOrder) \in Nat
      BY <1>3, <2>1, SettingFacts DEF Starting
    <3> QED
      BY <1>5, <3>1
  <2>3. KeysDone(Len(JsonOrder))'
    BY <2>1, <2>2 DEF KeysDone
  <2>4. CamerasDone(0)'
    BY DEF CamerasDone
  <2>5. 1 \in 1 .. Len(JsonCams) + 1 /\ 1 - 1 = 0
    BY SettingFacts
  <2>6. SE!SettingTypeOK'
    BY <1>1, <1>3, <2>1 DEF SE!SettingTypeOK
  <2>7. main'.at = "cams" /\ main'.i = 1 /\ {"at", "i"} \subseteq DOMAIN main'
    BY <2>1
  <2>8. Starting' /\ ~SE!Up'
    BY <1>3, <2>1, <2>3, <2>4, <2>5, <2>7 DEF Starting, SE!Up
  <2> QED
    BY <1>1, <1>2, <2>6, <2>7, <2>8, BeforeUp
<1>6. CASE SE!ImportCamera
  <2>0. PICK i, c : i = main.i /\ c = JsonCams[i]
    OBVIOUS
  <2>1. /\ set' = set /\ main.at = "cams" /\ main.i <= Len(JsonCams)
        /\ \/ /\ settingRows[c] = "bare" /\ settingRows' = [settingRows EXCEPT ![c] = "whole"]
              /\ main' = [main EXCEPT !.i = @ + 1]
           \/ /\ settingRows[c] # "bare" /\ settingRows' = [settingRows EXCEPT ![c] = "bare"]
              /\ main' = main
    BY <1>6, <2>0 DEF SE!ImportCamera
  <2>2. /\ i \in 1 .. Len(JsonCams) + 1 /\ KeysDone(Len(JsonOrder)) /\ CamerasDone(i - 1)
        /\ Len(JsonCams) \in Nat
    BY <1>3, <2>0, <2>1, SettingFacts DEF Starting
  <2>3. i \in 1 .. Len(JsonCams) /\ i - 1 + 1 = i /\ i - 1 < Len(JsonCams) /\ i + 1 - 1 = i
        /\ i + 1 \in 1 .. Len(JsonCams) + 1
    BY <2>0, <2>1, <2>2
  <2>4. c \in Registers
    BY <2>0, <2>3, SettingFacts
  <2>5. settingRows \in [Registers -> {"none", "bare", "whole"}]
    BY <1>3 DEF SE!SettingTypeOK
  <2>6. settingRows' \in [Registers -> {"none", "bare", "whole"}]
    BY <2>1, <2>4, <2>5
  <2>7. SE!SettingTypeOK'
    BY <1>1, <1>3, <2>1, <2>6 DEF SE!SettingTypeOK
  <2>8. \A j \in 1 .. i - 1 : settingRows[JsonCams[j]] = "whole" \/ JsonCams[j] = c
    BY <2>0, <2>2, <2>3 DEF CamerasDone
  <2>9. \A j \in 1 .. i : JsonCams[j] \in Registers
    BY <2>3, SettingFacts
  <2>10. KeysDone(Len(JsonOrder))'
    BY <2>1, <2>2 DEF KeysDone
  <2>11. CASE settingRows[c] = "bare"
    <3>1. settingRows' = [settingRows EXCEPT ![c] = "whole"] /\ main' = [main EXCEPT !.i = @ + 1]
      BY <2>1, <2>11
    <3>2. \A j \in 1 .. i : settingRows'[JsonCams[j]] = "whole"
      <4> SUFFICES ASSUME NEW j \in 1 .. i
                   PROVE  settingRows'[JsonCams[j]] = "whole"
        OBVIOUS
      <4>1. CASE JsonCams[j] = c
        BY <2>4, <2>5, <3>1, <4>1
      <4>2. CASE JsonCams[j] # c
        <5>1. j \in 1 .. i - 1
          BY <2>0, <2>3, <4>2
        <5> QED
          BY <2>5, <2>8, <2>9, <3>1, <4>2, <5>1
      <4> QED
        BY <4>1, <4>2
    <3>3. CamerasDone(i)'
      BY <3>2 DEF CamerasDone
    <3>4. main'.at = "cams" /\ main'.i = i + 1 /\ {"at", "i"} \subseteq DOMAIN main'
      BY <1>3, <2>0, <2>1, <3>1
    <3>5. CamerasDone(main.i - 1)'
      BY <2>3, <3>3, <3>4
    <3>6. Starting' /\ ~SE!Up'
      BY <1>3, <2>1, <2>3, <2>10, <3>4, <3>5 DEF Starting, SE!Up
    <3> QED
      BY <1>1, <1>2, <2>7, <3>4, <3>6, BeforeUp
  <2>12. CASE settingRows[c] # "bare"
    <3>1. settingRows' = [settingRows EXCEPT ![c] = "bare"] /\ main' = main
      BY <2>1, <2>12
    <3>2. \A j \in 1 .. i - 1 : settingRows'[JsonCams[j]] = "whole" \/ JsonCams[j] = c
      <4>1. \A j \in 1 .. i - 1 : j \in 1 .. i
        BY <2>3
      <4> QED
        BY <2>4, <2>5, <2>8, <2>9, <3>1, <4>1
    <3>3. CamerasDone(i - 1)'
      BY <2>0, <2>3, <3>2 DEF CamerasDone
    <3>4. CamerasDone(main.i - 1)'
      BY <2>0, <3>1, <3>3
    <3>5. Starting' /\ ~SE!Up'
      BY <1>2, <1>3, <2>0, <2>1, <2>2, <2>10, <3>1, <3>4 DEF Starting, SE!Up
    <3> QED
      BY <1>1, <1>2, <1>3, <2>7, <3>1, <3>5, BeforeUp
  <2> QED
    BY <2>11, <2>12
<1> QED
  BY <1>4, <1>5, <1>6

\* The mark comes with every key and every camera in the tables.
LEMMA ImportEnds ==
  ASSUME SettingInv, SE!ImportMark \/ SE!ImportFails \/ SE!Load
  PROVE  /\ SettingInv'
         /\ ~imported /\ imported' =>
              /\ \A k \in Keys : set'[k] = SE!FromJson(k)
              /\ \A i \in DOMAIN JsonCams : settingRows'[JsonCams[i]] = "whole"
<1>1. /\ UNCHANGED <<boot, works, hook, posts, unheard, settingMade, seeded, set, settingRows>>
      /\ main.at \in {"keys", "cams", "load"}
      /\ imported' \in BOOLEAN
  BY DEF SE!ImportMark, SE!ImportFails, SE!Load, SE!process, SE!database, SettingInv, SettingShape,
         SE!SettingTypeOK
<1>2. ~SE!Up
  BY <1>1 DEF SE!Up
<1>3. SE!SettingTypeOK /\ Starting /\ "at" \in DOMAIN main /\ set \in [Keys -> Values]
  BY <1>1 DEF SettingInv, SettingShape, Starting
<1>4. SE!SettingTypeOK'
  BY <1>1, <1>3 DEF SE!SettingTypeOK
<1>5. /\ "at" \in DOMAIN main' /\ main'.at \in {"load", "rig"}
      /\ main'.at = "rig" => {"on", "tune", "cams"} \subseteq DOMAIN main' /\ main'.tune = SE!LoadTuning
  BY DEF SE!ImportMark, SE!ImportFails, SE!Load
<1>6. SE!LoadTuning' = SE!LoadTuning
  BY <1>1 DEF SE!LoadTuning, SE!Clamped
<1>7. Starting' /\ ~SE!Up'
  BY <1>1, <1>3, <1>5, <1>6 DEF Starting, SE!Up
<1>8. SettingInv'
  BY <1>1, <1>2, <1>4, <1>5, <1>7, BeforeUp
<1>9. ASSUME ~imported, imported'
      PROVE  /\ \A k \in Keys : set'[k] = SE!FromJson(k)
             /\ \A i \in DOMAIN JsonCams : settingRows'[JsonCams[i]] = "whole"
  <2>1. main.at = "cams" /\ main.i > Len(JsonCams)
    BY <1>9 DEF SE!ImportMark, SE!ImportFails, SE!Load, SE!database
  <2>2. main.i \in 1 .. Len(JsonCams) + 1 /\ KeysDone(Len(JsonOrder)) /\ CamerasDone(main.i - 1)
    BY <1>3, <2>1 DEF Starting
  <2>3. main.i - 1 = Len(JsonCams) /\ Len(JsonCams) \in Nat
    BY <2>1, <2>2, SettingFacts
  <2>4. \A i \in 1 .. Len(JsonCams) : settingRows[JsonCams[i]] = "whole"
    BY <2>2, <2>3 DEF CamerasDone
  <2>5. \A k \in Keys : set[k] = SE!FromJson(k)
    <3> SUFFICES ASSUME NEW k \in Keys
                 PROVE  set[k] = SE!FromJson(k)
      OBVIOUS
    <3>1. PICK j \in 1 .. Len(JsonOrder) : JsonOrder[j] = k
      BY SettingFacts
    <3> QED
      BY <2>2, <3>1 DEF KeysDone
  <2>6. DOMAIN JsonCams = 1 .. Len(JsonCams)
    BY SettingsAssumption DEF SE!SettingsAssumption
  <2> QED
    BY <1>1, <2>4, <2>5, <2>6
<1> QED
  BY <1>8, <1>9

LEMMA RigIsBuilt ==
  ASSUME SettingInv, SE!Rig
  PROVE  SettingInv'
<1>1. /\ UNCHANGED <<hook, posts, unheard, settingMade, seeded, set, settingRows, imported>>
      /\ main.at = "rig" /\ main' = [at |-> "up"]
      /\ \/ /\ boot' = main.tune
            /\ works' = [c \in Registers |->
                 IF c \in main.cams THEN [cfg |-> main.tune, next |-> Nil, told |-> TRUE] ELSE Nil]
         \/ boot' = Nil /\ works' = [c \in Registers |-> Nil]
  BY DEF SE!Rig, SE!database, SE!NoWorkers
<1>2. /\ ~SE!Up /\ SE!SettingTypeOK /\ set \in [Keys -> Values] /\ main.tune = SE!LoadTuning
      /\ DOMAIN posts = Threads /\ \A r \in Threads : Posting(r) /\ SE!At(r, "idle")
  BY <1>1 DEF SettingInv, SettingShape, Starting, SE!Up
<1>3. SE!LoadTuning \in Values /\ SE!LoadTuning' = SE!LoadTuning
  <2>1. SE!LoadTuning \in Values
    BY <1>2, SettingFacts
  <2>2. SE!LoadTuning' = SE!LoadTuning
    BY <1>1 DEF SE!LoadTuning, SE!Clamped
  <2> QED
    BY <2>1, <2>2
<1>4. /\ DOMAIN works' = Registers
      /\ \A c \in Registers : works'[c] # Nil =>
           /\ {"cfg", "next", "told"} \subseteq DOMAIN works'[c]
           /\ works'[c].next = Nil /\ works'[c].cfg = SE!LoadTuning
  BY <1>1, <1>2
<1>5. SE!SettingTypeOK'
  BY <1>1, <1>2, <1>3 DEF SE!SettingTypeOK
<1>6. SettingShape'
  <2>1. SE!Up' /\ "at" \in DOMAIN main'
    BY <1>1 DEF SE!Up
  <2>2. \A r \in Threads : Posting(r)'
    BY <1>1, <1>2 DEF Posting, SE!At
  <2>3. \A c \in Registers : Working(c)'
    BY <1>4 DEF Working
  <2> QED
    BY <1>1, <1>2, <1>4, <1>5, <2>1, <2>2, <2>3 DEF SettingShape
<1>7. Starting'
  BY <1>1, <1>2 DEF Starting
<1>8. Telling'
  BY <1>1, <1>2, <1>3, <1>4 DEF Telling, SE!At, SE!Given
<1> QED
  BY <1>6, <1>7, <1>8 DEF SettingInv

LEMMA ServerDies ==
  ASSUME SettingInv, SE!Restart
  PROVE  SettingInv'
<1>1. /\ UNCHANGED <<settingMade, seeded, set, settingRows, imported>>
      /\ main' = [at |-> "schema", i |-> 0] /\ boot' = Nil /\ works' = [c \in Registers |-> Nil]
      /\ hook' = Nil /\ posts' = [r \in Threads |-> [at |-> "idle"]] /\ unheard' = FALSE
  BY DEF SE!Restart, SE!database, SE!Idle, SE!NoWorkers
<1>2. SE!SettingTypeOK'
  BY <1>1 DEF SettingInv, SettingShape, SE!SettingTypeOK
<1>3. \A r \in Threads : Posting(r)' /\ SE!At(r, "idle")'
  BY <1>1 DEF Posting, SE!At
<1>4. SettingShape'
  BY <1>1, <1>2, <1>3 DEF SettingShape, Working
<1>5. Starting' /\ Telling'
  BY <1>1 DEF Starting, Telling, SE!Up
<1> QED
  BY <1>4, <1>5 DEF SettingInv

\* A step of one request, the server being up: what the invariant asks of it.
LEMMA OnePosts ==
  ASSUME SettingInv, SE!Up, NEW r \in Threads, NEW x, SE!Becomes(r, x), UNCHANGED <<main, boot>>,
         SE!SettingTypeOK', set' \in [Keys -> Values],
         DOMAIN works' = Registers, \A c \in Registers : Working(c)',
         Posting(r)', \A s \in Threads \ {r} : SE!At(s, "apply") => hook' = hook
  PROVE  SettingShape' /\ Starting'
<1>1. /\ DOMAIN posts' = Threads /\ posts'[r] = x
      /\ \A s \in Threads \ {r} : posts'[s] = posts[s]
  BY DEF SettingInv, SettingShape, SE!Becomes
<1>2. \A s \in Threads : Posting(s)'
  BY <1>1 DEF SettingInv, SettingShape, Posting, SE!At
<1>3. SE!Up' /\ "at" \in DOMAIN main'
  BY DEF SE!Up, SettingInv, SettingShape
<1>4. SettingShape'
  BY <1>1, <1>2, <1>3 DEF SettingShape
<1>5. Starting'
  BY DEF Starting, SE!Up
<1> QED
  BY <1>4, <1>5

LEMMA PageAsks ==
  ASSUME SettingInv, NEW r \in Threads, NEW keys \in SUBSET Keys, NEW v \in Values, SE!Ask(r, keys, v)
  PROVE  SettingInv'
<1>1. /\ SE!Up /\ SE!At(r, "idle")
      /\ SE!Becomes(r, [at |-> "put", keys |-> keys, v |-> v, tunes |-> FALSE])
      /\ UNCHANGED <<settingMade, seeded, set, settingRows, imported, main, boot, works, hook, unheard>>
  BY DEF SE!Ask, SE!database
<1>2. /\ posts'[r] = [at |-> "put", keys |-> keys, v |-> v, tunes |-> FALSE]
      /\ \A s \in Threads \ {r} : posts'[s] = posts[s]
  BY <1>1 DEF SettingInv, SettingShape, SE!Becomes
<1>3. Posting(r)'
  BY <1>2 DEF Posting, SE!At
<1>4. SE!SettingTypeOK' /\ set' \in [Keys -> Values]
  BY <1>1 DEF SettingInv, SettingShape, SE!SettingTypeOK, Starting, SE!Up
<1>5. DOMAIN works' = Registers /\ \A c \in Registers : Working(c)'
  BY <1>1 DEF SettingInv, SettingShape, Working
<1>6. SettingShape' /\ Starting'
  BY <1>1, <1>3, <1>4, <1>5, OnePosts
<1>7. Telling'
  BY <1>1, <1>2 DEF SettingInv, Telling, Untold, SE!Up, SE!At, SE!LoadTuning, SE!Clamped, SE!Given
<1> QED
  BY <1>6, <1>7 DEF SettingInv

\* One UPDATE: a tuning that is written is one to be told.
LEMMA PagePuts ==
  ASSUME SettingInv, NEW r \in Threads, SE!Put(r)
  PROVE  SettingInv'
<1>1. PICK k \in posts[r].keys :
        /\ set' = [set EXCEPT ![k] = posts[r].v]
        /\ SE!Becomes(r, [posts[r] EXCEPT !.keys = @ \ {k}, !.tunes = @ \/ SE!IsTuning(k)])
  BY DEF SE!Put
<1>2. /\ SE!Up /\ SE!At(r, "put")
      /\ UNCHANGED <<settingMade, seeded, settingRows, imported, main, boot, works, hook, unheard>>
  BY DEF SE!Put
<1>3. /\ {"at", "keys", "v", "tunes"} \subseteq DOMAIN posts[r] /\ posts[r].at = "put"
      /\ posts[r].keys \subseteq Keys /\ posts[r].v \in Values /\ posts[r].tunes \in BOOLEAN
      /\ set \in [Keys -> Values] /\ SE!SettingTypeOK
  BY <1>2 DEF SettingInv, SettingShape, Posting, SE!At, Starting, SE!Up
<1>4. /\ \A s \in Threads \ {r} : posts'[s] = posts[s]
      /\ {"at", "keys", "v", "tunes"} \subseteq DOMAIN posts'[r] /\ posts'[r].at = "put"
      /\ posts'[r].keys = posts[r].keys \ {k} /\ posts'[r].v = posts[r].v
      /\ posts'[r].tunes = (posts[r].tunes \/ SE!IsTuning(k))
  BY <1>1, <1>3 DEF SettingInv, SettingShape, SE!Becomes
<1>5. Posting(r)'
  BY <1>3, <1>4 DEF Posting, SE!At, SE!IsTuning
<1>6. set' \in [Keys -> Values] /\ SE!SettingTypeOK'
  <2>1. set' \in [Keys -> Values]
    BY <1>1, <1>3
  <2> QED
    BY <1>2, <1>3, <2>1 DEF SE!SettingTypeOK
<1>7. DOMAIN works' = Registers /\ \A c \in Registers : Working(c)'
  BY <1>2 DEF SettingInv, SettingShape, Working
<1>8. SettingShape' /\ Starting'
  BY <1>1, <1>2, <1>5, <1>6, <1>7, OnePosts
<1>9. Telling'
  <2>1. CASE posts'[r].tunes
    BY <1>4, <2>1 DEF Telling, Untold, SE!At
  <2>2. CASE ~posts'[r].tunes
    <3>1. k # "tune" /\ posts[r].tunes = FALSE
      BY <1>3, <1>4, <2>2 DEF SE!IsTuning
    <3>2. set'["tune"] = set["tune"]
      BY <1>1, <1>3, <3>1, SettingFacts
    <3>3. SE!LoadTuning' = SE!LoadTuning
      BY <3>2 DEF SE!LoadTuning, SE!Clamped
    <3> QED
      BY <1>2, <1>3, <1>4, <2>2, <3>1, <3>3 DEF SettingInv, Telling, Untold, SE!Up, SE!At, SE!Given
  <2> QED
    BY <2>1, <2>2
<1> QED
  BY <1>8, <1>9 DEF SettingInv

\* A request ends without the hook; if it wrote a tuning, that is not heard of.
LEMMA PageEnds ==
  ASSUME SettingInv, NEW r \in Threads,
         SE!PutFails(r) \/ SE!Answered(r) \/ SE!AddressFails(r)
  PROVE  SettingInv'
<1>1. /\ SE!Up /\ SE!Becomes(r, [at |-> "idle"])
      /\ posts[r].at \in {"put", "addresses"}
      /\ UNCHANGED <<settingMade, seeded, set, settingRows, imported, main, boot, works, hook>>
      /\ posts[r].at = "put" =>
           unheard' = (unheard \/ posts[r].tunes) \/ (unheard' = unheard /\ ~posts[r].tunes)
      /\ posts[r].at = "addresses" => unheard' = unheard
  BY DEF SE!PutFails, SE!Answered, SE!AddressFails, SE!At, SE!Idle, SE!database
<1>2. /\ posts'[r] = [at |-> "idle"] /\ \A s \in Threads \ {r} : posts'[s] = posts[s]
      /\ posts[r].at = "put" => posts[r].tunes \in BOOLEAN
      /\ unheard \in BOOLEAN
  BY <1>1 DEF SettingInv, SettingShape, SE!Becomes, Posting, SE!At, SE!SettingTypeOK
<1>3. Posting(r)'
  BY <1>2 DEF Posting, SE!At
<1>4. unheard' \in BOOLEAN
  BY <1>1, <1>2
<1>5. SE!SettingTypeOK' /\ set' \in [Keys -> Values]
  BY <1>1, <1>4 DEF SettingInv, SettingShape, SE!SettingTypeOK, Starting, SE!Up
<1>6. DOMAIN works' = Registers /\ \A c \in Registers : Working(c)'
  BY <1>1 DEF SettingInv, SettingShape, Working
<1>7. SettingShape' /\ Starting'
  BY <1>1, <1>3, <1>5, <1>6, OnePosts
<1>8. Untold => Untold'
  <2>1. ASSUME NEW s \in Threads, SE!At(s, "put"), posts[s].tunes, s # r
        PROVE  SE!At(s, "put")' /\ posts'[s].tunes
    BY <1>2, <2>1 DEF SE!At
  <2>2. ASSUME SE!At(r, "put"), posts[r].tunes
        PROVE  unheard'
    BY <1>1, <2>2 DEF SE!At
  <2>3. unheard => unheard'
    BY <1>1
  <2> QED
    BY <2>1, <2>2, <2>3 DEF Untold
<1>9. Telling'
  BY <1>1, <1>2, <1>8 DEF SettingInv, Telling, SE!Up, SE!At, SE!LoadTuning, SE!Clamped, SE!Given
<1> QED
  BY <1>7, <1>9 DEF SettingInv

\* The hook reads the tuning back, alone.
LEMMA PageTells ==
  ASSUME SettingInv, NEW r \in Threads, SE!Tell(r)
  PROVE  SettingInv'
<1>1. /\ SE!Up /\ hook = Nil /\ hook' = r
      /\ SE!Becomes(r, [at |-> "apply", cfg |-> SE!LoadTuning]) /\ unheard' = FALSE
      /\ UNCHANGED <<settingMade, seeded, set, settingRows, imported, main, boot, works>>
  BY DEF SE!Tell, SE!database
<1>2. /\ posts'[r] = [at |-> "apply", cfg |-> SE!LoadTuning]
      /\ \A s \in Threads \ {r} : posts'[s] = posts[s]
  BY <1>1 DEF SettingInv, SettingShape, SE!Becomes
<1>3. \A s \in Threads : ~SE!At(s, "apply")
  BY <1>1, SettingFacts DEF SettingInv, SettingShape, Posting
<1>4. SE!SettingTypeOK' /\ set \in [Keys -> Values] /\ set' \in [Keys -> Values]
  BY <1>1 DEF SettingInv, SettingShape, SE!SettingTypeOK, Starting, SE!Up
<1>5. SE!LoadTuning \in Values /\ SE!LoadTuning' = SE!LoadTuning
  <2>1. SE!LoadTuning \in Values
    BY <1>4, SettingFacts
  <2>2. SE!LoadTuning' = SE!LoadTuning
    BY <1>1 DEF SE!LoadTuning, SE!Clamped
  <2> QED
    BY <2>1, <2>2
<1>6. Posting(r)'
  BY <1>1, <1>2, <1>5 DEF Posting, SE!At
<1>7. DOMAIN works' = Registers /\ \A c \in Registers : Working(c)'
  BY <1>1 DEF SettingInv, SettingShape, Working
<1>8. SettingShape' /\ Starting'
  BY <1>1, <1>3, <1>4, <1>6, <1>7, OnePosts
<1>9. Telling'
  <2>1. SE!At(r, "apply")' /\ posts'[r].cfg = SE!LoadTuning'
    BY <1>2, <1>5 DEF SE!At
  <2>2. \A s \in Threads : SE!At(s, "apply")' => posts'[s].cfg = SE!LoadTuning'
    BY <1>2, <1>3, <2>1 DEF SE!At
  <2> QED
    BY <2>1, <2>2 DEF Telling
<1> QED
  BY <1>8, <1>9 DEF SettingInv

LEMMA PageApplies ==
  ASSUME SettingInv, NEW r \in Threads, SE!Apply(r)
  PROVE  SettingInv'
<1>1. /\ SE!Up /\ SE!At(r, "apply") /\ hook' = Nil /\ SE!Becomes(r, [at |-> "idle"])
      /\ works' = [c \in Registers |->
           IF works[c] = Nil THEN Nil
           ELSE [works[c] EXCEPT !.next = posts[r].cfg, !.told = TRUE]]
      /\ UNCHANGED <<settingMade, seeded, set, settingRows, imported, main, boot, unheard>>
  BY DEF SE!Apply, SE!database, SE!Idle
<1>2. /\ posts'[r] = [at |-> "idle"] /\ \A s \in Threads \ {r} : posts'[s] = posts[s]
      /\ posts[r].cfg \in Values /\ hook = r
  BY <1>1 DEF SettingInv, SettingShape, SE!Becomes, Posting
<1>3. \A s \in Threads \ {r} : ~SE!At(s, "apply")
  BY <1>2 DEF SettingInv, SettingShape, Posting
<1>4. SE!SettingTypeOK' /\ set' \in [Keys -> Values]
  BY <1>1 DEF SettingInv, SettingShape, SE!SettingTypeOK, Starting, SE!Up
<1>5. /\ DOMAIN works' = Registers
      /\ \A c \in Registers : works'[c] # Nil =>
           /\ works[c] # Nil /\ {"cfg", "next", "told"} \subseteq DOMAIN works'[c]
           /\ works'[c].next = posts[r].cfg
  BY <1>1 DEF SettingInv, SettingShape, Working
<1>6. \A c \in Registers : Working(c)'
  BY <1>2, <1>5 DEF Working
<1>7. Posting(r)'
  BY <1>2 DEF Posting, SE!At
<1>8. SettingShape' /\ Starting'
  BY <1>1, <1>3, <1>4, <1>5, <1>6, <1>7, OnePosts
<1>9. Telling'
  <2> SUFFICES ASSUME ~Untold'
               PROVE  \A c \in Registers : works'[c] # Nil => SE!Given(works'[c]) = SE!LoadTuning'
    BY <1>2, <1>3 DEF Telling, SE!At
  <2>1. ~Untold
    BY <1>1, <1>2 DEF Untold, SE!At
  <2>2. posts[r].cfg = SE!LoadTuning
    BY <1>1, <2>1 DEF SettingInv, Telling
  <2>3. SE!LoadTuning' = SE!LoadTuning
    BY <1>1 DEF SE!LoadTuning, SE!Clamped
  <2> QED
    BY <1>2, <1>5, <2>2, <2>3, SettingFacts DEF SE!Given
<1> QED
  BY <1>8, <1>9 DEF SettingInv

\* Cameras are saved, and their workers made, without a word of the tuning.
LEMMA CamerasComeAndGo ==
  ASSUME SettingInv, NEW r \in Threads,
         \/ \E c \in Registers : SE!SaveCamera(r, c)
         \/ SE!SaveAddresses(r) \/ SE!Reconcile(r)
  PROVE  SettingInv'
<1>1. /\ SE!Up /\ UNCHANGED <<settingMade, seeded, set, imported, main, boot, hook, unheard>>
      /\ \A s \in Threads \ {r} : posts'[s] = posts[s]
      /\ posts[r].at \notin {"put", "apply"} /\ posts'[r].at \notin {"put", "apply"}
      /\ "at" \in DOMAIN posts'[r]
      /\ SE!Becomes(r, posts'[r])
  BY DEF SE!SaveCamera, SE!SaveAddresses, SE!Reconcile, SE!database, SE!Becomes, SE!At, SE!Idle,
         SettingInv, SettingShape, Posting
<1>2. settingRows' \in [Registers -> {"none", "bare", "whole"}]
  BY DEF SE!SaveCamera, SE!SaveAddresses, SE!Reconcile, SE!database, SettingInv, SettingShape,
         SE!SettingTypeOK
<1>3. \/ works' = works
      \/ /\ boot # Nil
         /\ works' = [works EXCEPT ![posts[r].cam] = [cfg |-> boot, next |-> Nil, told |-> FALSE]]
  BY DEF SE!SaveCamera, SE!SaveAddresses, SE!Reconcile
<1>4. DOMAIN works' = Registers /\ \A c \in Registers : Working(c)'
  BY <1>3 DEF SettingInv, SettingShape, Working
<1>5. \A c \in Registers : works'[c] # Nil /\ works'[c].told => works'[c] = works[c]
  BY <1>3 DEF SettingInv, SettingShape
<1>6. SE!SettingTypeOK' /\ set' \in [Keys -> Values]
  BY <1>1, <1>2 DEF SettingInv, SettingShape, SE!SettingTypeOK, Starting, SE!Up
<1>7. Posting(r)'
  BY <1>1 DEF Posting, SE!At
<1>8. SettingShape' /\ Starting'
  BY <1>1, <1>4, <1>6, <1>7, OnePosts
<1>9. Telling'
  BY <1>1, <1>5 DEF SettingInv, Telling, Untold, SE!Up, SE!At, SE!LoadTuning, SE!Clamped, SE!Given
<1> QED
  BY <1>8, <1>9 DEF SettingInv

LEMMA WorkerTakesUp ==
  ASSUME SettingInv, NEW c \in Registers, SE!TakesUp(c)
  PROVE  SettingInv'
<1>1. /\ SE!Up /\ works[c] # Nil /\ works[c].next # Nil
      /\ works' = [works EXCEPT ![c].cfg = works[c].next, ![c].next = Nil]
      /\ UNCHANGED <<settingMade, seeded, set, settingRows, imported, main, boot, hook, posts, unheard>>
  BY DEF SE!TakesUp, SE!database
<1>2. {"cfg", "next", "told"} \subseteq DOMAIN works[c] /\ DOMAIN works = Registers
  BY <1>1 DEF SettingInv, SettingShape, Working
<1>3. /\ DOMAIN works' = Registers /\ \A d \in Registers \ {c} : works'[d] = works[d]
      /\ DOMAIN works'[c] = DOMAIN works[c]
      /\ works'[c].cfg = works[c].next /\ works'[c].next = Nil /\ works'[c].told = works[c].told
  BY <1>1, <1>2
<1>4. \A d \in Registers : Working(d)'
  BY <1>2, <1>3 DEF SettingInv, SettingShape, Working
<1>5. SettingShape'
  BY <1>1, <1>3, <1>4 DEF SettingInv, SettingShape, SE!SettingTypeOK, Posting, SE!At, SE!Up
<1>6. Starting'
  BY <1>1 DEF SettingInv, Starting, SE!Up
<1>7. SE!Given(works'[c]) = SE!Given(works[c])
  BY <1>1, <1>3 DEF SE!Given
<1>8. Telling'
  BY <1>1, <1>3, <1>7 DEF SettingInv, Telling, Untold, SE!Up, SE!At, SE!LoadTuning, SE!Clamped, SE!Given
<1> QED
  BY <1>5, <1>6, <1>8 DEF SettingInv

LEMMA SettingRests ==
  ASSUME SettingInv, settingVars' = settingVars
  PROVE  SettingInv'
<1>1. SettingShape'
  BY DEF SettingInv, SettingShape, settingVars, SE!SettingTypeOK, Posting, Working, SE!At, SE!Up
<1>2. Starting'
  BY DEF SettingInv, settingVars, Starting, KeysDone, CamerasDone, SE!LoadTuning, SE!Clamped
<1>3. Telling'
  BY DEF SettingInv, settingVars, Telling, Untold, SE!Up, SE!At, SE!LoadTuning, SE!Clamped, SE!Given
<1> QED
  BY <1>1, <1>2, <1>3 DEF SettingInv

\* A step of the settings, and what it may do to the mark of the import.
MarkedWhole ==
  ~imported /\ imported' =>
    /\ \A k \in Keys : set'[k] = SE!FromJson(k)
    /\ \A i \in DOMAIN JsonCams : settingRows'[JsonCams[i]] = "whole"

LEMMA SettingSteps ==
  ASSUME SettingInv, SE!SettingNext
  PROVE  SettingInv' /\ MarkedWhole
<1>1. CASE SE!MakeTable \/ SE!Seed \/ SE!ImportOrNot
  <2>1. imported' = imported
    BY <1>1 DEF SE!MakeTable, SE!Seed, SE!ImportOrNot, SE!database
  <2> QED
    BY <1>1, <2>1, SchemaIsMade DEF MarkedWhole
<1>2. CASE SE!ImportKey \/ SE!ImportCamera
  <2>1. imported' = imported
    BY <1>2 DEF SE!ImportKey, SE!ImportCamera
  <2> QED
    BY <1>2, <2>1, ImportWrites DEF MarkedWhole
<1>3. CASE SE!ImportMark \/ SE!ImportFails \/ SE!Load
  BY <1>3, ImportEnds DEF MarkedWhole
<1>4. CASE SE!Rig \/ SE!Restart
  <2>1. imported' = imported
    BY <1>4 DEF SE!Rig, SE!Restart, SE!database
  <2> QED
    BY <1>4, <2>1, RigIsBuilt, ServerDies DEF MarkedWhole
<1>5. CASE \E r \in Threads :
             \/ \E keys \in SUBSET Keys \ {{}}, v \in Values : SE!Ask(r, keys, v)
             \/ SE!Put(r) \/ SE!PutFails(r) \/ SE!Answered(r) \/ SE!Tell(r) \/ SE!Apply(r)
             \/ \E c \in Registers : SE!SaveCamera(r, c)
             \/ SE!SaveAddresses(r) \/ SE!AddressFails(r) \/ SE!Reconcile(r)
  <2>1. imported' = imported
    BY <1>5 DEF SE!Ask, SE!Put, SE!PutFails, SE!Answered, SE!Tell, SE!Apply, SE!SaveCamera,
                SE!SaveAddresses, SE!AddressFails, SE!Reconcile, SE!database
  <2> QED
    BY <1>5, <2>1, PageAsks, PagePuts, PageEnds, PageTells, PageApplies, CamerasComeAndGo
       DEF MarkedWhole
<1>6. CASE \E c \in Registers : SE!TakesUp(c)
  <2>1. imported' = imported
    BY <1>6 DEF SE!TakesUp, SE!database
  <2> QED
    BY <1>6, <2>1, WorkerTakesUp DEF MarkedWhole
<1> QED
  BY <1>1, <1>2, <1>3, <1>4, <1>5, <1>6 DEF SE!SettingNext

\* However the page's requests interleave, whichever of their statements fail and
\* wherever the server dies: once no save is under way and none failed half way,
\* every worker that was told has the tuning that is saved; and the import is
\* marked only with every key and camera of the json in the tables.
THEOREM LastSavedIsHeld == Spec => SettingsSafe
<1>1. Init => SettingInv
  BY SettingStarts
<1>2. SettingInv /\ [Next]_vars => SettingInv' /\ [MarkedWhole]_SE!gvars
  <2> SUFFICES ASSUME SettingInv, [Next]_vars
               PROVE  SettingInv' /\ [MarkedWhole]_SE!gvars
    OBVIOUS
  <2>1. CASE SEStep
    BY <2>1, SettingSteps DEF SEStep
  <2>2. CASE settingVars' = settingVars
    BY <2>2, SettingRests DEF settingVars, SE!gvars
  <2> QED
    BY <2>1, <2>2 DEF Next, vars, ICStep, RTStep, MAStep, THStep, TLStep, LGStep, ANStep
<1>3. SettingInv => SE!SettingTypeOK /\ SE!LastTuningWins
  <2> SUFFICES ASSUME SettingInv, SE!Up, SE!Quiet, ~unheard, NEW c \in Registers,
                      works[c] # Nil, works[c].told
               PROVE  SE!Given(works[c]) = SE!LoadTuning
    BY DEF SettingInv, SettingShape, SE!LastTuningWins
  <2>1. \A r \in Threads : ~SE!At(r, "put") /\ ~SE!At(r, "apply")
    BY DEF SE!Quiet, SE!At
  <2>2. ~Untold
    BY <2>1 DEF Untold
  <2> QED
    BY <2>1, <2>2 DEF SettingInv, Telling
<1>4. [MarkedWhole]_SE!gvars
      => [~imported /\ imported' =>
            /\ \A k \in Keys : set'[k] = SE!FromJson(k)
            /\ \A i \in DOMAIN JsonCams : settingRows'[JsonCams[i]] = "whole"]_SE!gvars
  BY DEF MarkedWhole
<1>5. Spec => []SE!SettingTypeOK /\ []SE!LastTuningWins
  BY <1>1, <1>2, <1>3, PTL DEF Spec
<1>6. Spec => SE!ImportedWhole
  BY <1>1, <1>2, <1>4, PTL DEF Spec, SE!ImportedWhole
<1> QED
  BY <1>5, <1>6 DEF SettingsSafe

-----------------------------------------------------------------------------
(* MediaApi: each block once and in order, and none left behind *)

AReel == [blocks : Seq(Nat), keys : SUBSET Nat, closed : BOOLEAN, on : BOOLEAN, over : BOOLEAN]
ACursor == [file : Nat, block : Nat \ {0}, ms : Nat, newFile : BOOLEAN, tail : BOOLEAN]
AFetch == [at : {"index", "past", "read"}, file : Nat, hint : BOOLEAN, nested : BOOLEAN,
           closed : BOOLEAN, blocks : Seq(Nat), keys : SUBSET Nat, first : Nat, had : Nat,
           cursor : ACursor]

Held(f) == Len(recs[f].blocks)

\* The recordings follow each other: one is written once those before it are over,
\* and goes once those before it are gone.
ReelsInv ==
  /\ mediaClock \in Nat /\ recs \in [MA!Recs -> AReel]
  /\ \A f \in MA!Recs :
       /\ \A i \in 1 .. Held(f) : recs[f].blocks[i] < mediaClock
       /\ recs[f].keys \subseteq 1 .. Held(f)
       /\ recs[f].on \/ recs[f].over => Held(f) # 0
       /\ Held(f) # 0 /\ ~recs[f].on => recs[f].over
       /\ recs[f].closed => recs[f].over
  /\ \A f, g \in MA!Recs : f < g /\ Held(g) # 0 =>
       /\ \A i \in 1 .. Held(f), j \in 1 .. Held(g) : recs[f].blocks[i] < recs[g].blocks[j]
       /\ recs[f].over /\ (~recs[g].on => ~recs[f].on)

\* Nothing is left between two recordings for a player of the first to miss.
Clear(f, g) == ~recs[f].on \/ \A h \in MA!Recs : f < h /\ h < g => ~recs[h].on

\* The cursor names a block that is there, or the one past the tail.
Reads(c) ==
  /\ c.file \in MA!Recs /\ Held(c.file) # 0
  /\ ~c.tail => c.block \in 1 .. Held(c.file) /\ recs[c.file].blocks[c.block] = c.ms

\* ... which is the next after block a, of which the file held so many.
GoesOn(a, c, had) ==
  /\ Reads(c)
  /\ \/ c.file = a[1] /\ c.block = a[2] + 1
     \/ a[1] < c.file /\ c.block = 1 /\ ~c.tail /\ a[2] >= had /\ Clear(a[1], c.file)

NextIs(a, b, had) ==
  \/ b = <<a[1], a[2] + 1>>
  \/ a[1] < b[1] /\ ~recs[a[1]].on
  \/ a[1] < b[1] /\ b[2] = 1 /\ a[2] >= had /\ Clear(a[1], b[1])

Latest == got[Len(got)]

GotInv ==
  /\ got \in Seq(Nat \X Nat)
  /\ \A i \in 1 .. Len(got) : got[i][1] \in MA!Recs /\ got[i][2] \in 1 .. Held(got[i][1])
  /\ \A i, j \in 1 .. Len(got) : i < j => MA!Before(got[i], got[j])

PlayerInv ==
  /\ player \in [at : {"start", "play", "end", "failed"}, cursor : ACursor, from : Nat]
  /\ player.at = "start" => got = <<>>
  /\ player.at = "play" =>
       got # <<>> /\ GoesOn(Latest, player.cursor, Held(Latest[1]))

\* What a request holds at each place of fetch.
AskingInv ==
  fetch # MA!Quiet =>
    /\ fetch \in AFetch /\ player.at \in {"start", "play"}
    /\ fetch.file \in MA!Recs /\ Held(fetch.file) # 0
    /\ fetch.closed => recs[fetch.file].over
    /\ got # <<>> => fetch.had <= Held(Latest[1])
    /\ fetch.at = "index" =>
         \/ got = <<>> /\ ~fetch.hint
         \/ /\ got # <<>> /\ fetch.hint /\ fetch.cursor.file = fetch.file
            /\ GoesOn(Latest, fetch.cursor, fetch.had)
         \/ got # <<>> /\ ~fetch.hint /\ ~recs[Latest[1]].on /\ Latest[1] < fetch.file
    /\ fetch.at \in {"past", "read"} =>
         /\ Len(fetch.blocks) \in 1 .. Held(fetch.file)
         /\ \A i \in 1 .. Len(fetch.blocks) : fetch.blocks[i] = recs[fetch.file].blocks[i]
         /\ fetch.closed => Len(fetch.blocks) = Held(fetch.file)
    /\ fetch.at = "past" => got # <<>> /\ fetch.file = Latest[1] /\ Latest[2] >= fetch.had
    /\ fetch.at = "read" =>
         /\ fetch.first \in 1 .. Len(fetch.blocks)
         /\ got # <<>> => NextIs(Latest, <<fetch.file, fetch.first>>, fetch.had)

MediaInv == ReelsInv /\ GotInv /\ PlayerInv /\ AskingInv

LEMMA GreatestUpTo ==
  ASSUME NEW n \in Nat, NEW S, S \subseteq 1 .. n, S # {}
  PROVE  \E i \in S : \A j \in S : j <= i
<1> DEFINE R == {n - i : i \in S}
<1>1. R \subseteq Nat /\ R # {}
  <2>1. \A i \in S : i \in 1 .. n /\ n - i \in Nat
    OBVIOUS
  <2>2. PICK i \in S : TRUE
    OBVIOUS
  <2>3. n - i \in R
    OBVIOUS
  <2> QED
    BY <2>1, <2>3
<1>2. PICK r \in R : \A s \in R : r <= s
  BY <1>1, LeastOf
<1>3. PICK i \in S : r = n - i
  OBVIOUS
<1>4. \A j \in S : j <= i
  BY <1>2, <1>3
<1> QED
  BY <1>4

\* The recordings of a set that have blocks are in the order they start.
LEMMA ByStart ==
  ASSUME ReelsInv, NEW f \in MA!Recs, NEW g \in MA!Recs, Held(f) # 0, Held(g) # 0
  PROVE  f < g <=> MA!StartMs(f) < MA!StartMs(g)
<1>1. Held(f) \in Nat /\ Held(g) \in Nat /\ f \in Nat /\ g \in Nat
  BY MediaApiAssumption DEF ReelsInv, AReel, Held, MA!Recs, MA!MediaApiAssumption
<1>2. 1 \in 1 .. Held(f) /\ 1 \in 1 .. Held(g)
  BY <1>1
<1>3. recs[f].blocks[1] \in Nat /\ recs[g].blocks[1] \in Nat
  BY <1>2 DEF ReelsInv, AReel, Held
<1>4. f < g => recs[f].blocks[1] < recs[g].blocks[1]
  BY <1>2 DEF ReelsInv
<1>5. g < f => recs[g].blocks[1] < recs[f].blocks[1]
  BY <1>2 DEF ReelsInv
<1> QED
  BY <1>1, <1>3, <1>4, <1>5 DEF MA!StartMs

LEMMA ListedHeld ==
  ASSUME ReelsInv, NEW f \in MA!Listed
  PROVE  f \in MA!Recs /\ recs[f].on /\ Held(f) # 0 /\ MA!StartMs(f) \in Nat /\ Held(f) \in Nat
<1>1. f \in MA!Recs /\ recs[f].on /\ Held(f) \in Nat
  BY DEF MA!Listed, ReelsInv, AReel, Held
<1>2. Held(f) # 0
  BY <1>1 DEF ReelsInv
<1>3. recs[f].blocks[1] \in Nat
  BY <1>1, <1>2 DEF ReelsInv, AReel, Held
<1> QED
  BY <1>1, <1>2, <1>3 DEF MA!StartMs

LEMMA OnIsListed ==
  ASSUME ReelsInv, NEW f \in MA!Recs, recs[f].on
  PROVE  f \in MA!Listed
<1>1. Held(f) # 0
  BY DEF ReelsInv
<1>2. recs[f].blocks # <<>>
  BY <1>1 DEF Held
<1> QED
  BY <1>2 DEF MA!Listed

LEMMA FirstIs ==
  ASSUME ReelsInv, NEW F, F \subseteq MA!Listed, F # {}
  PROVE  MA!First(F) \in F /\ \A g \in F : MA!First(F) <= g
<1>1. F \subseteq Nat
  BY MediaApiAssumption DEF MA!Listed, MA!Recs, MA!MediaApiAssumption
<1>2. PICK f \in F : \A g \in F : f <= g
  BY <1>1, LeastOf
<1>3. \A g \in F : MA!StartMs(f) <= MA!StartMs(g)
  <2> SUFFICES ASSUME NEW g \in F PROVE MA!StartMs(f) <= MA!StartMs(g)
    OBVIOUS
  <2>1. f \in MA!Recs /\ g \in MA!Recs /\ Held(f) # 0 /\ Held(g) # 0
        /\ MA!StartMs(f) \in Nat /\ MA!StartMs(g) \in Nat
    BY ListedHeld
  <2>2. ~(g < f)
    BY <1>1, <1>2
  <2> QED
    BY <2>1, <2>2, ByStart
<1>4. /\ MA!First(F) \in F
      /\ \A g \in F : MA!StartMs(MA!First(F)) <= MA!StartMs(g)
  BY <1>3 DEF MA!First
<1>5. \A g \in F : MA!First(F) <= g
  <2> SUFFICES ASSUME NEW g \in F PROVE MA!First(F) <= g
    OBVIOUS
  <2>1. /\ MA!First(F) \in MA!Recs /\ g \in MA!Recs /\ Held(MA!First(F)) # 0 /\ Held(g) # 0
        /\ MA!StartMs(MA!First(F)) \in Nat /\ MA!StartMs(g) \in Nat
    BY <1>4, ListedHeld
  <2>2. ~(g < MA!First(F))
    BY <1>4, <2>1, ByStart
  <2>3. MA!First(F) \in Nat /\ g \in Nat
    BY <1>1, <1>4
  <2> QED
    BY <2>2, <2>3
<1> QED
  BY <1>4, <1>5

LEMMA LatestIs ==
  ASSUME ReelsInv, MA!Listed # {}
  PROVE  MA!Latest(MA!Listed) \in MA!Listed
<1>1. MA!Listed \subseteq 1 .. MediaFiles /\ MediaFiles \in Nat
  BY MediaApiAssumption DEF MA!Listed, MA!Recs, MA!MediaApiAssumption
<1>2. PICK f \in MA!Listed : \A g \in MA!Listed : g <= f
  BY <1>1, GreatestUpTo
<1>3. \A g \in MA!Listed : MA!StartMs(f) >= MA!StartMs(g)
  <2> SUFFICES ASSUME NEW g \in MA!Listed PROVE MA!StartMs(f) >= MA!StartMs(g)
    OBVIOUS
  <2>1. f \in MA!Recs /\ g \in MA!Recs /\ Held(f) # 0 /\ Held(g) # 0
        /\ MA!StartMs(f) \in Nat /\ MA!StartMs(g) \in Nat
    BY ListedHeld
  <2>2. ~(f < g)
    BY <1>1, <1>2
  <2> QED
    BY <2>1, <2>2, ByStart
<1> QED
  BY <1>3 DEF MA!Latest

LEMMA ResolvesToListed ==
  ASSUME ReelsInv, NEW ms, MA!ResolveByTime(ms) # MA!None
  PROVE  MA!ResolveByTime(ms) \in MA!Listed
<1> DEFINE with == {f \in MA!Listed : MA!StartMs(f) <= ms /\ ms < MA!EndMs(f)}
           after == {f \in MA!Listed : MA!StartMs(f) >= ms}
<1>1. with # {} => MA!First(with) \in MA!Listed
  BY FirstIs
<1>2. after # {} => MA!First(after) \in MA!Listed
  BY FirstIs
<1> QED
  BY <1>1, <1>2, LatestIs DEF MA!ResolveByTime

\* The next file is a later one, with none that is there in between.
LEMMA NextIsClear ==
  ASSUME ReelsInv, NEW f \in MA!Recs, Held(f) # 0, NEW end, NEW g,
         g = MA!NextFileAfter(f, end), g # MA!None
  PROVE  g \in MA!Listed /\ f < g /\ Clear(f, g)
<1> DEFINE later == {h \in MA!Listed : MA!StartMs(h) > MA!StartMs(f)}
           past == {h \in MA!Listed : MA!StartMs(h) >= end}
<1>0. f \in Nat /\ MA!Recs \subseteq Nat
  BY MediaApiAssumption DEF MA!Recs, MA!MediaApiAssumption
<1>1. CASE f \in MA!Listed
  <2>1. later # {} /\ g = MA!First(later)
    BY <1>1 DEF MA!NextFileAfter
  <2>2. g \in later /\ \A h \in later : g <= h
    BY <2>1, FirstIs
  <2>3. g \in MA!Recs /\ Held(g) # 0 /\ MA!StartMs(g) \in Nat /\ MA!StartMs(f) \in Nat
    BY <1>1, <2>2, ListedHeld
  <2>4. f < g
    BY <2>2, <2>3, ByStart
  <2>5. ASSUME NEW h \in MA!Recs, f < h, h < g, recs[h].on PROVE FALSE
    <3>1. h \in MA!Listed
      BY <2>5, OnIsListed
    <3>2. Held(h) # 0 /\ MA!StartMs(h) \in Nat
      BY <3>1, ListedHeld
    <3>3. MA!StartMs(f) < MA!StartMs(h)
      BY <2>5, <3>2, ByStart
    <3>4. h \in later
      BY <2>3, <3>1, <3>2, <3>3
    <3> QED
      BY <1>0, <2>2, <2>3, <2>5, <3>4
  <2> QED
    BY <2>2, <2>4, <2>5 DEF Clear
<1>2. CASE f \notin MA!Listed
  <2>1. past # {} /\ g = MA!First(past)
    BY <1>2 DEF MA!NextFileAfter
  <2>2. g \in MA!Listed
    BY <2>1, FirstIs
  <2>3. g \in MA!Recs /\ recs[g].on /\ Held(g) # 0
    BY <2>2, ListedHeld
  <2>4. ~recs[f].on
    BY <1>2, OnIsListed
  <2>5. ~(g < f)
    BY <2>3, <2>4 DEF ReelsInv
  <2>6. g # f
    BY <1>2, <2>2
  <2> QED
    BY <1>0, <2>2, <2>3, <2>4, <2>5, <2>6 DEF Clear
<1> QED
  BY <1>1, <1>2

\* What the recorder and the retention may do to a recording.
ReelsGrow ==
  \A f \in MA!Recs :
    /\ Held(f) <= Held(f)'
    /\ \A i \in 1 .. Held(f) : recs'[f].blocks[i] = recs[f].blocks[i]
    /\ recs[f].over => recs'[f].over /\ Held(f)' = Held(f)
    /\ recs'[f].on /\ ~recs[f].on =>
         Held(f) = 0 /\ \A g \in MA!Recs : f < g => Held(g) = 0

LEMMA WriteBlockReels ==
  ASSUME ReelsInv, NEW f \in MA!Recs, NEW key \in BOOLEAN, MA!WriteBlock(f, key)
  PROVE  ReelsInv' /\ ReelsGrow
<1>0. /\ mediaClock \in Nat /\ mediaClock' = mediaClock + 1
      /\ f \in Nat /\ MA!Recs \subseteq Nat /\ recs[f].blocks \in Seq(Nat)
      /\ Held(f) = Len(recs[f].blocks) /\ recs[f].keys \subseteq Nat /\ recs[f] \in AReel
      /\ ~recs[f].over /\ \A g \in 1 .. f - 1 : recs[g].over
  BY SMTT(30), MediaApiAssumption
     DEF MA!Recs, MA!MediaApiAssumption, ReelsInv, AReel, MA!WriteBlock, MA!Recording, Held
<1> DEFINE r == recs'[f]
<1>1. /\ r.blocks = Append(recs[f].blocks, mediaClock) /\ r.on /\ r.over = recs[f].over
      /\ r.keys \subseteq recs[f].keys \union {Held(f) + 1} /\ r.closed = recs[f].closed
      /\ r \in AReel
  <2>1. r = [recs[f] EXCEPT !.blocks = Append(recs[f].blocks, mediaClock), !.on = TRUE,
               !.keys = IF key THEN recs[f].keys \union {Len(recs[f].blocks) + 1}
                        ELSE recs[f].keys]
    BY DEF MA!WriteBlock, ReelsInv
  <2>2. Append(recs[f].blocks, mediaClock) \in Seq(Nat)
    BY <1>0
  <2>3. recs[f].keys \union {Held(f) + 1} \subseteq Nat
    BY <1>0
  <2>4. /\ r.blocks = Append(recs[f].blocks, mediaClock) /\ r.on /\ r.over = recs[f].over
        /\ r.closed = recs[f].closed
        /\ r.keys = recs[f].keys \/ r.keys = recs[f].keys \union {Held(f) + 1}
    BY <1>0, <2>1 DEF AReel
  <2>5. r \in AReel
    BY <1>0, <2>1, <2>2, <2>3 DEF AReel
  <2> QED
    BY <2>4, <2>5
<1>2. \A g \in MA!Recs \ {f} : recs'[g] = recs[g]
  BY DEF MA!WriteBlock, ReelsInv
<1>3. recs' \in [MA!Recs -> AReel]
  BY <1>1, <1>2 DEF MA!WriteBlock, ReelsInv
<1>4. /\ Held(f)' = Held(f) + 1 /\ Held(f) \in Nat
      /\ \A i \in 1 .. Held(f) : r.blocks[i] = recs[f].blocks[i]
      /\ r.blocks[Held(f) + 1] = mediaClock
  BY <1>0, <1>1 DEF Held
<1>5. \A g \in MA!Recs \ {f} : Held(g)' = Held(g)
  BY <1>2 DEF Held
<1>6. \A g \in MA!Recs : Held(g) \in Nat
  BY DEF Held, ReelsInv, AReel
<1>7. \A g \in MA!Recs : f < g => Held(g) = 0
  BY <1>0 DEF ReelsInv
<1>8. ASSUME NEW g \in MA!Recs
      PROVE  /\ \A i \in 1 .. Held(g)' : recs'[g].blocks[i] < mediaClock'
             /\ recs'[g].keys \subseteq 1 .. Held(g)'
             /\ recs'[g].on \/ recs'[g].over => Held(g)' # 0
             /\ Held(g)' # 0 /\ ~recs'[g].on => recs'[g].over
             /\ recs'[g].closed => recs'[g].over
  <2>1. CASE g = f
    <3>1. \A i \in 1 .. Held(f) : recs[f].blocks[i] < mediaClock /\ recs[f].blocks[i] \in Nat
      BY DEF ReelsInv, AReel, Held
    <3>2. \A i \in 1 .. Held(f) + 1 : r.blocks[i] < mediaClock + 1
      <4> SUFFICES ASSUME NEW i \in 1 .. Held(f) + 1 PROVE r.blocks[i] < mediaClock + 1
        OBVIOUS
      <4>1. CASE i = Held(f) + 1
        BY <1>0, <1>4, <4>1
      <4>2. CASE i # Held(f) + 1
        <5>1. i \in 1 .. Held(f)
          BY <1>4, <4>2
        <5>2. r.blocks[i] = recs[f].blocks[i]
          BY <1>4, <5>1
        <5>3. recs[f].blocks[i] < mediaClock /\ recs[f].blocks[i] \in Nat
          BY <3>1, <5>1
        <5> QED
          BY <1>0, <5>2, <5>3
      <4> QED
        BY <4>1, <4>2
    <3>3. recs[f].keys \subseteq 1 .. Held(f) /\ (recs[f].closed => recs[f].over)
      BY DEF ReelsInv
    <3>4. recs[f].keys \union {Held(f) + 1} \subseteq 1 .. Held(f) + 1
      BY <1>4, <3>3
    <3>5. r.keys \subseteq 1 .. Held(f) + 1
      BY <1>1, <3>4
    <3>6. Held(f)' # 0
      BY <1>4
    <3>7. r.on /\ (r.closed => r.over)
      BY <1>1, <3>3
    <3>8. \A i \in 1 .. Held(f)' : r.blocks[i] < mediaClock'
      BY <1>0, <1>4, <3>2
    <3>9. r.keys \subseteq 1 .. Held(f)'
      BY <1>4, <3>5
    <3> HIDE DEF r
    <3> QED
      BY <2>1, <3>6, <3>7, <3>8, <3>9 DEF r
  <2>2. CASE g # f
    <3>1. recs'[g] = recs[g] /\ Held(g)' = Held(g)
      BY <1>2, <1>5, <2>2
    <3>2. \A i \in 1 .. Held(g) : recs[g].blocks[i] < mediaClock /\ recs[g].blocks[i] \in Nat
      BY DEF ReelsInv, AReel, Held
    <3>3. \A i \in 1 .. Held(g) : recs[g].blocks[i] < mediaClock + 1
      BY <1>0, <3>2
    <3> QED
      BY <1>0, <3>1, <3>3 DEF ReelsInv
  <2> QED
    BY <2>1, <2>2
<1>9. ASSUME NEW g \in MA!Recs, NEW h \in MA!Recs, g < h, Held(h)' # 0
      PROVE  /\ \A i \in 1 .. Held(g)', j \in 1 .. Held(h)' :
                  recs'[g].blocks[i] < recs'[h].blocks[j]
             /\ recs'[g].over /\ (~recs'[h].on => ~recs'[g].on)
  <2>1. g # f
    BY <1>0, <1>5, <1>7, <1>9
  <2>2. recs'[g] = recs[g] /\ Held(g)' = Held(g)
    BY <1>2, <1>5, <2>1
  <2>3. CASE h = f
    <3>1. g \in 1 .. f - 1
      BY <1>0, <1>9, <2>3 DEF MA!Recs
    <3>2. \A i \in 1 .. Held(g), j \in 1 .. Held(f) : recs[g].blocks[i] < recs[f].blocks[j]
      BY <1>4, <1>9, <2>3 DEF ReelsInv
    <3>3. \A i \in 1 .. Held(g) : recs[g].blocks[i] < mediaClock
      BY DEF ReelsInv
    <3>4. \A j \in 1 .. Held(f) + 1 : j \in 1 .. Held(f) \/ j = Held(f) + 1
      BY <1>4
    <3>5. \A i \in 1 .. Held(g), j \in 1 .. Held(f) + 1 : recs[g].blocks[i] < r.blocks[j]
      BY <1>4, <3>2, <3>3, <3>4
    <3> QED
      BY <1>0, <1>1, <1>4, <2>2, <2>3, <3>1, <3>5
  <2>4. CASE h # f
    BY <1>2, <1>5, <1>9, <2>2, <2>4 DEF ReelsInv
  <2> QED
    BY <2>3, <2>4
<1>10. ReelsInv'
  BY <1>0, <1>3, <1>8, <1>9 DEF ReelsInv
<1>11. ASSUME NEW g \in MA!Recs
       PROVE  /\ Held(g) <= Held(g)'
              /\ \A i \in 1 .. Held(g) : recs'[g].blocks[i] = recs[g].blocks[i]
              /\ recs[g].over => recs'[g].over /\ Held(g)' = Held(g)
              /\ recs'[g].on /\ ~recs[g].on =>
                   Held(g) = 0 /\ \A h \in MA!Recs : g < h => Held(h) = 0
  <2>1. CASE g = f
    <3>1. ~recs[f].on => Held(f) = 0
      BY <1>0 DEF ReelsInv
    <3> QED
      BY <1>0, <1>4, <1>7, <2>1, <3>1
  <2>2. CASE g # f
    BY <1>2, <1>5, <1>6, <2>2
  <2> QED
    BY <2>1, <2>2
<1> QED
  BY <1>10, <1>11 DEF ReelsGrow

LEMMA EndFileReels ==
  ASSUME ReelsInv, NEW f \in MA!Recs, NEW footer \in BOOLEAN, MA!EndFile(f, footer)
  PROVE  ReelsInv' /\ ReelsGrow
<1>1. /\ mediaClock' = mediaClock /\ recs' \in [MA!Recs -> AReel]
      /\ \A g \in MA!Recs : /\ recs'[g].blocks = recs[g].blocks /\ recs'[g].keys = recs[g].keys
                            /\ recs'[g].on = recs[g].on
                            /\ recs[g].over => recs'[g].over
                            /\ g # f => recs'[g] = recs[g]
      /\ recs'[f].over /\ Held(f) # 0
  <2>1. recs' = [recs EXCEPT ![f] = [recs[f] EXCEPT !.over = TRUE, !.closed = footer]]
        /\ recs[f] \in AReel /\ recs[f].blocks # <<>>
    BY DEF MA!EndFile, ReelsInv
  <2>2. recs[f].blocks \in Seq(Nat)
    BY <2>1 DEF AReel
  <2>3. Held(f) # 0
    BY <2>1, <2>2 DEF Held
  <2>4. [recs[f] EXCEPT !.over = TRUE, !.closed = footer] \in AReel
    BY <2>1 DEF AReel
  <2>5. mediaClock' = mediaClock
    BY DEF MA!EndFile
  <2> QED
    BY <2>1, <2>3, <2>4, <2>5 DEF ReelsInv, AReel
<1>2. \A g \in MA!Recs : Held(g)' = Held(g) /\ Held(g) \in Nat
  BY <1>1 DEF Held, ReelsInv, AReel
<1>3. \A g \in MA!Recs : recs'[g].closed => recs'[g].over
  BY <1>1 DEF ReelsInv
<1>4. ReelsInv'
  BY <1>1, <1>2, <1>3 DEF ReelsInv
<1>5. ReelsGrow
  BY <1>1, <1>2 DEF ReelsGrow
<1> QED
  BY <1>4, <1>5

LEMMA DeleteFileReels ==
  ASSUME ReelsInv, NEW f \in MA!Recs, MA!DeleteFile(f)
  PROVE  ReelsInv' /\ ReelsGrow
<1>1. /\ mediaClock' = mediaClock /\ recs' \in [MA!Recs -> AReel]
      /\ \A g \in MA!Recs : /\ recs'[g].blocks = recs[g].blocks /\ recs'[g].keys = recs[g].keys
                            /\ recs'[g].over = recs[g].over /\ recs'[g].closed = recs[g].closed
                            /\ g # f => recs'[g] = recs[g]
      /\ ~recs'[f].on /\ recs[f].over
  <2>1. recs' = [recs EXCEPT ![f] = [recs[f] EXCEPT !.on = FALSE]] /\ recs[f] \in AReel
    BY DEF MA!DeleteFile, ReelsInv
  <2>2. [recs[f] EXCEPT !.on = FALSE] \in AReel
    BY <2>1 DEF AReel
  <2>3. mediaClock' = mediaClock /\ recs[f].over
    BY DEF MA!DeleteFile
  <2> QED
    BY <2>1, <2>2, <2>3 DEF ReelsInv, AReel
<1>2. \A g \in MA!Recs : Held(g)' = Held(g) /\ Held(g) \in Nat
  BY <1>1 DEF Held, ReelsInv, AReel
<1>3. \A g \in MA!Recs : g < f => ~recs[g].on
  <2> SUFFICES ASSUME NEW g \in MA!Recs, g < f, recs[g].on PROVE FALSE
    OBVIOUS
  <2>1. g \in MA!Listed
    BY OnIsListed
  <2>2. f <= g
    BY <2>1, FirstIs DEF MA!DeleteFile
  <2>3. f \in Nat /\ g \in Nat
    BY MediaApiAssumption DEF MA!Recs, MA!MediaApiAssumption
  <2> QED
    BY <2>2, <2>3
<1>4. ASSUME NEW g \in MA!Recs, NEW h \in MA!Recs, g < h, Held(h)' # 0, ~recs'[h].on
      PROVE  ~recs'[g].on
  <2>1. CASE g = f
    BY <1>1, <2>1
  <2>2. CASE g # f /\ h = f
    BY <1>1, <1>3, <1>4, <2>2
  <2>3. CASE g # f /\ h # f
    BY <1>1, <1>2, <1>4, <2>3 DEF ReelsInv
  <2> QED
    BY <2>1, <2>2, <2>3
<1>5. \A g \in MA!Recs : (recs'[g].on => recs[g].on) /\ (Held(g) # 0 /\ ~recs'[g].on => recs[g].over)
  BY <1>1 DEF ReelsInv
<1>6. ReelsInv'
  BY <1>1, <1>2, <1>4, <1>5 DEF ReelsInv
<1>7. ReelsGrow
  BY <1>1, <1>2, <1>5 DEF ReelsGrow
<1> QED
  BY <1>6, <1>7

LEMMA PassReels ==
  ASSUME ReelsInv, MA!Pass
  PROVE  ReelsInv' /\ ReelsGrow
<1>1. recs' = recs /\ mediaClock' = mediaClock + 1 /\ mediaClock \in Nat
  BY DEF MA!Pass, ReelsInv
<1>2. \A f \in MA!Recs : Held(f)' = Held(f) /\ Held(f) \in Nat
  BY <1>1 DEF Held, ReelsInv, AReel
<1>3. \A f \in MA!Recs : \A i \in 1 .. Len(recs[f].blocks) :
        recs[f].blocks[i] \in Nat /\ recs[f].blocks[i] < mediaClock
  BY DEF Held, ReelsInv, AReel
<1>4. \A f \in MA!Recs : \A i \in 1 .. Held(f)' : recs'[f].blocks[i] < mediaClock'
  BY <1>1, <1>3 DEF Held
<1>5. ReelsInv'
  BY <1>1, <1>2, <1>4 DEF ReelsInv
<1>6. ReelsGrow
  BY <1>1, <1>2 DEF ReelsGrow
<1> QED
  BY <1>5, <1>6

\* What a cursor says of the recordings stays true while they grow and go.
LEMMA GoesOnKeeps ==
  ASSUME ReelsInv, ReelsGrow, NEW a \in Nat \X Nat, a[1] \in MA!Recs,
         NEW c \in ACursor, NEW had \in Nat, GoesOn(a, c, had)
  PROVE  GoesOn(a, c, had)' /\ (c.file # a[1] => Held(a[1])' = Held(a[1]))
<1>0. /\ \A f \in MA!Recs : Held(f) \in Nat
      /\ c.file \in MA!Recs /\ Held(c.file) # 0 /\ Reads(c)
  BY DEF GoesOn, Reads, Held, ReelsInv, AReel
<1>1. Held(c.file)' \in Nat /\ Held(c.file)' >= Held(c.file)
  BY <1>0 DEF ReelsGrow, Held
<1>2. Reads(c)'
  <2>1. c.block \in Nat
    BY DEF ACursor
  <2>2. Held(c.file)' # 0
    BY <1>0, <1>1
  <2>3. ~c.tail => c.block \in 1 .. Held(c.file) /\ recs[c.file].blocks[c.block] = c.ms
    BY <1>0 DEF Reads
  <2>4. ~c.tail => c.block \in 1 .. Held(c.file)'
    BY <1>0, <1>1, <2>3
  <2>5. ~c.tail => recs'[c.file].blocks[c.block] = c.ms
    BY <1>0, <2>3 DEF ReelsGrow
  <2> QED
    BY <1>0, <2>2, <2>4, <2>5 DEF Reads
<1>3. CASE c.file = a[1] /\ c.block = a[2] + 1
  BY <1>2, <1>3 DEF GoesOn
<1>4. CASE a[1] < c.file /\ c.block = 1 /\ ~c.tail /\ a[2] >= had /\ Clear(a[1], c.file)
  <2>1. recs[a[1]].over
    BY <1>0, <1>4 DEF ReelsInv
  <2>2. Held(a[1])' = Held(a[1])
    BY <2>1 DEF ReelsGrow
  <2>3. \A h \in MA!Recs : h < c.file /\ ~recs[h].on => ~recs'[h].on
    BY <1>0 DEF ReelsGrow
  <2>4. Clear(a[1], c.file)'
    BY <1>4, <2>3 DEF Clear
  <2> QED
    BY <1>2, <1>4, <2>2, <2>4 DEF GoesOn
<1> QED
  BY <1>3, <1>4 DEF GoesOn

LEMMA GrowKeeps ==
  ASSUME MediaInv, ReelsInv', ReelsGrow, UNCHANGED <<player, fetch, got>>
  PROVE  MediaInv'
<1> USE DEF MediaInv
<1>0. /\ \A f \in MA!Recs : Held(f) \in Nat /\ Held(f)' \in Nat /\ Held(f) <= Held(f)'
      /\ MA!Recs \subseteq Nat /\ ReelsInv
  BY SMTT(30), MediaApiAssumption
     DEF Held, ReelsInv, AReel, ReelsGrow, MA!Recs, MA!MediaApiAssumption
<1>1. got \in Seq(Nat \X Nat) /\ got' = got /\ player' = player /\ fetch' = fetch
  BY DEF GotInv
<1>2. GotInv'
  <2>1. \A i \in 1 .. Len(got) : got[i][1] \in MA!Recs /\ got[i][2] \in 1 .. Held(got[i][1])
    BY DEF GotInv
  <2>2. \A i \in 1 .. Len(got) : got[i][2] \in 1 .. Len(recs'[got[i][1]].blocks)
    <3> SUFFICES ASSUME NEW i \in 1 .. Len(got)
                 PROVE  got[i][2] \in 1 .. Len(recs'[got[i][1]].blocks)
      OBVIOUS
    <3>1. PICK f \in MA!Recs : f = got[i][1] /\ got[i][2] \in 1 .. Held(f)
      BY <2>1
    <3>2. Held(f) \in Nat /\ Held(f)' \in Nat /\ Held(f) <= Held(f)'
      BY <1>0
    <3>3. got[i][2] \in 1 .. Held(f)'
      BY <3>1, <3>2
    <3> QED
      BY <3>1, <3>3 DEF Held
  <2>3. \A i, j \in 1 .. Len(got) : i < j => MA!Before(got[i], got[j])
    BY DEF GotInv
  <2> QED
    BY <1>1, <2>1, <2>2, <2>3 DEF GotInv, Held, MA!Before
<1>3. got # <<>> =>
        /\ Latest \in Nat \X Nat /\ Latest[1] \in MA!Recs /\ Latest[2] \in 1 .. Held(Latest[1])
        /\ Latest' = Latest
  <2>1. got # <<>> => Len(got) \in 1 .. Len(got)
    BY <1>1
  <2> QED
    BY <1>1, <2>1 DEF GotInv, Latest
<1>4. PlayerInv'
  <2>1. ASSUME player.at = "play"
        PROVE  GoesOn(Latest, player.cursor, Held(Latest[1]))'
    <3>1. /\ got # <<>> /\ GoesOn(Latest, player.cursor, Held(Latest[1]))
          /\ player.cursor \in ACursor
      BY <2>1 DEF PlayerInv
    <3>2. PICK a \in Nat \X Nat, c \in ACursor, had \in Nat :
            a = Latest /\ c = player.cursor /\ had = Held(Latest[1])
      BY <1>0, <1>3, <3>1
    <3>3. GoesOn(a, c, had)' /\ (c.file # a[1] => Held(a[1])' = had)
      BY <1>0, <1>3, <3>1, <3>2, GoesOnKeeps
    <3>4. GoesOn(a, c, Held(a[1]))'
      BY <3>3 DEF GoesOn
    <3>5. a = Latest' /\ c = player'.cursor
      BY <1>1, <1>3, <3>1, <3>2
    <3> QED
      BY <3>4, <3>5 DEF GoesOn, Reads, Clear, Held
  <2> QED
    BY <1>1, <2>1 DEF PlayerInv
<1>5. AskingInv'
  <2> SUFFICES ASSUME fetch # MA!Quiet PROVE AskingInv'
    BY <1>1 DEF AskingInv, MA!Quiet, MA!NoCursor
  <2>1. /\ fetch \in AFetch /\ player.at \in {"start", "play"}
        /\ fetch.file \in MA!Recs /\ Held(fetch.file) # 0
        /\ fetch.closed => recs[fetch.file].over
        /\ got # <<>> => fetch.had <= Held(Latest[1])
    BY DEF AskingInv
  <2>2. /\ Held(fetch.file)' # 0
        /\ fetch.closed => recs'[fetch.file].over /\ Held(fetch.file)' = Held(fetch.file)
    <3>1. PICK f \in MA!Recs : f = fetch.file /\ Held(f) # 0 /\ (fetch.closed => recs[f].over)
      BY <2>1
    <3>2. Held(f)' # 0 /\ (recs[f].over => recs'[f].over /\ Held(f)' = Held(f))
      <4>1. Held(f) \in Nat /\ Held(f)' \in Nat /\ Held(f) <= Held(f)'
        BY <1>0
      <4> QED
        BY <3>1, <4>1 DEF ReelsGrow
    <3> QED
      BY <1>1, <3>1, <3>2 DEF Held
  <2>3. got # <<>> => fetch.had <= Held(Latest[1])'
    <3>1. got # <<>> => Held(Latest[1]) <= Len(recs'[Latest[1]].blocks)
                        /\ Held(Latest[1]) \in Nat /\ Len(recs'[Latest[1]].blocks) \in Nat
      BY <1>0, <1>3 DEF Held
    <3>2. fetch.had \in Nat
      BY <2>1 DEF AFetch
    <3>3. got # <<>> => fetch.had <= Len(recs'[Latest[1]].blocks)
      BY <2>1, <3>1, <3>2
    <3> QED
      BY <1>3, <3>3 DEF Held
  <2>4. \A h \in MA!Recs : h < fetch.file /\ ~recs[h].on => ~recs'[h].on
    BY <2>1 DEF ReelsGrow
  <2>5. ASSUME got # <<>>, fetch.hint, GoesOn(Latest, fetch.cursor, fetch.had)
        PROVE  GoesOn(Latest, fetch.cursor, fetch.had)'
    <3>1. PICK a \in Nat \X Nat, c \in ACursor, had \in Nat :
            a = Latest /\ c = fetch.cursor /\ had = fetch.had
      BY <1>3, <2>1, <2>5 DEF AFetch
    <3>2. GoesOn(a, c, had)'
      BY <1>0, <1>3, <2>5, <3>1, GoesOnKeeps
    <3>3. a = Latest' /\ c = fetch'.cursor /\ had = fetch'.had
      BY <1>1, <1>3, <2>5, <3>1
    <3> QED
      BY <3>2, <3>3 DEF GoesOn, Reads, Clear, Held
  <2>6. (fetch.at = "index" =>
           \/ got = <<>> /\ ~fetch.hint
           \/ /\ got # <<>> /\ fetch.hint /\ fetch.cursor.file = fetch.file
              /\ GoesOn(Latest, fetch.cursor, fetch.had)
           \/ got # <<>> /\ ~fetch.hint /\ ~recs[Latest[1]].on /\ Latest[1] < fetch.file)'
    <3>1. got # <<>> /\ ~recs[Latest[1]].on /\ Latest[1] < fetch.file => ~recs'[Latest[1]].on
      BY <1>3, <2>4
    <3>2. got # <<>> => Latest' = Latest
      BY <1>3
    <3>3. fetch.at = "index" =>
           \/ got = <<>> /\ ~fetch.hint
           \/ /\ got # <<>> /\ fetch.hint /\ fetch.cursor.file = fetch.file
              /\ GoesOn(Latest, fetch.cursor, fetch.had)
           \/ got # <<>> /\ ~fetch.hint /\ ~recs[Latest[1]].on /\ Latest[1] < fetch.file
      BY DEF AskingInv
    <3> QED
      BY <1>1, <2>5, <3>1, <3>2, <3>3
  <2>7. (fetch.at \in {"past", "read"} =>
           /\ Len(fetch.blocks) \in 1 .. Held(fetch.file)
           /\ \A i \in 1 .. Len(fetch.blocks) : fetch.blocks[i] = recs[fetch.file].blocks[i]
           /\ fetch.closed => Len(fetch.blocks) = Held(fetch.file))'
    <3> SUFFICES ASSUME fetch.at \in {"past", "read"}
                 PROVE  /\ Len(fetch.blocks) \in 1 .. Held(fetch.file)'
                        /\ \A i \in 1 .. Len(fetch.blocks) :
                             fetch.blocks[i] = recs'[fetch.file].blocks[i]
                        /\ fetch.closed => Len(fetch.blocks) = Held(fetch.file)'
      BY <1>1 DEF Held
    <3>1. /\ Len(fetch.blocks) \in 1 .. Held(fetch.file)
          /\ \A i \in 1 .. Len(fetch.blocks) : fetch.blocks[i] = recs[fetch.file].blocks[i]
          /\ fetch.closed => Len(fetch.blocks) = Held(fetch.file)
      BY DEF AskingInv
    <3>2. Held(fetch.file) \in Nat /\ Held(fetch.file)' \in Nat
          /\ Held(fetch.file) <= Held(fetch.file)'
      BY <1>0, <2>1
    <3>3. \A i \in 1 .. Len(fetch.blocks) : i \in 1 .. Held(fetch.file)
      BY <3>1, <3>2
    <3>4. \A i \in 1 .. Len(fetch.blocks) : fetch.blocks[i] = recs'[fetch.file].blocks[i]
      BY <2>1, <3>1, <3>3 DEF ReelsGrow
    <3>5. Len(fetch.blocks) \in 1 .. Held(fetch.file)'
      BY <3>1, <3>2
    <3> QED
      BY <2>2, <3>1, <3>4, <3>5
  <2>8. (fetch.at = "read" =>
           /\ fetch.first \in 1 .. Len(fetch.blocks)
           /\ got # <<>> => NextIs(Latest, <<fetch.file, fetch.first>>, fetch.had))'
    <3> SUFFICES ASSUME fetch.at = "read"
                 PROVE  /\ fetch.first \in 1 .. Len(fetch.blocks)
                        /\ got # <<>> => NextIs(Latest, <<fetch.file, fetch.first>>, fetch.had)'
      BY <1>1
    <3>1. /\ fetch.first \in 1 .. Len(fetch.blocks)
          /\ got # <<>> => NextIs(Latest, <<fetch.file, fetch.first>>, fetch.had)
      BY DEF AskingInv
    <3>2. got # <<>> /\ Latest[1] < fetch.file /\ ~recs[Latest[1]].on => ~recs'[Latest[1]].on
      BY <1>3, <2>4
    <3>3. got # <<>> /\ Latest[1] < fetch.file /\ Clear(Latest[1], fetch.file) =>
            \/ ~recs'[Latest[1]].on
            \/ \A h \in MA!Recs : Latest[1] < h /\ h < fetch.file => ~recs'[h].on
      BY <2>4, <3>2 DEF Clear
    <3> QED
      BY <1>1, <1>3, <3>1, <3>2, <3>3 DEF NextIs, Clear
  <2>9. (fetch.at = "past" => got # <<>> /\ fetch.file = Latest[1] /\ Latest[2] >= fetch.had)'
    <3>1. fetch.at = "past" => got # <<>> /\ fetch.file = Latest[1] /\ Latest[2] >= fetch.had
      BY DEF AskingInv
    <3> QED
      BY <1>1, <1>3, <3>1
  <2>10. (/\ fetch \in AFetch /\ player.at \in {"start", "play"}
          /\ fetch.file \in MA!Recs /\ Held(fetch.file) # 0
          /\ fetch.closed => recs[fetch.file].over
          /\ got # <<>> => fetch.had <= Held(Latest[1]))'
    BY <1>1, <1>3, <2>1, <2>2, <2>3 DEF Held, MA!Recs
  <2> QED
    BY <2>6, <2>7, <2>8, <2>9, <2>10 DEF AskingInv
<1> QED
  BY <1>2, <1>4, <1>5

LEMMA ReelsRest ==
  ASSUME ReelsInv, UNCHANGED <<mediaClock, recs>>
  PROVE  ReelsInv'
  BY DEF ReelsInv, Held

LEMMA GotRest ==
  ASSUME GotInv, UNCHANGED <<recs, got>>
  PROVE  GotInv'
  BY DEF GotInv, Held, MA!Before

LEMMA LatestHeld ==
  ASSUME ReelsInv, GotInv, got # <<>>
  PROVE  /\ Latest \in Nat \X Nat /\ Latest[1] \in MA!Recs /\ Latest[1] \in Nat
         /\ Latest[2] \in Nat /\ Latest[2] \in 1 .. Held(Latest[1])
         /\ Held(Latest[1]) \in Nat /\ Held(Latest[1]) # 0 /\ Len(got) \in 1 .. Len(got)
<1>1. got \in Seq(Nat \X Nat) /\ Len(got) \in 1 .. Len(got)
  BY DEF GotInv
<1>2. Latest \in Nat \X Nat /\ Latest[1] \in MA!Recs /\ Latest[2] \in 1 .. Held(Latest[1])
  BY <1>1 DEF GotInv, Latest
<1>3. Held(Latest[1]) \in Nat
  BY <1>2 DEF Held, ReelsInv, AReel
<1> QED
  BY <1>1, <1>2, <1>3

LEMMA FailsKeeps ==
  ASSUME MediaInv, MA!Fails, UNCHANGED <<mediaClock, recs, got>>
  PROVE  MediaInv'
<1>1. PlayerInv'
  <2>1. CASE fetch.nested
    <3>1. player' = player
      BY <2>1 DEF MA!Fails
    <3> QED
      BY <3>1 DEF MediaInv, PlayerInv, GoesOn, Reads, Clear, Latest, Held
  <2>2. CASE ~fetch.nested
    <3>1. player' = [player EXCEPT !.at = "failed"]
      BY <2>2 DEF MA!Fails
    <3> QED
      BY <3>1 DEF MediaInv, PlayerInv
  <2> QED
    BY <2>1, <2>2
<1>2. AskingInv'
  BY DEF MA!Fails, AskingInv, MA!Quiet, MA!NoCursor, MA!None
<1> QED
  BY <1>1, <1>2, ReelsRest, GotRest DEF MediaInv

LEMMA AskKeeps ==
  ASSUME MediaInv, NEW from \in 0 .. MaxInstant, MA!Ask(from)
  PROVE  MediaInv'
<1> DEFINE c == player.cursor
           hint == player.at = "play" /\ c.file \in MA!Listed
           ms == IF player.at = "start" THEN from ELSE c.ms
           f == IF hint THEN c.file ELSE MA!ResolveByTime(ms)
           had == IF got = <<>> THEN 0 ELSE Len(recs[MA!Last(got)[1]].blocks)
<1>0. /\ ReelsInv /\ GotInv /\ PlayerInv /\ UNCHANGED <<mediaClock, recs, got>>
      /\ MA!Recs \subseteq Nat /\ player.at \in {"start", "play"}
  BY MediaApiAssumption DEF MediaInv, MA!Ask, MA!Recs, MA!MediaApiAssumption
<1>1. CASE f = MA!None
  <2>1. MA!Fails
    BY <1>1 DEF MA!Ask
  <2> QED
    BY <1>0, <2>1, FailsKeeps
<1>2. CASE f # MA!None
  <2>1. /\ player' = player
        /\ fetch' = [MA!Quiet EXCEPT !.at = "index", !.file = f, !.hint = hint,
                       !.closed = recs[f].closed, !.cursor = [c EXCEPT !.ms = ms], !.had = had]
    BY <1>2 DEF MA!Ask
  <2>2. f \in MA!Listed
    BY <1>0, <1>2, ResolvesToListed
  <2>3. f \in MA!Recs /\ f \in Nat /\ recs[f].on /\ Held(f) # 0
    BY <1>0, <2>2, ListedHeld
  <2>4. recs[f].closed \in BOOLEAN /\ (recs[f].closed => recs[f].over)
    BY <1>0, <2>3 DEF ReelsInv, AReel
  <2>5. c \in ACursor /\ ms \in Nat
    BY <1>0 DEF PlayerInv, ACursor
  <2>6. got # <<>> => had = Held(Latest[1]) /\ had \in Nat
    <3>1. got # <<>> => Held(Latest[1]) \in Nat
      BY <1>0, LatestHeld
    <3> QED
      BY <3>1 DEF Held, Latest, MA!Last
  <2>7. had \in Nat
    BY <2>6
  <2>8. [c EXCEPT !.ms = ms] \in ACursor
    BY <2>5 DEF ACursor
  <2>9. /\ fetch'.at = "index" /\ fetch'.file = f /\ fetch'.hint = hint /\ fetch'.had = had
        /\ fetch'.closed = recs[f].closed /\ fetch'.cursor = [c EXCEPT !.ms = ms]
        /\ fetch' \in AFetch
    <3> HIDE DEF f, hint, had, ms, c
    <3>1. hint \in BOOLEAN
      BY DEF hint
    <3>2. fetch' = [at |-> "index", file |-> f, hint |-> hint, nested |-> FALSE,
                    closed |-> recs[f].closed, blocks |-> <<>>, keys |-> {}, first |-> 0,
                    had |-> had, cursor |-> [c EXCEPT !.ms = ms]]
      BY <2>1 DEF MA!Quiet
    <3>3. <<>> \in Seq(Nat) /\ {} \subseteq Nat
      OBVIOUS
    <3> QED
      BY <2>3, <2>4, <2>7, <2>8, <3>1, <3>2, <3>3 DEF AFetch
  <2>10. player.at = "play" => got # <<>> /\ GoesOn(Latest, c, Held(Latest[1]))
    BY <1>0 DEF PlayerInv
  <2>11. ASSUME hint
         PROVE  /\ got # <<>> /\ fetch'.cursor = c /\ c.file = f /\ GoesOn(Latest, c, had)
    <3>1. ms = c.ms
      BY <2>11
    <3>2. [c EXCEPT !.ms = c.ms] = c
      BY <2>5 DEF ACursor
    <3> QED
      BY <2>6, <2>9, <2>10, <2>11, <3>1, <3>2
  <2>12. ASSUME ~hint, player.at = "play"
         PROVE  got # <<>> /\ ~recs[Latest[1]].on /\ Latest[1] < f
    <3>1. /\ got # <<>> /\ c.file \in MA!Recs /\ Held(c.file) # 0
          /\ c.file = Latest[1] \/ Latest[1] < c.file
      BY <2>10, <2>12 DEF GoesOn, Reads
    <3>2. Latest[1] \in MA!Recs /\ Held(Latest[1]) # 0
      BY <1>0, <3>1, LatestHeld
    <3>3. ~recs[c.file].on
      BY <1>0, <2>12, <3>1, OnIsListed
    <3>4. ~recs[Latest[1]].on
      BY <1>0, <3>1, <3>2, <3>3 DEF ReelsInv
    <3>5. ~(f < Latest[1]) /\ f # Latest[1]
      BY <1>0, <2>3, <3>2, <3>4 DEF ReelsInv
    <3>6. f \in Nat /\ Latest[1] \in Nat
      BY <1>0, <2>3, <3>2
    <3> HIDE DEF f
    <3>7. Latest[1] < f
      BY <3>5, <3>6
    <3> QED
      BY <3>1, <3>4, <3>7
  <2>13. player.at = "start" => got = <<>> /\ ~hint
    BY <1>0 DEF PlayerInv
  <2>14. AskingInv'
    <3>1. Latest' = Latest /\ got' = got /\ recs' = recs
      BY <1>0 DEF Latest
    <3>2. /\ fetch' \in AFetch /\ player'.at \in {"start", "play"}
          /\ fetch'.file \in MA!Recs /\ Len(recs'[fetch'.file].blocks) # 0
          /\ fetch'.closed => recs'[fetch'.file].over
      BY <1>0, <2>1, <2>3, <2>4, <2>9, <3>1 DEF Held
    <3>3. got' # <<>> => fetch'.had <= Len(recs'[Latest'[1]].blocks)
      <4>1. got # <<>> => had <= Len(recs[Latest[1]].blocks)
        BY <2>6 DEF Held
      <4> QED
        BY <2>9, <3>1, <4>1
    <3>4. fetch'.hint => got # <<>> /\ fetch'.cursor.file = fetch'.file
                         /\ GoesOn(Latest, c, fetch'.had) /\ fetch'.cursor = c
      BY <2>9, <2>11
    <3>5. \/ got = <<>> /\ ~fetch'.hint
          \/ got # <<>> /\ fetch'.hint
          \/ got # <<>> /\ ~fetch'.hint /\ ~recs[Latest[1]].on /\ Latest[1] < fetch'.file
      BY <1>0, <2>9, <2>11, <2>12, <2>13
    <3> QED
      BY <2>9, <3>1, <3>2, <3>3, <3>4, <3>5 DEF AskingInv, GoesOn, Reads, Clear, Held
  <2>15. PlayerInv'
    BY <1>0, <2>1 DEF PlayerInv, GoesOn, Reads, Clear, Held, Latest
  <2> QED
    BY <1>0, <2>14, <2>15, ReelsRest, GotRest DEF MediaInv
<1> QED
  BY <1>1, <1>2

\* By time the first block is one of the file; with a cursor, the cursor's.
LEMMA FirstBlockIs ==
  ASSUME NEW blocks \in Seq(Nat), Len(blocks) # 0, NEW keys \in SUBSET (1 .. Len(blocks)), NEW w
  PROVE  /\ w.hint /\ w.cursor.tail => MA!FirstBlock(w, blocks, keys) = w.cursor.block
         /\ (/\ w.hint /\ ~w.cursor.tail
             /\ w.cursor.block \in 1 .. Len(blocks) /\ blocks[w.cursor.block] = w.cursor.ms)
              => MA!FirstBlock(w, blocks, keys) = w.cursor.block
         /\ ~w.hint => MA!FirstBlock(w, blocks, keys) \in 1 .. Len(blocks)
<1> DEFINE at == MA!BlockAtTime(blocks, w.cursor.ms)
           near == IF at = 0 THEN 1 ELSE at
           key == MA!KeyframeAtOrBefore(keys, near)
           upTo == {b \in 1 .. Len(blocks) : blocks[b] <= w.cursor.ms}
           ks == {k \in keys : k <= near}
<1>1. Len(blocks) \in Nat \ {0} /\ 1 \in 1 .. Len(blocks)
  OBVIOUS
<1>2. upTo # {} => at \in 1 .. Len(blocks)
  <2> SUFFICES ASSUME upTo # {} PROVE at \in upTo
    OBVIOUS
  <2>1. \E b \in upTo : \A c \in upTo : c <= b
    BY <1>1, GreatestUpTo
  <2> QED
    BY <2>1 DEF MA!BlockAtTime
<1>3. upTo = {} => at = 0
  BY DEF MA!BlockAtTime
<1>4. near \in 1 .. Len(blocks)
  BY <1>1, <1>2, <1>3
<1>5. key = 0 \/ key \in 1 .. Len(blocks)
  <2>1. CASE ks = {}
    BY <2>1 DEF MA!KeyframeAtOrBefore
  <2>2. CASE ks # {}
    <3>1. \E k \in ks : \A c \in ks : c <= k
      BY <1>1, <2>2, GreatestUpTo
    <3>2. key \in ks
      BY <2>2, <3>1 DEF MA!KeyframeAtOrBefore
    <3> QED
      BY <3>2
  <2> QED
    BY <2>1, <2>2
<1> HIDE DEF at, near, key
<1> QED
  BY <1>4, <1>5 DEF MA!FirstBlock, at, near, key

LEMMA AskingTypes ==
  ASSUME MediaInv, fetch # MA!Quiet
  PROVE  /\ fetch \in AFetch /\ fetch.file \in MA!Recs /\ fetch.file \in Nat
         /\ recs[fetch.file] \in AReel /\ Held(fetch.file) \in Nat \ {0}
         /\ fetch.cursor \in ACursor /\ fetch.had \in Nat /\ fetch.blocks \in Seq(Nat)
         /\ fetch.first \in Nat
  BY SMTT(30), MediaApiAssumption
     DEF MediaInv, AskingInv, AFetch, ReelsInv, AReel, Held, MA!Recs, MA!MediaApiAssumption

LEMMA IndexKeeps ==
  ASSUME MediaInv, MA!Index
  PROVE  MediaInv'
<1> DEFINE r == recs[fetch.file]
           first == MA!FirstBlock(fetch, r.blocks, r.keys)
<1>0. /\ fetch.at = "index" /\ fetch # MA!Quiet /\ UNCHANGED <<mediaClock, recs, got>>
      /\ ReelsInv /\ GotInv /\ PlayerInv /\ AskingInv
  BY DEF MediaInv, MA!Index, MA!Quiet
<1>1. CASE ~r.on
  BY <1>0, <1>1, FailsKeeps DEF MA!Index
<1>2. CASE r.on
  <2>1. /\ player' = player
        /\ fetch' = [fetch EXCEPT !.blocks = r.blocks, !.keys = r.keys, !.first = first,
                       !.at = IF first > Len(r.blocks) THEN "past" ELSE "read"]
    BY <1>2 DEF MA!Index
  <2>2. /\ fetch \in AFetch /\ fetch.file \in MA!Recs /\ r \in AReel
        /\ Len(r.blocks) \in Nat \ {0} /\ Held(fetch.file) = Len(r.blocks)
        /\ fetch.cursor \in ACursor /\ fetch.had \in Nat
    BY <1>0, AskingTypes DEF Held
  <2>3. r.blocks \in Seq(Nat) /\ r.keys \in SUBSET (1 .. Len(r.blocks)) /\ r.keys \subseteq Nat
    BY <1>0, <2>2 DEF ReelsInv, AReel
  <2> DEFINE block == fetch.cursor.block
  <2>4. ASSUME fetch.hint
        PROVE  /\ first \in Nat \ {0}
               /\ got # <<>> => NextIs(Latest, <<fetch.file, first>>, fetch.had)
               /\ first > Len(r.blocks) => got # <<>> /\ fetch.file = Latest[1]
                                           /\ Latest[2] >= fetch.had
    <3>1. /\ got # <<>> /\ fetch.cursor.file = fetch.file
          /\ GoesOn(Latest, fetch.cursor, fetch.had)
      BY <1>0, <2>4 DEF AskingInv
    <3>2. ~fetch.cursor.tail => block \in 1 .. Len(r.blocks) /\ r.blocks[block] = fetch.cursor.ms
      BY <3>1 DEF GoesOn, Reads, Held
    <3>3. first = block /\ block \in Nat \ {0}
      BY <2>2, <2>3, <2>4, <3>2, FirstBlockIs DEF ACursor
    <3>4. NextIs(Latest, <<fetch.file, first>>, fetch.had)
      BY <3>1, <3>3 DEF NextIs, GoesOn
    <3>5. first > Len(r.blocks) => fetch.file = Latest[1] /\ Latest[2] >= fetch.had
      <4>1. CASE fetch.cursor.tail
        <5>1. fetch.file = Latest[1] /\ block = Latest[2] + 1
          BY <3>1, <4>1 DEF GoesOn
        <5>2. fetch.had <= Len(r.blocks)
          BY <1>0, <2>2, <3>1, <5>1 DEF AskingInv
        <5>3. Latest[2] \in Nat
          BY <1>0, <3>1, LatestHeld
        <5>4. Len(r.blocks) \in Nat /\ fetch.had \in Nat
          BY <2>2
        <5> HIDE DEF first, r
        <5>5. first > Len(r.blocks) => Latest[2] >= fetch.had
          BY <3>3, <5>1, <5>2, <5>3, <5>4
        <5> QED
          BY <5>1, <5>5
      <4>2. CASE ~fetch.cursor.tail
        <5>1. block <= Len(r.blocks)
          BY <2>2, <3>2, <4>2
        <5>2. Len(r.blocks) \in Nat
          BY <2>2
        <5> HIDE DEF first, r
        <5> QED
          BY <3>3, <5>1, <5>2
      <4> QED
        BY <4>1, <4>2
    <3> QED
      BY <3>1, <3>3, <3>4, <3>5
  <2>5. ASSUME ~fetch.hint
        PROVE  /\ first \in Nat \ {0}
               /\ got # <<>> => NextIs(Latest, <<fetch.file, first>>, fetch.had)
               /\ first > Len(r.blocks) => got # <<>> /\ fetch.file = Latest[1]
                                           /\ Latest[2] >= fetch.had
    <3>1. first \in 1 .. Len(r.blocks)
      BY <2>3, <2>5, <2>2, FirstBlockIs
    <3>2. got # <<>> => ~recs[Latest[1]].on /\ Latest[1] < fetch.file
      BY <1>0, <2>5 DEF AskingInv
    <3>3. got # <<>> => NextIs(Latest, <<fetch.file, first>>, fetch.had)
      BY <3>2 DEF NextIs
    <3>4. Len(r.blocks) \in Nat
      BY <2>2
    <3> HIDE DEF first, r
    <3>5. ~(first > Len(r.blocks)) /\ first \in Nat \ {0}
      BY <3>1, <3>4
    <3> QED
      BY <3>3, <3>5
  <2>6. /\ first \in Nat \ {0}
        /\ got # <<>> => NextIs(Latest, <<fetch.file, first>>, fetch.had)
        /\ first > Len(r.blocks) => got # <<>> /\ fetch.file = Latest[1]
                                    /\ Latest[2] >= fetch.had
    <3> HIDE DEF first, r
    <3>1. fetch.hint => got # <<>>
      BY <1>0 DEF AskingInv
    <3> QED
      BY <2>4, <2>5, <3>1
  <2>7. /\ fetch'.at = IF first > Len(r.blocks) THEN "past" ELSE "read"
        /\ fetch'.file = fetch.file /\ fetch'.closed = fetch.closed /\ fetch'.had = fetch.had
        /\ fetch'.blocks = r.blocks /\ fetch'.first = first
        /\ fetch' \in AFetch
    <3> HIDE DEF first, r
    <3> QED
      BY <2>1, <2>2, <2>3, <2>6 DEF AFetch
  <2>8. AskingInv'
    <3>1. Latest' = Latest /\ got' = got /\ recs' = recs
      BY <1>0 DEF Latest
    <3>2. /\ player.at \in {"start", "play"}
          /\ fetch.closed => recs[fetch.file].over
          /\ got # <<>> => fetch.had <= Len(recs[Latest[1]].blocks)
      BY <1>0 DEF AskingInv, Held
    <3>3. fetch'.at = "read" => fetch'.first \in 1 .. Len(fetch'.blocks)
      <4>1. Len(r.blocks) \in Nat
        BY <2>2
      <4> HIDE DEF first, r
      <4> QED
        BY <2>6, <2>7, <4>1
    <3>4. fetch'.at = "past" => got # <<>> /\ fetch.file = Latest[1] /\ Latest[2] >= fetch.had
      <4> HIDE DEF first, r
      <4> QED
        BY <2>6, <2>7
    <3>5. fetch'.at # "index"
      BY <2>7
    <3>6. Len(fetch'.blocks) \in 1 .. Len(recs[fetch.file].blocks)
          /\ Len(fetch'.blocks) = Len(recs[fetch.file].blocks)
          /\ fetch'.blocks = recs[fetch.file].blocks
      BY <2>2, <2>7
    <3>7. got # <<>> => NextIs(Latest, <<fetch.file, fetch'.first>>, fetch.had)
      BY <2>6, <2>7
    <3>8. fetch'.file = fetch.file /\ fetch'.had = fetch.had /\ fetch'.closed = fetch.closed
          /\ fetch' \in AFetch /\ fetch.file \in MA!Recs /\ Len(recs[fetch.file].blocks) # 0
          /\ player' = player
      BY <2>1, <2>2, <2>7
    <3> QED
      BY <3>1, <3>2, <3>3, <3>4, <3>5, <3>6, <3>7, <3>8 DEF AskingInv, NextIs, Clear, Held
  <2>9. PlayerInv'
    BY <1>0, <2>1 DEF PlayerInv, GoesOn, Reads, Clear, Held, Latest
  <2> QED
    BY <1>0, <2>8, <2>9, ReelsRest, GotRest DEF MediaInv
<1> QED
  BY <1>1, <1>2

\* The beginning of the next file goes on from the end of what this one held.
LEMMA NextGoesOn ==
  ASSUME ReelsInv, NEW a \in Nat \X Nat, a[1] \in MA!Recs, Held(a[1]) # 0,
         NEW had \in Nat, a[2] >= had, NEW end, NEW g, g = MA!NextFileAfter(a[1], end),
         g # MA!None, NEW c, c = [file |-> g, block |-> 1, ms |-> MA!StartMs(g),
                                  newFile |-> TRUE, tail |-> FALSE]
  PROVE  GoesOn(a, c, had) /\ c \in ACursor /\ g \in MA!Listed
<1>1. g \in MA!Listed /\ a[1] < g /\ Clear(a[1], g)
  BY NextIsClear
<1>2. g \in MA!Recs /\ Held(g) # 0 /\ Held(g) \in Nat /\ MA!StartMs(g) \in Nat /\ g \in Nat
  BY <1>1, ListedHeld, MediaApiAssumption DEF MA!Recs, MA!MediaApiAssumption
<1>3. 1 \in 1 .. Held(g) /\ recs[g].blocks[1] = MA!StartMs(g)
  BY <1>2 DEF MA!StartMs
<1>4. c \in ACursor
  BY <1>2 DEF ACursor
<1> QED
  BY <1>1, <1>2, <1>3, <1>4 DEF GoesOn, Reads

LEMMA PastKeeps ==
  ASSUME MediaInv, MA!Past
  PROVE  MediaInv'
<1> DEFINE end == MA!Last(fetch.blocks) + Assumed
           g == MA!NextFileAfter(fetch.file, end)
           c == [file |-> g, block |-> 1, ms |-> MA!StartMs(g), newFile |-> TRUE, tail |-> FALSE]
<1>0. /\ fetch.at = "past" /\ fetch # MA!Quiet /\ UNCHANGED <<mediaClock, recs, player, got>>
      /\ ReelsInv /\ GotInv /\ PlayerInv /\ AskingInv
  BY DEF MediaInv, MA!Past, MA!Quiet
<1>1. PlayerInv'
  BY <1>0 DEF PlayerInv, GoesOn, Reads, Clear, Held, Latest
<1>2. AskingInv'
  <2>1. CASE g = MA!None
    <3>1. fetch' = MA!Quiet
      BY <2>1 DEF MA!Past
    <3> QED
      BY <3>1 DEF AskingInv, MA!Quiet, MA!NoCursor, MA!None
  <2>2. CASE g # MA!None
    <3>1. fetch' = [at |-> "index", file |-> g, hint |-> TRUE, nested |-> TRUE,
                    closed |-> recs[g].closed, blocks |-> <<>>, keys |-> {}, first |-> 0,
                    had |-> fetch.had, cursor |-> c]
      BY <2>2 DEF MA!Past, MA!Quiet
    <3>2. got # <<>> /\ fetch.file = Latest[1] /\ Latest[2] >= fetch.had /\ fetch.had \in Nat
      BY <1>0, AskingTypes DEF AskingInv
    <3>3. Latest \in Nat \X Nat /\ Latest[1] \in MA!Recs /\ Held(Latest[1]) # 0
      BY <1>0, <3>2, LatestHeld
    <3>4. g = MA!NextFileAfter(Latest[1], end)
      BY <3>2
    <3>5. GoesOn(Latest, c, fetch.had) /\ c \in ACursor /\ g \in MA!Listed
      <4> HIDE DEF g, end
      <4> QED
        BY <1>0, <2>2, <3>2, <3>3, <3>4, NextGoesOn
    <3>6. g \in MA!Recs /\ g \in Nat /\ Held(g) # 0
      BY <1>0, <3>5, ListedHeld, MediaApiAssumption DEF MA!Recs, MA!MediaApiAssumption
    <3>7. recs[g].closed \in BOOLEAN /\ (recs[g].closed => recs[g].over)
      BY <1>0, <3>6 DEF ReelsInv, AReel
    <3>8. fetch' \in AFetch
      <4> HIDE DEF g, c
      <4>1. <<>> \in Seq(Nat) /\ {} \subseteq Nat
        OBVIOUS
      <4> QED
        BY <3>1, <3>2, <3>5, <3>6, <3>7, <4>1 DEF AFetch
    <3>9. Latest' = Latest /\ got' = got /\ recs' = recs /\ player' = player
      BY <1>0 DEF Latest
    <3>10. player.at \in {"start", "play"} /\ fetch.had <= Len(recs[Latest[1]].blocks)
      BY <1>0, <3>2 DEF AskingInv, Held
    <3>11. /\ fetch'.at = "index" /\ fetch'.file = g /\ fetch'.cursor = c
           /\ fetch'.had = fetch.had /\ fetch'.closed = recs[g].closed /\ fetch'.hint
           /\ c.file = g
      BY <3>1
    <3> HIDE DEF g, c
    <3> QED
      BY <3>2, <3>5, <3>6, <3>7, <3>8, <3>9, <3>10, <3>11
         DEF AskingInv, GoesOn, Reads, Clear, Held
  <2> QED
    BY <2>1, <2>2
<1> QED
  BY <1>0, <1>1, <1>2, ReelsRest, GotRest DEF MediaInv

LEMMA NextIsAfter ==
  ASSUME NEW a \in Nat \X Nat, NEW b \in Nat \X Nat, NEW had, NextIs(a, b, had)
  PROVE  MA!Before(a, b)
  BY DEF NextIs, MA!Before

LEMMA BeforeOn ==
  ASSUME NEW a \in Nat \X Nat, NEW b \in Nat \X Nat, NEW c \in Nat \X Nat,
         MA!Before(a, b), MA!Before(b, c)
  PROVE  MA!Before(a, c)
  BY DEF MA!Before

LEMMA BeforeWithin ==
  ASSUME NEW file, NEW i, NEW j, i < j
  PROVE  MA!Before(<<file, i>>, <<file, j>>)
  BY DEF MA!Before

LEMMA HeldPair ==
  ASSUME NEW x, NEW a \in MA!Recs, NEW b \in 1 .. Held(a), x = <<a, b>>
  PROVE  x[1] \in MA!Recs /\ x[2] \in 1 .. Held(x[1])
OBVIOUS

\* The blocks a request answers go on from those the player has.
LEMMA GotGrows ==
  ASSUME MediaInv, NEW file \in MA!Recs, NEW first \in Nat \ {0}, NEW last \in 1 .. Held(file),
         first <= last, UNCHANGED recs, NEW had,
         got # <<>> => NextIs(Latest, <<file, first>>, had),
         got' = got \o [i \in 1 .. last - first + 1 |-> <<file, first + i - 1>>]
  PROVE  /\ GotInv' /\ got' # <<>> /\ Latest' = <<file, last>>
         /\ got'[Len(got) + 1] = <<file, first>>
<1> DEFINE n == Len(got)
           m == last - first + 1
           more == [i \in 1 .. m |-> <<file, first + i - 1>>]
<1>0. /\ got \in Seq(Nat \X Nat) /\ n \in Nat /\ file \in Nat /\ Held(file) \in Nat
      /\ last \in Nat /\ m \in Nat \ {0} /\ ReelsInv /\ GotInv
  <2>1. ReelsInv /\ GotInv /\ got \in Seq(Nat \X Nat) /\ recs[file] \in AReel
    BY DEF MediaInv, GotInv, ReelsInv
  <2>2. file \in Nat
    BY MediaApiAssumption DEF MA!Recs, MA!MediaApiAssumption
  <2>3. Held(file) \in Nat
    BY <2>1 DEF AReel, Held
  <2>4. last \in Nat /\ m \in Nat \ {0}
    BY <2>3
  <2>5. n \in Nat
    BY <2>1
  <2> QED
    BY <2>1, <2>2, <2>3, <2>4, <2>5
<1>1. more \in Seq(Nat \X Nat) /\ Len(more) = m
  <2>1. \A i \in 1 .. m : <<file, first + i - 1>> \in Nat \X Nat
    BY <1>0
  <2> QED
    BY <1>0, <2>1
<1>2. /\ got' \in Seq(Nat \X Nat) /\ Len(got') = n + m
      /\ \A i \in 1 .. n : got'[i] = got[i]
      /\ \A i \in n + 1 .. n + m : got'[i] = <<file, first + (i - n) - 1>>
  <2>1. got' = got \o more
    OBVIOUS
  <2>2. got' \in Seq(Nat \X Nat) /\ Len(got') = n + m
    BY <1>0, <1>1, <2>1
  <2>3. \A i \in 1 .. n : got'[i] = got[i]
    BY <1>0, <1>1, <2>1
  <2>4. \A i \in n + 1 .. n + m : got'[i] = more[i - n]
    BY <1>0, <1>1, <2>1
  <2>5. \A i \in n + 1 .. n + m : i - n \in 1 .. m
    BY <1>0
  <2>6. \A k \in 1 .. m : more[k] = <<file, first + k - 1>>
    BY <1>0
  <2>7. \A i \in n + 1 .. n + m : more[i - n] = <<file, first + (i - n) - 1>>
    BY <2>5, <2>6
  <2> HIDE DEF more, m, n
  <2> QED
    BY <2>2, <2>3, <2>4, <2>7
<1>3. ASSUME NEW i \in n + 1 .. n + m
      PROVE  /\ first + (i - n) - 1 \in first .. last
             /\ first + (i - n) - 1 \in 1 .. Held(file)
  BY <1>0
<1>4. got'[n + 1] = <<file, first>>
  <2>1. n + 1 \in n + 1 .. n + m
    BY <1>0
  <2>2. first + ((n + 1) - n) - 1 = first
    BY <1>0
  <2> HIDE DEF n, m
  <2> QED
    BY <1>2, <2>1, <2>2
<1>5. Latest' = <<file, last>>
  <2>1. n + m \in n + 1 .. n + m
    BY <1>0
  <2>2. first + ((n + m) - n) - 1 = last
    BY <1>0
  <2>3. got'[n + m] = <<file, last>>
    <3> HIDE DEF n, m
    <3> QED
      BY <1>2, <2>1, <2>2
  <2> QED
    BY <1>2, <2>3 DEF Latest
<1>6. ASSUME NEW i \in 1 .. n + m
      PROVE  got'[i][1] \in MA!Recs /\ got'[i][2] \in 1 .. Held(got'[i][1])
  <2>1. CASE i \in 1 .. n
    BY <1>0, <1>2, <2>1 DEF GotInv
  <2>2. CASE i \in n + 1 .. n + m
    <3>1. first + (i - n) - 1 \in 1 .. Held(file)
      BY <1>3, <2>2
    <3>2. got'[i] = <<file, first + (i - n) - 1>>
      BY <1>2, <2>2
    <3> DEFINE k == first + (i - n) - 1
    <3>3. file \in MA!Recs /\ got'[i] = <<file, k>> /\ k \in 1 .. Held(file)
      BY <3>1, <3>2
    <3> HIDE DEF n, m, k
    <3> QED
      BY <3>3, HeldPair
  <2>3. i \in 1 .. n \/ i \in n + 1 .. n + m
    BY <1>0
  <2> QED
    BY <2>1, <2>2, <2>3
<1>7. ASSUME NEW i \in 1 .. n + m, NEW j \in 1 .. n + m, i < j
      PROVE  MA!Before(got'[i], got'[j])
  <2>1. CASE j \in 1 .. n
    <3>1. i \in 1 .. n
      BY <1>0, <1>7, <2>1
    <3> QED
      BY <1>0, <1>2, <1>7, <2>1, <3>1 DEF GotInv
  <2>2. CASE i \in n + 1 .. n + m /\ j \in n + 1 .. n + m
    <3>1. first + (i - n) - 1 < first + (j - n) - 1
      BY <1>0, <1>7, <2>2
    <3> HIDE DEF n, m
    <3> QED
      BY <1>2, <2>2, <3>1, BeforeWithin
  <2>3. CASE i \in 1 .. n /\ j \in n + 1 .. n + m
    <3>1. got # <<>> /\ n \in 1 .. n
      BY <1>0, <2>3
    <3>2. Latest \in Nat \X Nat /\ MA!Before(Latest, <<file, first>>)
      BY <1>0, <3>1, LatestHeld, NextIsAfter
    <3>3. got[i] = Latest \/ MA!Before(got[i], Latest)
      <4>1. i = n \/ i < n
        BY <1>0, <2>3
      <4> QED
        BY <1>0, <2>3, <3>1, <4>1 DEF GotInv, Latest
    <3>4. got[i] \in Nat \X Nat
      BY <1>0, <2>3
    <3>5. MA!Before(got[i], <<file, first>>)
      <4>1. <<file, first>> \in Nat \X Nat
        BY <1>0
      <4> QED
        BY <3>2, <3>3, <3>4, <4>1, BeforeOn
    <3>6. first + (j - n) - 1 \in Nat /\ first <= first + (j - n) - 1
      BY SMTT(30), <1>0, <2>3
    <3>7. MA!Before(got[i], <<file, first + (j - n) - 1>>)
      <4> DEFINE k == first + (j - n) - 1
      <4>1. k \in Nat /\ first <= k
        BY <3>6
      <4> HIDE DEF k
      <4>2. <<file, k>> \in Nat \X Nat /\ <<file, first>> \in Nat \X Nat
        BY <1>0, <4>1
      <4>3. k = first \/ MA!Before(<<file, first>>, <<file, k>>)
        BY <4>1, BeforeWithin
      <4>4. MA!Before(got[i], <<file, k>>)
        BY <3>4, <3>5, <4>2, <4>3, BeforeOn
      <4> QED
        BY <4>4 DEF k
    <3> QED
      BY <1>2, <2>3, <3>7
  <2>4. (i \in 1 .. n \/ i \in n + 1 .. n + m) /\ (j \in 1 .. n \/ j \in n + 1 .. n + m)
    BY <1>0
  <2>5. i \in n + 1 .. n + m => ~(j \in 1 .. n)
    BY <1>0, <1>7
  <2> QED
    BY <2>1, <2>2, <2>3, <2>4, <2>5
<1>8. GotInv'
  BY <1>2, <1>6, <1>7 DEF GotInv, Held, MA!Before
<1>9. got' # <<>>
  <2>1. n + m # 0
    BY <1>0
  <2> HIDE DEF n, m
  <2> QED
    BY <1>2, <2>1
<1> QED
  BY <1>4, <1>5, <1>8, <1>9

LEMMA ReadKeeps ==
  ASSUME MediaInv, NEW k \in Wanted, MA!Read(k)
  PROVE  /\ MediaInv'
         /\ got' # got /\ got # <<>> =>
              NextIs(Latest, got'[Len(got) + 1], fetch.had) /\ Latest[1] \in MA!Recs
<1> DEFINE upTo == fetch.first + k - 1
           end == Len(fetch.blocks)
           last == IF upTo > end THEN end ELSE upTo
           g == MA!NextFileAfter(fetch.file, fetch.blocks[end] + Assumed)
           c == MA!CursorAfter(fetch, last)
           onward == [file |-> fetch.file, block |-> last + 1, ms |-> fetch.blocks[last + 1],
                      newFile |-> FALSE, tail |-> FALSE]
           tail == [file |-> fetch.file, block |-> last + 1,
                    ms |-> fetch.blocks[end] + Assumed, newFile |-> FALSE, tail |-> TRUE]
           over == [file |-> g, block |-> 1, ms |-> MA!StartMs(g), newFile |-> TRUE,
                    tail |-> FALSE]
<1>0. /\ fetch.at = "read" /\ fetch # MA!Quiet /\ UNCHANGED <<mediaClock, recs>>
      /\ ReelsInv /\ GotInv /\ PlayerInv /\ AskingInv
  BY DEF MediaInv, MA!Read, MA!Quiet
<1>1. CASE ~recs[fetch.file].on
  <2>1. MA!Fails /\ got' = got
    BY <1>1 DEF MA!Read
  <2> QED
    BY <1>0, <2>1, FailsKeeps
<1>2. CASE recs[fetch.file].on
  <2>1. /\ got' = got \o [i \in 1 .. (last - fetch.first + 1) |->
                            <<fetch.file, fetch.first + i - 1>>]
        /\ player' = MA!Asking(IF c = MA!NoCursor THEN "end" ELSE "play", c, 0)
        /\ fetch' = MA!Quiet
    BY <1>2 DEF MA!Read
  <2>2. /\ fetch.file \in MA!Recs /\ fetch.file \in Nat /\ Held(fetch.file) \in Nat \ {0}
        /\ fetch.had \in Nat /\ fetch.blocks \in Seq(Nat)
    BY <1>0, AskingTypes
  <2>3. /\ end \in 1 .. Held(fetch.file)
        /\ \A i \in 1 .. end : fetch.blocks[i] = recs[fetch.file].blocks[i]
        /\ fetch.closed => end = Held(fetch.file)
        /\ fetch.first \in 1 .. end
        /\ got # <<>> => NextIs(Latest, <<fetch.file, fetch.first>>, fetch.had)
    BY <1>0 DEF AskingInv
  <2>4. k \in Nat \ {0} /\ Assumed \in Nat
    BY MediaApiAssumption DEF MA!MediaApiAssumption
  <2>5. /\ last \in 1 .. Held(fetch.file) /\ last \in 1 .. end /\ fetch.first <= last
        /\ last \in Nat /\ fetch.first \in Nat \ {0} /\ end \in Nat
    <3>1. end \in Nat /\ end <= Held(fetch.file)
      BY <2>2, <2>3
    <3> HIDE DEF end
    <3>2. fetch.first \in Nat \ {0} /\ fetch.first <= end
      BY <2>3, <3>1
    <3> QED
      BY <2>2, <2>4, <3>1, <3>2
  <2>6. /\ GotInv' /\ got' # <<>> /\ Latest' = <<fetch.file, last>>
        /\ got'[Len(got) + 1] = <<fetch.file, fetch.first>>
    <3> HIDE DEF last
    <3> QED
      BY <1>0, <2>1, <2>2, <2>3, <2>5, GotGrows
  <2> DEFINE a == <<fetch.file, last>>
             inFile == Held(fetch.file)
  <2>7. a \in Nat \X Nat /\ a[1] = fetch.file /\ a[2] = last /\ inFile \in Nat
    BY <2>2, <2>5
  <2>8. ASSUME c # MA!NoCursor
        PROVE  GoesOn(a, c, inFile) /\ c \in ACursor
    <3>1. \/ last < end /\ c = onward
          \/ last = end /\ ~fetch.closed /\ c = tail
          \/ last = end /\ fetch.closed /\ g # MA!None /\ c = over
      <4>1. CASE last < end
        BY <4>1 DEF MA!CursorAfter
      <4>2. CASE last = end
        <5>1. ~(last < end)
          BY <2>5, <4>2
        <5> HIDE DEF last, end
        <5> QED
          BY <2>8, <4>2, <5>1 DEF MA!CursorAfter, end
      <4>3. last < end \/ last = end
        BY <2>5
      <4> QED
        BY <4>1, <4>2, <4>3
    <3>2. CASE last < end /\ c = onward
      <4>1. last + 1 \in 1 .. end /\ last + 1 \in 1 .. inFile /\ last + 1 \in Nat \ {0}
        BY SMTT(30), <2>2, <2>3, <2>5, <3>2
      <4>2. /\ fetch.blocks[last + 1] \in Nat
            /\ fetch.blocks[last + 1] = recs[fetch.file].blocks[last + 1]
        <5>1. last + 1 \in 1 .. Len(fetch.blocks)
          BY <4>1
        <5> HIDE DEF last, end
        <5>2. fetch.blocks[last + 1] \in Nat
          BY <2>2, <5>1, ElementOfSeq
        <5> QED
          BY <2>3, <5>1, <5>2 DEF end
      <4>3. /\ c.file = fetch.file /\ c.block = last + 1 /\ ~c.tail
            /\ c.ms = fetch.blocks[last + 1] /\ c \in ACursor
        <5> HIDE DEF last
        <5> QED
          BY <2>2, <3>2, <4>1, <4>2 DEF ACursor
      <4>4. Reads(c)
        BY <2>2, <4>1, <4>2, <4>3 DEF Reads
      <4> HIDE DEF c, last
      <4> QED
        BY <4>3, <4>4 DEF GoesOn
    <3>3. CASE last = end /\ ~fetch.closed /\ c = tail
      <4>1. fetch.blocks[end] + Assumed \in Nat
        BY SMTT(30), <2>2, <2>4, <2>5
      <4>2. last + 1 \in Nat \ {0}
        BY <2>5
      <4>3. /\ c.file = fetch.file /\ c.block = last + 1 /\ c.tail /\ c \in ACursor
        <5> HIDE DEF last, end
        <5> QED
          BY <2>2, <3>3, <4>1, <4>2 DEF ACursor
      <4>4. Reads(c)
        BY <2>2, <4>3 DEF Reads
      <4> HIDE DEF c, last
      <4> QED
        BY <4>3, <4>4 DEF GoesOn
    <3>4. CASE last = end /\ fetch.closed /\ g # MA!None /\ c = over
      <4>1. last >= inFile /\ Held(fetch.file) # 0
        BY <2>2, <2>3, <2>5, <3>4
      <4> HIDE DEF c, last, g, end
      <4>2. g = MA!NextFileAfter(a[1], fetch.blocks[end] + Assumed)
        BY <2>7 DEF g
      <4> HIDE DEF a
      <4> QED
        BY <1>0, <2>2, <2>7, <3>4, <4>1, <4>2, NextGoesOn
    <3> QED
      BY <3>1, <3>2, <3>3, <3>4
  <2>9. PlayerInv'
    <3> HIDE DEF c, last
    <3>1. c \in ACursor
      <4>1. MA!NoCursor \in ACursor
        BY DEF MA!NoCursor, ACursor, MA!None
      <4> QED
        BY <2>8, <4>1
    <3>2. /\ player'.at = (IF c = MA!NoCursor THEN "end" ELSE "play")
          /\ player'.cursor = c
          /\ player' \in [at : {"start", "play", "end", "failed"}, cursor : ACursor, from : Nat]
      BY <2>1, <3>1 DEF MA!Asking
    <3>3. Latest' = a /\ recs' = recs
      BY <1>0, <2>6
    <3>4. Latest'[1] = fetch.file
      BY <2>7, <3>3
    <3>5. player'.at = "play" => GoesOn(a, c, inFile)
      BY <2>8, <3>2
    <3> HIDE DEF a
    <3> QED
      BY <2>6, <3>2, <3>3, <3>4, <3>5 DEF PlayerInv, GoesOn, Reads, Clear, Held
  <2>10. AskingInv'
    BY <2>1 DEF AskingInv, MA!Quiet, MA!NoCursor, MA!None
  <2>11. got # <<>> => Latest[1] \in MA!Recs
    BY <1>0, LatestHeld
  <2> QED
    BY <1>0, <2>3, <2>6, <2>9, <2>10, <2>11, ReelsRest DEF MediaInv
<1> QED
  BY <1>1, <1>2

LEMMA MediaStarts ==
  ASSUME MA!Init
  PROVE  MediaInv
<1>1. \A f \in MA!Recs : recs[f] = [blocks |-> <<>>, keys |-> {}, closed |-> FALSE,
                                    on |-> FALSE, over |-> FALSE] /\ Held(f) = 0
  BY DEF MA!Init, Held
<1>2. [blocks |-> <<>>, keys |-> {}, closed |-> FALSE, on |-> FALSE, over |-> FALSE] \in AReel
  <2>1. <<>> \in Seq(Nat) /\ {} \subseteq Nat
    OBVIOUS
  <2> QED
    BY <2>1 DEF AReel
<1>3. recs \in [MA!Recs -> AReel]
  BY <1>1, <1>2 DEF MA!Init
<1>4. ReelsInv
  BY <1>1, <1>3 DEF ReelsInv, MA!Init
<1>5. GotInv
  BY DEF GotInv, MA!Init
<1>6. PlayerInv
  BY DEF PlayerInv, MA!Init, MA!Asking, MA!NoCursor, MA!None, ACursor
<1>7. AskingInv
  BY DEF AskingInv, MA!Init, MA!Quiet, MA!NoCursor, MA!None
<1> QED
  BY <1>4, <1>5, <1>6, <1>7 DEF MediaInv

LEMMA MediaRests ==
  ASSUME MediaInv, UNCHANGED mediaVars
  PROVE  MediaInv'
<1>1. UNCHANGED <<mediaClock, recs, player, fetch, got>>
  BY DEF mediaVars
<1>2. PlayerInv'
  BY <1>1 DEF MediaInv, PlayerInv, GoesOn, Reads, Clear, Held, Latest
<1>3. ReelsGrow
  BY <1>1 DEF MediaInv, ReelsInv, ReelsGrow, Held, AReel
<1> QED
  BY <1>1, <1>3, ReelsRest, GrowKeeps DEF MediaInv

LEMMA MediaKeeps ==
  ASSUME MediaInv, MA!Next
  PROVE  MediaInv'
<1>0. ReelsInv
  BY DEF MediaInv
<1>1. ASSUME NEW f \in MA!Recs, NEW key \in BOOLEAN, MA!WriteBlock(f, key) PROVE MediaInv'
  BY <1>0, <1>1, WriteBlockReels, GrowKeeps DEF MA!WriteBlock
<1>2. ASSUME NEW f \in MA!Recs, NEW footer \in BOOLEAN, MA!EndFile(f, footer) PROVE MediaInv'
  BY <1>0, <1>2, EndFileReels, GrowKeeps DEF MA!EndFile
<1>3. ASSUME NEW f \in MA!Recs, MA!DeleteFile(f) PROVE MediaInv'
  BY <1>0, <1>3, DeleteFileReels, GrowKeeps DEF MA!DeleteFile
<1>4. ASSUME MA!Pass PROVE MediaInv'
  BY <1>0, <1>4, PassReels, GrowKeeps DEF MA!Pass
<1>5. ASSUME NEW from \in 0 .. MaxInstant, MA!Ask(from) PROVE MediaInv'
  BY <1>5, AskKeeps
<1>6. ASSUME NEW n \in Wanted, MA!Read(n) PROVE MediaInv'
  BY <1>6, ReadKeeps
<1> QED
  BY <1>1, <1>2, <1>3, <1>4, <1>5, <1>6, IndexKeeps, PastKeeps DEF MA!Next, MA!Fetch

\* The step of MA!NothingLeftBehind.
NoneLeft ==
  (got' # got /\ got # <<>>) =>
    LET a == MA!Last(got)
        b == got'[Len(got) + 1]
    IN  \/ b = <<a[1], a[2] + 1>>
        \/ ~recs[a[1]].on
        \/ /\ b[1] > a[1] /\ b[2] = 1 /\ a[2] >= fetch.had
           /\ \A f \in MA!Listed : ~(a[1] < f /\ f < b[1])

LEMMA MediaLeavesNone ==
  ASSUME MediaInv, MA!Next
  PROVE  NoneLeft
<1> SUFFICES ASSUME got' # got, got # <<>> PROVE NoneLeft
  BY DEF NoneLeft
<1>1. PICK k \in Wanted : MA!Read(k)
  BY DEF MA!Next, MA!Fetch, MA!WriteBlock, MA!EndFile, MA!DeleteFile, MA!Pass, MA!Ask, MA!Index,
         MA!Past
<1>2. NextIs(Latest, got'[Len(got) + 1], fetch.had)
  BY <1>1, ReadKeeps
<1>3. \A f, g \in MA!Listed : f \in MA!Recs /\ recs[f].on
  BY DEF MA!Listed
<1> QED
  BY <1>2, <1>3 DEF NoneLeft, NextIs, Clear, Latest, MA!Last

(* A player that follows the cursors of /api/media gets no block twice and *)
(* never goes back, and leaves out no block that was there when it asked,  *)
(* whatever is recorded, closed without a footer and deleted in between.   *)
THEOREM EachBlockOnce == Spec => MediaApiSafe
<1>1. Init => MediaInv
  BY MediaStarts DEF Init
<1>2. MediaInv /\ [Next]_vars => MediaInv' /\ [NoneLeft]_(MA!vars)
  <2> SUFFICES ASSUME MediaInv, [Next]_vars PROVE MediaInv' /\ [NoneLeft]_(MA!vars)
    OBVIOUS
  <2>1. CASE MAStep
    <3>1. MA!Next
      BY <2>1 DEF MAStep
    <3> QED
      BY <3>1, MediaKeeps, MediaLeavesNone
  <2>2. CASE mediaVars' = mediaVars
    <3>1. MA!vars' = MA!vars
      BY <2>2 DEF mediaVars, MA!vars
    <3> QED
      BY <2>2, <3>1, MediaRests
  <2>3. MAStep \/ mediaVars' = mediaVars
    BY DEF Next, vars, ICStep, RTStep, THStep, TLStep, SEStep, LGStep, ANStep
  <2> QED
    BY <2>1, <2>2, <2>3
<1>3. MediaInv => MA!OnceInOrder
  BY DEF MediaInv, GotInv, MA!OnceInOrder
<1> QED
  BY <1>1, <1>2, <1>3, PTL DEF Spec, MediaApiSafe, MA!NothingLeftBehind, NoneLeft

-----------------------------------------------------------------------------
(* Analytics: what the walk passes, and what the progress tells *)

\* The recordings and what waits to be written: every frame is later than all
\* that came before it, and one that waits is not older than Delay.
ReelShape ==
  /\ today \in Nat \ {0} /\ reels \in Seq([frames : SUBSET Nat, gone : BOOLEAN])
  /\ \A i \in DOMAIN reels : reels[i].frames # {} /\ \A f \in reels[i].frames : 0 < f /\ f < today
  /\ \A i, j \in DOMAIN reels : i < j => \A f \in reels[i].frames, g \in reels[j].frames : f < g

AFilm == [frame : Nat, roll : BOOLEAN]

FilmShape ==
  /\ filmed \in Seq(AFilm)
  /\ \A k \in 1 .. Len(filmed) :
       /\ 0 < filmed[k].frame /\ filmed[k].frame < today /\ today <= filmed[k].frame + Delay
       /\ \A i \in DOMAIN reels : \A f \in reels[i].frames : f < filmed[k].frame
  /\ \A k, l \in 1 .. Len(filmed) : k < l => filmed[k].frame < filmed[l].frame

ASeen == [looked : SUBSET Nat, moved : SUBSET Nat, excused : SUBSET Nat, begun : Nat]
AWalk == [file : Nat, target : Nat, to : Nat]
AMove == [start : Nat, end : Nat]
APost == [kind : {"event", "progress"}, from : Nat, to : Nat, model : Models \union {"none"}]
AWork == [at : {"off", "idle", "round"}, from : Nat, last : Nat, saved : Nat, target : Nat,
          n : Nat, walk : AWalk \union {Nil}, until : Nat, model : Models \union {"none"}]

AnalysisShape ==
  /\ seen \in [Models -> ASeen] /\ worker \in AWork
  /\ event \in AMove \union {Nil} /\ jobs \in Seq(APost)
  /\ progress \in [to : Nat, model : Models \union {"none"}]

There(rs) == {i \in DOMAIN rs : ~rs[i].gone}

\* An analysis s that is at ms: nothing it has not looked at can still come
\* before that, and it passed over nothing.
Sound(rs, then, s, ms) ==
  /\ ms + Behind <= then + 1 \/ ms <= s.begun
  /\ \A i \in There(rs) : \A f \in rs[i].frames : AN!Passed(s, f, ms)

Spans(f, from, to) == from <= f /\ f <= to
InTable(es, f) == \E e \in es : Spans(f, e.start, e.end)
InPosts(js, f, k) == \E l \in 1 .. k : js[l].kind = "event" /\ Spans(f, js[l].from, js[l].to)
InOpen(e, f) == e # Nil /\ Spans(f, e.start, e.end)

\* The progress saved, and each one that waits to be.
ProgressInv ==
  progress.model \in Models =>
    /\ Sound(reels, today, seen[progress.model], progress.to)
    /\ \A f \in seen[progress.model].moved :
         f < progress.to => f \in seen[progress.model].excused \/ InTable(analysisEvents, f)

PostInv(k) ==
  jobs[k].kind = "progress" =>
    /\ jobs[k].model \in Models /\ Sound(reels, today, seen[jobs[k].model], jobs[k].to)
    /\ \A f \in seen[jobs[k].model].moved :
         f < jobs[k].to => \/ f \in seen[jobs[k].model].excused
                           \/ InTable(analysisEvents, f) \/ InPosts(jobs, f, k)

PostsInv == \A k \in 1 .. Len(jobs) : PostInv(k)

\* The walk in hand was last at the frame before the worker's place; what is
\* between that and its target is within a step.
HandInv ==
  worker.walk # Nil =>
    /\ worker.walk.file \in DOMAIN reels
    /\ 0 < worker.from /\ worker.from - 1 \in reels[worker.walk.file].frames
    /\ worker.from - 1 \in seen[worker.model].looked
    /\ worker.from <= worker.walk.target
    /\ worker.walk.target = worker.from \/ worker.walk.target < worker.from + Step
    /\ worker.walk.to + Behind <= today

\* Where the worker is, it has passed over nothing, and what moved is told,
\* posted, in the open event, or excused.
WorkInv ==
  worker.at # "off" =>
    /\ worker.model \in Models /\ worker.saved <= worker.from
    /\ Sound(reels, today, seen[worker.model], worker.from)
    /\ progress.model = worker.model => progress.to <= worker.saved
    /\ \A k \in 1 .. Len(jobs) :
         jobs[k].kind = "progress" => jobs[k].model = worker.model /\ jobs[k].to <= worker.saved
    /\ \A f \in seen[worker.model].moved :
         /\ f < worker.from
         /\ \/ f \in seen[worker.model].excused \/ InTable(analysisEvents, f)
            \/ InPosts(jobs, f, Len(jobs)) \/ InOpen(event, f)
    /\ worker.at = "round" => worker.target + Behind <= today
    /\ event # Nil => event.start <= event.end /\ event.end < worker.from
    /\ HandInv

RestInv == worker.at = "off" => event = Nil /\ worker.walk = Nil

AnalysisInv ==
  ReelShape /\ FilmShape /\ AnalysisShape /\ ProgressInv /\ PostsInv /\ WorkInv /\ RestInv

LEMMA AnalysisFacts ==
  /\ {Step, Window} \subseteq Nat \ {0} /\ {Delay, Behind, Backfill} \subseteq Nat /\ 0 < Delay /\ Delay < Behind
  /\ Nil \notin AWalk /\ Nil \notin AMove
  BY AnalyticsAssumption DEF AN!AnalyticsAssumption, AWalk, AMove

LEMMA FirstOf ==
  ASSUME NEW S, S \subseteq Nat, S # {}
  PROVE  AN!Least(S) \in S /\ \A y \in S : AN!Least(S) <= y
<1>1. \E x \in S : \A y \in S : x <= y
  BY LeastOf
<1> QED
  BY <1>1 DEF AN!Least

LEMMA LastOf ==
  ASSUME NEW S, S \subseteq Nat, S # {}, NEW b \in Nat, \A x \in S : x < b
  PROVE  AN!Largest(S) \in S /\ \A y \in S : y <= AN!Largest(S)
<1> DEFINE T == {t \in Nat : \E x \in S : t = b - x}
<1>1. T \subseteq Nat /\ T # {}
  <2>1. PICK x \in S : TRUE
    OBVIOUS
  <2>2. x \in Nat /\ b - x \in Nat
    BY <2>1
  <2> QED
    BY <2>1, <2>2
<1>2. PICK t \in T : \A u \in T : t <= u
  BY <1>1, LeastOf
<1>3. PICK x \in S : t = b - x
  BY <1>2
<1>4. \A y \in S : y <= x
  <2> SUFFICES ASSUME NEW y \in S PROVE y <= x
    OBVIOUS
  <2>1. y \in Nat /\ x \in Nat /\ b - y \in Nat
    OBVIOUS
  <2>2. t <= b - y
    BY <1>2, <2>1
  <2> QED
    BY <1>3, <2>1, <2>2
<1>5. \E z \in S : \A y \in S : z >= y
  BY <1>3, <1>4
<1>6. AN!Largest(S) \in S /\ \A y \in S : AN!Largest(S) >= y
  BY <1>5 DEF AN!Largest
<1> QED
  BY <1>6

-----------------------------------------------------------------------------
(* The walk. *)

LEMMA ReelIs ==
  ASSUME ReelShape, NEW i \in DOMAIN reels
  PROVE  /\ i \in Nat \ {0} /\ reels[i].frames \subseteq Nat \ {0}
         /\ AN!Starts(i) \in reels[i].frames
         /\ \A f \in reels[i].frames : AN!Starts(i) <= f /\ f < AN!Ends(i)
         /\ AN!Ends(i) \in Nat
<1>1. i \in Nat \ {0} /\ today \in Nat
  BY DEF ReelShape
<1>2. /\ reels[i].frames \subseteq Nat /\ reels[i].frames # {}
      /\ \A f \in reels[i].frames : 0 < f /\ f < today
  <2>1. reels[i] \in [frames : SUBSET Nat, gone : BOOLEAN]
    <3>1. reels \in Seq([frames : SUBSET Nat, gone : BOOLEAN])
      BY DEF ReelShape
    <3> QED
      BY <3>1, ElementOfSeq, LenProperties
  <2>2. reels[i].frames \in SUBSET Nat
    BY <2>1
  <2> QED
    BY <2>2 DEF ReelShape
<1>3. /\ AN!Starts(i) \in reels[i].frames
      /\ \A f \in reels[i].frames : AN!Starts(i) <= f
  BY <1>2, FirstOf DEF AN!Starts
<1>4. /\ AN!Largest(reels[i].frames) \in reels[i].frames
      /\ \A f \in reels[i].frames : f <= AN!Largest(reels[i].frames)
  BY <1>1, <1>2, LastOf
<1>5. AN!Ends(i) = AN!Largest(reels[i].frames) + 1
  BY DEF AN!Ends
<1>6. \A f \in reels[i].frames : f < AN!Ends(i)
  BY <1>2, <1>4, <1>5
<1>7. reels[i].frames \subseteq Nat \ {0}
  BY <1>2
<1> QED
  BY <1>1, <1>2, <1>3, <1>4, <1>5, <1>6, <1>7

LEMMA ListedAre ==
  ASSUME ReelShape
  PROVE  AN!Listed \subseteq DOMAIN reels /\ AN!Listed \subseteq Nat \ {0}
  BY DEF AN!Listed, ReelShape

\* Frames of a recording that follows are later.
LEMMA InOrder ==
  ASSUME ReelShape, NEW i \in DOMAIN reels, NEW j \in DOMAIN reels, i < j,
         NEW f \in reels[i].frames, NEW g \in reels[j].frames
  PROVE  f < g
  BY DEF ReelShape

\* Nothing from ms on is before the file that the walk opens.
LEMMA FileAtIs ==
  ASSUME ReelShape, NEW ms \in Nat
  PROVE  /\ AN!FileAt(ms) \in AN!Listed \union {0}
         /\ \A j \in AN!Listed : \A f \in reels[j].frames :
              ms <= f => /\ AN!FileAt(ms) \in AN!Listed /\ AN!FileAt(ms) <= j
                         /\ AN!Starts(AN!FileAt(ms)) <= f
<1> DEFINE holds == {i \in AN!Listed : AN!Starts(i) <= ms /\ ms < AN!Ends(i)}
           after == {i \in AN!Listed : AN!Starts(i) >= ms}
           a == AN!FileAt(ms)
<1>1. a = IF holds # {} THEN AN!Least(holds) ELSE IF after # {} THEN AN!Least(after) ELSE 0
  BY DEF AN!FileAt
<1>2. holds \subseteq Nat /\ after \subseteq Nat /\ holds \subseteq AN!Listed /\ after \subseteq AN!Listed
  BY ListedAre
<1> HIDE DEF a
<1>3. /\ holds # {} => a \in holds /\ \A j \in holds : a <= j
      /\ holds = {} /\ after # {} => a \in after /\ \A j \in after : a <= j
      /\ holds = {} /\ after = {} => a = 0
  <2>1. CASE holds # {}
    <3> HIDE DEF holds, after
    <3> QED
      BY <1>1, <1>2, <2>1, FirstOf
  <2>2. CASE holds = {} /\ after # {}
    <3> HIDE DEF holds, after
    <3> QED
      BY <1>1, <1>2, <2>2, FirstOf
  <2>3. CASE holds = {} /\ after = {}
    BY <1>1, <2>3
  <2> QED
    BY <2>1, <2>2, <2>3
<1>4. a \in AN!Listed \union {0}
  BY <1>2, <1>3
<1>5. ASSUME NEW j \in AN!Listed, NEW f \in reels[j].frames, ms <= f
      PROVE  a \in AN!Listed /\ a <= j /\ AN!Starts(a) <= f
  <2>1. /\ j \in DOMAIN reels /\ j \in Nat /\ AN!Starts(j) \in Nat /\ AN!Starts(j) <= f
        /\ f < AN!Ends(j) /\ AN!Ends(j) \in Nat /\ f \in Nat
    BY <1>5, ListedAre, ReelIs
  <2>2. j \in holds \/ j \in after
    BY <1>5, <2>1
  <2>3. a \in AN!Listed /\ a \in DOMAIN reels /\ a \in Nat
    BY <1>2, <1>3, <2>2, ListedAre
  <2>4. AN!Starts(a) \in reels[a].frames /\ AN!Starts(a) \in Nat
    BY <2>3, ReelIs
  <2>5. CASE holds # {}
    <3>1. AN!Starts(a) <= ms /\ ms < AN!Ends(a)
      BY <1>3, <2>5
    <3>2. AN!Starts(a) <= f
      BY <1>5, <2>1, <2>4, <3>1
    <3>3. a <= j
      <4>1. CASE j \in holds
        BY <1>3, <2>5, <4>1
      <4>2. CASE j \notin holds
        <5>1. AN!Starts(j) > ms
          BY <1>5, <2>1, <4>2
        <5>2. AN!Starts(j) \in reels[j].frames
          BY <2>1, ReelIs
        <5>3. ~(j < a)
          <6> SUFFICES ASSUME j < a PROVE FALSE
            OBVIOUS
          <6>1. AN!Starts(j) < AN!Starts(a)
            BY <2>1, <2>3, <2>4, <5>2, InOrder
          <6> QED
            BY <2>1, <2>4, <3>1, <5>1, <6>1
        <5> QED
          BY <2>1, <2>3, <5>3
      <4> QED
        BY <4>1, <4>2
    <3> QED
      BY <2>3, <3>2, <3>3
  <2>6. CASE holds = {}
    <3>1. j \in after /\ a <= j
      BY <1>3, <2>2, <2>6
    <3>2. CASE a = j
      BY <2>1, <2>3, <3>1, <3>2
    <3>3. CASE a < j
      BY <2>1, <2>3, <2>4, <3>1, <3>3, InOrder
    <3> QED
      BY <2>1, <2>3, <3>1, <3>2, <3>3
  <2> QED
    BY <2>5, <2>6
<1> QED
  BY <1>4, <1>5 DEF a

\* What a walk, in hand or opened now, may take for granted.
OnWay(w) ==
  /\ w \in AWalk /\ w.file \in DOMAIN reels \union {0}
  /\ worker.from <= w.target /\ w.to + Behind <= today
  /\ \A i \in AN!Listed : \A f \in reels[i].frames :
       /\ worker.from <= f /\ f < w.target =>
            \E g \in seen[worker.model].looked : g <= f /\ f < g + Step
       /\ w.target <= f /\ f <= w.to => w.file # 0 /\ w.file <= i

LEMMA OpenIs ==
  ASSUME ReelShape, NEW from \in Nat, NEW to \in Nat, from <= to
  PROVE  LET w == AN!OpenWalk(from, to)
         IN  /\ w \in AWalk /\ w.file \in AN!Listed \union {0} /\ w.target = from /\ w.to = to
             /\ \A j \in AN!Listed : \A f \in reels[j].frames :
                  from <= f /\ f <= to => w.file # 0 /\ w.file <= j
<1> DEFINE i == AN!FileAt(from)
           w == AN!OpenWalk(from, to)
<1>1. w = [file |-> IF i # 0 /\ AN!Starts(i) <= to THEN i ELSE 0, target |-> from, to |-> to]
  BY DEF AN!OpenWalk
<1>2. i \in AN!Listed \union {0} /\ AN!Listed \subseteq Nat \ {0}
  BY FileAtIs, ListedAre
<1>3. ASSUME NEW j \in AN!Listed, NEW f \in reels[j].frames, from <= f, f <= to
      PROVE  w.file # 0 /\ w.file <= j
  <2>1. i \in AN!Listed /\ i <= j /\ AN!Starts(i) <= f
    BY <1>3, FileAtIs
  <2>2. AN!Starts(i) \in Nat /\ f \in Nat /\ i # 0
    <3>1. i \in DOMAIN reels /\ j \in DOMAIN reels
      BY <2>1, ListedAre
    <3>2. AN!Starts(i) \in reels[i].frames /\ reels[i].frames \subseteq Nat /\ reels[j].frames \subseteq Nat
      BY <3>1, ReelIs
    <3> QED
      BY <1>2, <2>1, <3>2
  <2>3. AN!Starts(i) <= to
    BY <1>3, <2>1, <2>2
  <2> HIDE DEF i
  <2> QED
    BY <1>1, <2>1, <2>2, <2>3
<1> HIDE DEF i
<1>4. w \in AWalk /\ w.file \in AN!Listed \union {0} /\ w.target = from /\ w.to = to
  BY <1>1, <1>2 DEF AWalk
<1> QED
  BY <1>3, <1>4

LEMMA HandOnWay ==
  ASSUME AnalysisInv, AN!Goes
  PROVE  OnWay(AN!WalkInHand)
<1> DEFINE w == AN!WalkInHand
<1>1. /\ ReelShape /\ worker \in AWork /\ worker.at = "round" /\ worker.from <= worker.target
      /\ worker.walk # Nil \/ worker.from < worker.target
  BY DEF AnalysisInv, AnalysisShape, AN!Goes, AN!InRound
<1>2. worker.target + Behind <= today /\ HandInv
  BY <1>1 DEF AnalysisInv, WorkInv
<1>3. worker.from \in Nat /\ worker.target \in Nat /\ today \in Nat /\ Step \in Nat /\ Window \in Nat \ {0}
      /\ Behind \in Nat
  BY <1>1, AnalysisFacts DEF AWork, ReelShape
<1>4. AN!Listed \subseteq DOMAIN reels /\ AN!Listed \subseteq Nat
  BY <1>1, ListedAre
<1>5. CASE worker.walk # Nil
  <2>1. w = worker.walk /\ w \in AWalk
    BY <1>1, <1>5 DEF AN!WalkInHand, AWork
  <2>2. /\ w.file \in DOMAIN reels /\ 0 < worker.from /\ worker.from - 1 \in reels[w.file].frames
        /\ worker.from - 1 \in seen[worker.model].looked
        /\ worker.from <= w.target /\ w.to + Behind <= today
        /\ w.target = worker.from \/ w.target < worker.from + Step
    BY <1>2, <1>5, <2>1 DEF HandInv
  <2>3. w.file \in Nat \ {0} /\ w.target \in Nat
    BY <1>1, <2>1, <2>2, ReelIs DEF AWalk
  <2> HIDE DEF w
  <2>4. ASSUME NEW i \in AN!Listed, NEW f \in reels[i].frames
        PROVE  /\ worker.from <= f /\ f < w.target =>
                    \E g \in seen[worker.model].looked : g <= f /\ f < g + Step
               /\ w.target <= f /\ f <= w.to => w.file # 0 /\ w.file <= i
    <3>1. i \in DOMAIN reels /\ i \in Nat /\ f \in Nat
      BY <1>1, <1>4, ReelIs
    <3>2. ASSUME worker.from <= f, f < w.target
          PROVE  worker.from - 1 <= f /\ f < (worker.from - 1) + Step
      BY <1>3, <2>2, <2>3, <3>1, <3>2
    <3>3. ASSUME w.target <= f PROVE w.file <= i
      <4> SUFFICES ASSUME i < w.file PROVE FALSE
        BY <2>3, <3>1
      <4>1. f < worker.from - 1
        BY <1>1, <2>2, <3>1, InOrder
      <4> QED
        BY <1>3, <2>2, <2>3, <3>1, <3>3, <4>1
    <3> QED
      BY <2>2, <2>3, <3>2, <3>3
  <2> QED
    BY <2>1, <2>2, <2>4 DEF OnWay, w
<1>6. CASE worker.walk = Nil
  <2> DEFINE to == AN!EarlierOf(worker.from + Window, worker.target)
  <2>1. w = AN!OpenWalk(worker.from, to)
    BY <1>6 DEF AN!WalkInHand
  <2>2. to \in Nat /\ worker.from <= to /\ to + Behind <= today
    BY <1>1, <1>2, <1>3, <1>6 DEF AN!EarlierOf
  <2> HIDE DEF to
  <2>3. /\ w \in AWalk /\ w.file \in AN!Listed \union {0} /\ w.target = worker.from /\ w.to = to
        /\ \A j \in AN!Listed : \A f \in reels[j].frames :
             worker.from <= f /\ f <= to => w.file # 0 /\ w.file <= j
    BY <1>1, <1>3, <2>1, <2>2, OpenIs
  <2>4. \A i \in AN!Listed : \A f \in reels[i].frames : ~(worker.from <= f /\ f < worker.from)
    <3> SUFFICES ASSUME NEW i \in AN!Listed, NEW f \in reels[i].frames PROVE f \in Nat
      BY <1>3
    <3> QED
      BY <1>1, <1>4, ReelIs
  <2> HIDE DEF w
  <2> QED
    BY <1>3, <1>4, <2>2, <2>3, <2>4 DEF OnWay, w
<1> QED
  BY <1>5, <1>6

\* A frame found is the first from the target on; where none is, there is none
\* until the walk's end, unless its file left the listing.
LEMMA NextFrameIs ==
  ASSUME ReelShape, NEW w \in AWalk, w.file \in DOMAIN reels \union {0}
  PROVE  LET n == AN!NextFrame(w)
         IN  /\ n.frame # 0 =>
                  /\ n.file \in DOMAIN reels /\ n.frame \in reels[n.file].frames
                  /\ w.target <= n.frame /\ n.frame <= w.to
                  /\ \A i \in AN!Listed : \A f \in reels[i].frames :
                       w.file <= i /\ w.target <= f => n.frame <= f
             /\ n.frame = 0 =>
                  \A i \in AN!Listed : \A f \in reels[i].frames :
                    w.file # 0 /\ w.file <= i /\ w.target <= f /\ f <= w.to => AN!Torn(w)
<1> DEFINE n == AN!NextFrame(w)
           ahead(i) == {f \in reels[i].frames : f >= w.target}
           reached == {i \in AN!Onward(w.file) : ahead(i) # {}}
           file == AN!Least(reached)
           ms == AN!Least(ahead(file))
<1>1. n = IF w.file = 0 \/ reached = {} THEN [frame |-> 0, file |-> 0]
          ELSE [frame |-> IF ms <= w.to THEN ms ELSE 0, file |-> file]
  BY Zenon DEF AN!NextFrame
<1>2. AN!Listed \subseteq DOMAIN reels /\ AN!Listed \subseteq Nat \ {0} /\ w.target \in Nat /\ w.to \in Nat
  BY ListedAre DEF AWalk
<1>3. CASE w.file = 0
  <2>1. n.frame = 0
    BY <1>1, <1>3
  <2> QED
    BY <1>3, <2>1
<1>4. CASE w.file # 0
  <2>1. AN!Onward(w.file) \subseteq DOMAIN reels /\ w.file \in Nat \ {0} /\ w.file \in DOMAIN reels
        /\ DOMAIN reels \subseteq Nat \ {0}
    <3>1. w.file \in DOMAIN reels
      BY <1>4
    <3>2. DOMAIN reels \subseteq Nat \ {0}
      BY ReelIs
    <3> QED
      BY <1>2, <3>1, <3>2 DEF AN!Onward
  <2>2. \A i \in AN!Listed : w.file \in AN!Listed /\ w.file <= i => i \in AN!Onward(w.file)
    BY <1>2, <2>1 DEF AN!Onward
  <2>3. w.file \in AN!Onward(w.file)
    BY DEF AN!Onward
  <2>4. \A j \in AN!Onward(w.file) : w.file <= j
    BY <1>2, <2>1 DEF AN!Onward
  <2>5. CASE reached = {}
    <3>1. n.frame = 0
      BY <1>1, <2>5
    <3>2. ASSUME NEW i \in AN!Listed, NEW f \in reels[i].frames, w.file <= i, w.target <= f
          PROVE  AN!Torn(w)
      <4>1. f \in ahead(i)
        BY <1>2, <3>2, ReelIs
      <4>2. i \notin AN!Onward(w.file)
        BY <2>5, <4>1
      <4>3. w.file \notin AN!Listed
        BY <2>2, <3>2, <4>2
      <4>4. ahead(w.file) = {}
        BY <2>3, <2>5
      <4> QED
        BY <1>4, <4>3, <4>4 DEF AN!Torn
    <3> QED
      BY <3>1, <3>2
  <2>6. CASE reached # {}
    <3>1. file \in reached /\ \A j \in reached : file <= j
      <4>1. reached \subseteq Nat
        BY <2>1
      <4> HIDE DEF reached
      <4> QED
        BY <2>6, <4>1, FirstOf
    <3> HIDE DEF file
    <3>2. file \in DOMAIN reels /\ file \in AN!Onward(w.file) /\ ahead(file) # {} /\ ahead(file) \subseteq Nat \ {0}
      <4>1. file \in DOMAIN reels /\ file \in AN!Onward(w.file) /\ ahead(file) # {}
        BY <2>1, <3>1
      <4> QED
        BY <4>1, ReelIs
    <3>3. ms \in ahead(file) /\ \A f \in ahead(file) : ms <= f
      <4> DEFINE S == ahead(file)
      <4>1. S # {} /\ S \subseteq Nat
        BY <3>2
      <4> HIDE DEF S
      <4>2. AN!Least(S) \in S /\ \A f \in S : AN!Least(S) <= f
        BY <4>1, FirstOf
      <4> QED
        BY <4>2 DEF S
    <3> HIDE DEF ms
    <3>4. ms \in reels[file].frames /\ w.target <= ms /\ ms \in Nat \ {0}
      BY <3>2, <3>3
    <3>5. n = [frame |-> IF ms <= w.to THEN ms ELSE 0, file |-> file]
      BY <1>1, <1>4, <2>6 DEF file, ms
    <3>6. ASSUME NEW i \in AN!Listed, NEW f \in reels[i].frames, w.file <= i, w.target <= f
          PROVE  ms <= f
      <4>1. i \in DOMAIN reels /\ i \in Nat /\ f \in Nat /\ f \in ahead(i) /\ file \in Nat
        BY <1>2, <2>1, <3>2, <3>6, ReelIs
      <4>2. CASE file = i
        BY <3>3, <4>1, <4>2
      <4>3. CASE file < i
        <5>1. ms < f
          BY <3>2, <3>4, <4>1, <4>3, InOrder
        <5> QED
          BY <3>4, <4>1, <5>1
      <4>4. CASE i < file
        <5>1. w.file \in AN!Listed
          BY <2>1, <2>4, <3>2, <3>6, <4>1, <4>4 DEF AN!Onward
        <5>2. i \in reached
          BY <2>2, <3>6, <4>1, <5>1
        <5> QED
          BY <3>1, <4>1, <4>4, <5>2
      <4> QED
        BY <4>1, <4>2, <4>3, <4>4
    <3>7. CASE ms <= w.to
      <4>1. n.frame = ms /\ n.file = file
        BY <3>5, <3>7
      <4> HIDE DEF n
      <4> QED
        BY <3>2, <3>4, <3>6, <3>7, <4>1 DEF n
    <3>8. CASE ~(ms <= w.to)
      <4>1. n.frame = 0
        BY <3>5, <3>8
      <4>2. ASSUME NEW i \in AN!Listed, NEW f \in reels[i].frames, w.file <= i, w.target <= f, f <= w.to
            PROVE  FALSE
        <5>1. ms <= f /\ f \in Nat
          BY <1>2, <3>6, <4>2, ReelIs
        <5> QED
          BY <1>2, <3>4, <3>8, <4>2, <5>1
      <4> HIDE DEF n
      <4> QED
        BY <4>1, <4>2 DEF n
    <3> QED
      BY <3>7, <3>8
  <2> QED
    BY <2>5, <2>6
<1> QED
  BY <1>3, <1>4

-----------------------------------------------------------------------------
(* What the recorder and the retention do to it. *)

\* The same analysis, further on.
Outgrows(s, t) ==
  t.begun = s.begun /\ s.looked \subseteq t.looked /\ s.excused \subseteq t.excused

\* What comes to the listing is not older than Delay.
Renews(rs, ts, then) ==
  \A i \in There(ts) : \A f \in ts[i].frames :
    f \in Nat /\ (then <= f + Delay \/ \E j \in There(rs) : f \in rs[j].frames)

LEMMA SoundStays ==
  ASSUME NEW rs, NEW ts, NEW then \in Nat, NEW after \in Nat, then <= after,
         NEW s \in ASeen, NEW t \in ASeen, Outgrows(s, t), Renews(rs, ts, then),
         NEW ms \in Nat, Sound(rs, then, s, ms)
  PROVE  Sound(ts, after, t, ms)
<1>1. /\ Delay \in Nat /\ Behind \in Nat /\ Delay < Behind
      /\ t.begun = s.begun /\ s.begun \in Nat
      /\ s.looked \subseteq t.looked /\ s.excused \subseteq t.excused
  BY AnalysisFacts DEF Outgrows, ASeen
<1>2. ms + Behind <= after + 1 \/ ms <= t.begun
  BY <1>1 DEF Sound
<1>3. ASSUME NEW i \in There(ts), NEW f \in ts[i].frames
      PROVE  AN!Passed(t, f, ms)
  <2>1. f \in Nat /\ (then <= f + Delay \/ \E j \in There(rs) : f \in rs[j].frames)
    BY <1>3 DEF Renews
  <2> SUFFICES ASSUME t.begun <= f, f < ms, f \notin t.excused
               PROVE  \E g \in t.looked : g <= f /\ f < g + Step
    BY DEF AN!Passed
  <2>2. ~(ms <= t.begun)
    BY <1>1, <2>1
  <2>3. ms + Behind <= then + 1
    BY <1>1, <2>2 DEF Sound
  <2>4. PICK j \in There(rs) : f \in rs[j].frames
    BY <1>1, <2>1, <2>3
  <2>5. AN!Passed(s, f, ms)
    BY <2>4 DEF Sound
  <2>6. \E g \in s.looked : g <= f /\ f < g + Step
    BY <1>1, <2>5 DEF AN!Passed
  <2> QED
    BY <1>1, <2>6
<1> QED
  BY <1>2, <1>3 DEF Sound

LEMMA ListedOn == AN!Listed = There(reels)
  BY DEF AN!Listed, There

LEMMA PlacesAre ==
  ASSUME AnalysisShape
  PROVE  /\ progress.to \in Nat /\ worker.from \in Nat /\ worker.saved \in Nat
         /\ \A k \in 1 .. Len(jobs) : jobs[k] \in APost /\ jobs[k].to \in Nat
         /\ \A m \in Models : seen[m] \in ASeen
<1>1. progress \in [to : Nat, model : Models \union {"none"}] /\ worker \in AWork /\ jobs \in Seq(APost)
      /\ seen \in [Models -> ASeen]
  BY DEF AnalysisShape
<1>2. progress.to \in Nat
  BY <1>1
<1>3. worker.from \in Nat /\ worker.saved \in Nat
  BY <1>1 DEF AWork
<1>4. \A k \in 1 .. Len(jobs) : jobs[k] \in APost
  BY <1>1
<1>5. \A k \in 1 .. Len(jobs) : jobs[k].to \in Nat
  BY <1>4 DEF APost
<1> QED
  BY <1>1, <1>2, <1>3, <1>4, <1>5

\* Neither time nor what comes to disk or goes takes anything from it.
LEMMA DiskKeeps ==
  ASSUME AnalysisInv, ReelShape', FilmShape', today <= today', Renews(reels, reels', today),
         \A i \in DOMAIN reels : i \in DOMAIN reels' /\ reels[i].frames \subseteq reels'[i].frames,
         UNCHANGED <<worker, event, jobs, analysisEvents, progress, seen>>
  PROVE  AnalysisInv'
<1>1. /\ today \in Nat /\ today' \in Nat /\ AnalysisShape
      /\ worker' = worker /\ event' = event /\ jobs' = jobs /\ analysisEvents' = analysisEvents
      /\ progress' = progress /\ seen' = seen
  BY DEF AnalysisInv, ReelShape
<1>2. \A m \in Models : seen[m] \in ASeen /\ Outgrows(seen[m], seen[m])
  BY <1>1, PlacesAre DEF Outgrows
<1>3. \A m \in Models, ms \in Nat :
        Sound(reels, today, seen[m], ms) => Sound(reels', today', seen[m], ms)
  BY <1>1, <1>2, SoundStays
<1>4. /\ progress.to \in Nat /\ worker.from \in Nat
      /\ \A k \in 1 .. Len(jobs) : jobs[k].to \in Nat
  BY <1>1, PlacesAre
<1>5. AnalysisShape'
  BY <1>1 DEF AnalysisShape
<1>6. ProgressInv'
  BY <1>1, <1>3, <1>4 DEF AnalysisInv, ProgressInv
<1>7. PostsInv'
  <2> SUFFICES ASSUME NEW k \in 1 .. Len(jobs) PROVE PostInv(k)'
    BY <1>1 DEF PostsInv
  <2>1. PostInv(k)
    BY DEF AnalysisInv, PostsInv
  <2> QED
    BY <1>1, <1>3, <1>4, <2>1 DEF PostInv
<1>8. WorkInv'
  <2> SUFFICES ASSUME worker.at # "off" PROVE WorkInv'
    BY <1>1 DEF WorkInv
  <2>1. WorkInv
    BY DEF AnalysisInv
  <2>2. Sound(reels', today', seen[worker.model], worker.from) /\ worker.model \in Models
    BY <1>3, <1>4, <2>1 DEF WorkInv
  <2>3. worker.at = "round" => worker.target + Behind <= today'
    <3>1. worker.target \in Nat
      BY <1>1 DEF AnalysisShape, AWork
    <3>2. worker.at = "round" => worker.target + Behind <= today
      BY <2>1 DEF WorkInv
    <3>3. Behind \in Nat
      BY AnalysisFacts
    <3> QED
      BY <1>1, <3>1, <3>2, <3>3
  <2>4. HandInv'
    <3> SUFFICES ASSUME worker.walk # Nil PROVE HandInv'
      BY <1>1 DEF HandInv
    <3>1. HandInv /\ worker.walk \in AWalk
      BY <1>1, <2>1 DEF WorkInv, AnalysisShape, AWork
    <3>2. worker.walk.to + Behind <= today'
      BY <1>1, <3>1, AnalysisFacts DEF HandInv, AWalk
    <3> QED
      BY <1>1, <3>1, <3>2 DEF HandInv
  <2> QED
    BY <1>1, <2>1, <2>2, <2>3, <2>4 DEF WorkInv
<1> QED
  BY <1>1, <1>5, <1>6, <1>7, <1>8 DEF AnalysisInv, RestInv

LEMMA FilmKeeps ==
  ASSUME AnalysisInv, AN!Film
  PROVE  AnalysisInv'
<1>1. /\ ReelShape /\ FilmShape /\ today \in Nat \ {0} /\ Delay \in Nat
  BY AnalysisFacts DEF AnalysisInv, ReelShape
<1>2. /\ today' = today + 1 /\ reels' = reels
      /\ UNCHANGED <<worker, event, jobs, analysisEvents, progress, seen>>
      /\ filmed # <<>> => filmed[1].frame + Delay > today
  BY DEF AN!Film, AN!Base
<1>3. filmed \in Seq(AFilm) /\ Len(filmed) \in Nat
  BY <1>1 DEF FilmShape
<1>4. \A k \in 1 .. Len(filmed) : filmed[k].frame \in Nat /\ today + 1 <= filmed[k].frame + Delay
  <2> SUFFICES ASSUME NEW k \in 1 .. Len(filmed)
               PROVE  filmed[k].frame \in Nat /\ today + 1 <= filmed[k].frame + Delay
    OBVIOUS
  <2>1. 1 \in 1 .. Len(filmed) /\ filmed # <<>>
    BY <1>3
  <2>2. filmed[1] \in AFilm /\ filmed[k] \in AFilm
    BY <1>3, <2>1
  <2>3. filmed[1].frame \in Nat /\ filmed[k].frame \in Nat
    BY <2>2 DEF AFilm
  <2>4. k = 1 \/ filmed[1].frame < filmed[k].frame
    BY <1>1, <1>3, <2>1 DEF FilmShape
  <2> QED
    BY <1>1, <1>2, <2>1, <2>3, <2>4
<1>5. ReelShape'
  <2>1. \A i \in DOMAIN reels : \A f \in reels[i].frames : f < today + 1
    <3> SUFFICES ASSUME NEW i \in DOMAIN reels, NEW f \in reels[i].frames PROVE f < today + 1
      OBVIOUS
    <3>1. f \in Nat /\ f < today
      BY <1>1, ReelIs DEF ReelShape
    <3> QED
      BY <1>1, <3>1
  <2> QED
    BY <1>1, <1>2, <2>1 DEF ReelShape
<1>6. FilmShape'
  <2>1. CASE filmed' = filmed
    <3>1. \A k \in 1 .. Len(filmed) :
            /\ 0 < filmed[k].frame /\ filmed[k].frame < today + 1
            /\ \A i \in DOMAIN reels : \A f \in reels[i].frames : f < filmed[k].frame
      <4> SUFFICES ASSUME NEW k \in 1 .. Len(filmed)
                   PROVE  /\ 0 < filmed[k].frame /\ filmed[k].frame < today + 1
                          /\ \A i \in DOMAIN reels : \A f \in reels[i].frames : f < filmed[k].frame
        OBVIOUS
      <4>1. /\ 0 < filmed[k].frame /\ filmed[k].frame < today
            /\ \A i \in DOMAIN reels : \A f \in reels[i].frames : f < filmed[k].frame
        BY <1>1 DEF FilmShape
      <4>2. filmed[k].frame \in Nat
        BY <1>4
      <4> QED
        BY <1>1, <4>1, <4>2
    <3>2. \A k, l \in 1 .. Len(filmed) : k < l => filmed[k].frame < filmed[l].frame
      BY <1>1 DEF FilmShape
    <3> QED
      BY <1>2, <1>3, <1>4, <2>1, <3>1, <3>2 DEF FilmShape
  <2>2. CASE \E roll \in BOOLEAN : filmed' = Append(filmed, [frame |-> today, roll |-> roll])
    <3>1. PICK roll \in BOOLEAN : filmed' = Append(filmed, [frame |-> today, roll |-> roll])
      BY <2>2
    <3> DEFINE new == [frame |-> today, roll |-> roll]
    <3>2. new \in AFilm /\ new.frame = today
      BY <1>1 DEF AFilm
    <3> HIDE DEF new
    <3>3. /\ filmed' \in Seq(AFilm) /\ Len(filmed') = Len(filmed) + 1 /\ filmed'[Len(filmed) + 1] = new
          /\ \A k \in 1 .. Len(filmed) : filmed'[k] = filmed[k]
      BY <1>3, <3>1, <3>2 DEF new
    <3>4. \A k \in 1 .. Len(filmed') : k = Len(filmed) + 1 \/ k \in 1 .. Len(filmed)
      BY <1>3, <3>3
    <3>5. \A i \in DOMAIN reels : \A f \in reels[i].frames : f < today
      BY <1>1 DEF ReelShape
    <3>6. \A k \in 1 .. Len(filmed) :
            /\ 0 < filmed[k].frame /\ filmed[k].frame < today /\ today <= filmed[k].frame + Delay
            /\ \A i \in DOMAIN reels : \A f \in reels[i].frames : f < filmed[k].frame
      BY <1>1 DEF FilmShape
    <3>7. \A k \in 1 .. Len(filmed') :
            /\ 0 < filmed'[k].frame /\ filmed'[k].frame < today' /\ today' <= filmed'[k].frame + Delay
            /\ \A i \in DOMAIN reels' : \A f \in reels'[i].frames : f < filmed'[k].frame
      <4> SUFFICES ASSUME NEW k \in 1 .. Len(filmed')
                   PROVE  /\ 0 < filmed'[k].frame /\ filmed'[k].frame < today'
                          /\ today' <= filmed'[k].frame + Delay
                          /\ \A i \in DOMAIN reels : \A f \in reels[i].frames : f < filmed'[k].frame
        BY <1>2
      <4>1. CASE k \in 1 .. Len(filmed)
        <5>1. /\ 0 < filmed[k].frame /\ filmed[k].frame < today /\ filmed[k].frame \in Nat
              /\ today + 1 <= filmed[k].frame + Delay
              /\ \A i \in DOMAIN reels : \A f \in reels[i].frames : f < filmed[k].frame
          BY <1>4, <3>6, <4>1
        <5>2. filmed'[k] = filmed[k] /\ today' = today + 1
          BY <1>2, <3>3, <4>1
        <5> QED
          BY <1>1, <5>1, <5>2
      <4>2. CASE k = Len(filmed) + 1
        <5>1. Delay >= 1
          BY <1>1, AnalysisFacts
        <5> QED
          BY <1>1, <1>2, <3>2, <3>3, <3>5, <4>2, <5>1
      <4> QED
        BY <3>4, <4>1, <4>2
    <3>8. \A k, l \in 1 .. Len(filmed') : k < l => filmed'[k].frame < filmed'[l].frame
      <4> SUFFICES ASSUME NEW k \in 1 .. Len(filmed'), NEW l \in 1 .. Len(filmed'), k < l
                   PROVE  filmed'[k].frame < filmed'[l].frame
        OBVIOUS
      <4>1. k \in 1 .. Len(filmed)
        BY <1>3, <3>3
      <4>2. CASE l \in 1 .. Len(filmed)
        BY <1>1, <3>3, <4>1, <4>2 DEF FilmShape
      <4>3. CASE l = Len(filmed) + 1
        BY <3>2, <3>3, <3>6, <4>1, <4>3
      <4> QED
        BY <3>4, <4>2, <4>3
    <3> QED
      BY <3>3, <3>7, <3>8 DEF FilmShape
  <2> QED
    BY <2>1, <2>2 DEF AN!Film
<1>7. Renews(reels, reels', today)
  <2>1. \A i \in There(reels) : i \in DOMAIN reels
    BY DEF There
  <2> QED
    BY <1>1, <1>2, <2>1, ReelIs DEF Renews
<1> QED
  BY <1>1, <1>2, <1>5, <1>6, <1>7, DiskKeeps

LEMMA Appended ==
  ASSUME NEW S, NEW s \in Seq(S), NEW x \in S, NEW t, t = Append(s, x)
  PROVE  /\ t \in Seq(S) /\ Len(s) \in Nat /\ Len(t) = Len(s) + 1 /\ t[Len(t)] = x
         /\ DOMAIN s = 1 .. Len(s) /\ DOMAIN t = 1 .. Len(t)
         /\ \A i \in 1 .. Len(s) : i \in 1 .. Len(t) /\ t[i] = s[i]
         /\ \A i \in 1 .. Len(t) : i \in 1 .. Len(s) \/ (i = Len(t) /\ i \notin 1 .. Len(s))
<1>1. /\ t \in Seq(S) /\ Len(s) \in Nat /\ Len(t) = Len(s) + 1 /\ t[Len(s) + 1] = x
      /\ \A i \in 1 .. Len(s) : t[i] = s[i]
  BY AppendProperties
<1>2. DOMAIN s = 1 .. Len(s) /\ DOMAIN t = 1 .. Len(t)
  BY <1>1, LenProperties
<1>3. \A i \in 1 .. Len(s) : i \in 1 .. Len(t)
  BY <1>1
<1>4. \A i \in 1 .. Len(t) : i \in 1 .. Len(s) \/ (i = Len(t) /\ i \notin 1 .. Len(s))
  BY <1>1
<1> QED
  BY <1>1, <1>2, <1>3, <1>4

\* The recordings with a frame x more in the last, which may be new.
LEMMA ReelsGain ==
  ASSUME ReelShape, FilmShape, filmed # <<>>, NEW x \in Nat, x = filmed[1].frame,
         \/ reels' = Append(reels, [frames |-> {x}, gone |-> FALSE])
         \/ reels # <<>> /\ reels' = [reels EXCEPT ![Len(reels)].frames = @ \union {x}]
  PROVE  /\ reels' \in Seq([frames : SUBSET Nat, gone : BOOLEAN])
         /\ \A i \in DOMAIN reels :
              /\ i \in DOMAIN reels' /\ reels[i].frames \subseteq reels'[i].frames
              /\ reels'[i].gone = reels[i].gone
         /\ \A i \in DOMAIN reels' :
              \/ i \in DOMAIN reels /\ reels'[i].frames = reels[i].frames
              \/ i = Len(reels') /\ i \in DOMAIN reels /\ reels'[i].frames = reels[i].frames \union {x}
              \/ i = Len(reels') /\ i \notin DOMAIN reels /\ reels'[i].frames = {x}
<1> DEFINE R == [frames : SUBSET Nat, gone : BOOLEAN]
<1>1. reels \in Seq(R) /\ Len(reels) \in Nat /\ DOMAIN reels = 1 .. Len(reels)
  BY DEF ReelShape
<1> HIDE DEF R
<1>2. \A i \in DOMAIN reels : reels[i] \in R
  BY <1>1, ElementOfSeq
<1>3. CASE reels' = Append(reels, [frames |-> {x}, gone |-> FALSE])
  <2> DEFINE new == [frames |-> {x}, gone |-> FALSE]
  <2>1. new \in R /\ new.frames = {x}
    BY DEF R
  <2> HIDE DEF new
  <2>2. /\ reels' \in Seq(R) /\ reels'[Len(reels')] = new
        /\ DOMAIN reels = 1 .. Len(reels) /\ DOMAIN reels' = 1 .. Len(reels')
        /\ \A i \in 1 .. Len(reels) : i \in 1 .. Len(reels') /\ reels'[i] = reels[i]
        /\ \A i \in 1 .. Len(reels') : i \in 1 .. Len(reels) \/ (i = Len(reels') /\ i \notin 1 .. Len(reels))
    BY <1>1, <1>3, <2>1, Appended DEF new
  <2>4. \A i \in DOMAIN reels' :
          i \in DOMAIN reels \/ (i = Len(reels') /\ i \notin DOMAIN reels)
    BY <2>2
  <2>5. \A i \in DOMAIN reels : i \in DOMAIN reels' /\ reels'[i] = reels[i]
    BY <2>2
  <2>6. \A i \in DOMAIN reels' :
           \/ i \in DOMAIN reels /\ reels'[i].frames = reels[i].frames
           \/ i = Len(reels') /\ i \notin DOMAIN reels /\ reels'[i].frames = {x}
    BY <2>1, <2>2, <2>4, <2>5
  <2> QED
    BY <2>2, <2>5, <2>6 DEF R
<1>4. CASE reels # <<>> /\ reels' = [reels EXCEPT ![Len(reels)].frames = @ \union {x}]
  <2> DEFINE l == Len(reels)
             new == [reels[l] EXCEPT !.frames = @ \union {x}]
  <2>1. l \in DOMAIN reels
    <3>1. Len(reels) # 0
      BY <1>1, <1>4, EmptySeq
    <3> QED
      BY <1>1, <3>1
  <2>2. reels[l] \in R
    BY <1>2, <2>1
  <2>3. new \in R /\ new.frames = reels[l].frames \union {x} /\ new.gone = reels[l].gone
    BY <2>2 DEF R
  <2>4. reels' = [reels EXCEPT ![l] = new]
    BY <1>4, Zenon
  <2> HIDE DEF new
  <2>5. DOMAIN reels' = DOMAIN reels /\ reels'[l] = new /\ \A i \in DOMAIN reels : i # l => reels'[i] = reels[i]
    BY <2>1, <2>4
  <2>6. reels' \in Seq(R) /\ Len(reels') = Len(reels)
    BY <1>1, <2>1, <2>3, <2>4, ExceptSeq
  <2> HIDE DEF l
  <2>7. \A i \in DOMAIN reels :
          /\ i \in DOMAIN reels' /\ reels[i].frames \subseteq reels'[i].frames
          /\ reels'[i].gone = reels[i].gone
    BY <2>3, <2>5
  <2>8. \A i \in DOMAIN reels' :
          \/ i \in DOMAIN reels /\ reels'[i].frames = reels[i].frames
          \/ i = Len(reels') /\ i \in DOMAIN reels /\ reels'[i].frames = reels[i].frames \union {x}
    <3>1. l = Len(reels')
      BY <2>6 DEF l
    <3> QED
      BY <2>3, <2>5, <3>1
  <2> QED
    BY <2>6, <2>7, <2>8 DEF R
<1> QED
  BY <1>3, <1>4

LEMMA WriteFrameKeeps ==
  ASSUME AnalysisInv, AN!WriteFrame
  PROVE  AnalysisInv'
<1>1. ReelShape /\ FilmShape /\ today \in Nat \ {0}
  BY DEF AnalysisInv, ReelShape
<1>2. filmed \in Seq(AFilm) /\ Len(filmed) \in Nat \ {0} /\ filmed # <<>>
  BY <1>1 DEF FilmShape, AN!WriteFrame
<1>3. PICK x \in Nat : x = filmed[1].frame
  <2>1. filmed[1] \in AFilm
    BY <1>2
  <2> QED
    BY <2>1 DEF AFilm
<1>4. /\ filmed' = Tail(filmed) /\ today' = today
      /\ UNCHANGED <<worker, event, jobs, analysisEvents, progress, seen>>
  BY DEF AN!WriteFrame, AN!Base
<1>5. \/ reels' = Append(reels, [frames |-> {x}, gone |-> FALSE])
      \/ reels # <<>> /\ reels' = [reels EXCEPT ![Len(reels)].frames = @ \union {x}]
  <2>1. Head(filmed) = filmed[1]
    BY <1>2
  <2> QED
    BY <1>3, <2>1 DEF AN!WriteFrame
<1>6. /\ reels' \in Seq([frames : SUBSET Nat, gone : BOOLEAN])
      /\ \A i \in DOMAIN reels :
           /\ i \in DOMAIN reels' /\ reels[i].frames \subseteq reels'[i].frames
           /\ reels'[i].gone = reels[i].gone
      /\ \A i \in DOMAIN reels' :
           \/ i \in DOMAIN reels /\ reels'[i].frames = reels[i].frames
           \/ i = Len(reels') /\ i \in DOMAIN reels /\ reels'[i].frames = reels[i].frames \union {x}
           \/ i = Len(reels') /\ i \notin DOMAIN reels /\ reels'[i].frames = {x}
  BY <1>1, <1>2, <1>3, <1>5, ReelsGain
<1>7. /\ 0 < x /\ x < today /\ today <= x + Delay
      /\ \A i \in DOMAIN reels : \A f \in reels[i].frames : f < x
  BY <1>1, <1>2, <1>3 DEF FilmShape
<1>8. \A i \in DOMAIN reels' : \A f \in reels'[i].frames :
        (i \in DOMAIN reels /\ f \in reels[i].frames) \/ (i = Len(reels') /\ f = x)
  BY <1>6
<1>9. DOMAIN reels' = 1 .. Len(reels') /\ Len(reels') \in Nat /\ DOMAIN reels \subseteq Nat
  BY <1>1, <1>6 DEF ReelShape
<1>10. ReelShape'
  <2>1. \A i \in DOMAIN reels' : reels'[i].frames # {} /\ \A f \in reels'[i].frames : 0 < f /\ f < today
    <3>1. \A i \in DOMAIN reels' : reels'[i].frames # {}
      BY <1>1, <1>6 DEF ReelShape
    <3> QED
      BY <1>1, <1>7, <1>8, <3>1 DEF ReelShape
  <2>2. ASSUME NEW i \in DOMAIN reels', NEW j \in DOMAIN reels', i < j,
               NEW f \in reels'[i].frames, NEW g \in reels'[j].frames
        PROVE  f < g
    <3>1. i # Len(reels')
      BY <1>9, <2>2
    <3>2. i \in DOMAIN reels /\ f \in reels[i].frames
      BY <1>8, <3>1
    <3>3. CASE j \in DOMAIN reels /\ g \in reels[j].frames
      BY <1>1, <2>2, <3>2, <3>3, InOrder
    <3>4. CASE g = x
      BY <1>7, <3>2, <3>4
    <3> QED
      BY <1>8, <3>3, <3>4
  <2> QED
    BY <1>1, <1>4, <1>6, <2>1, <2>2 DEF ReelShape
<1>11. /\ filmed' \in Seq(AFilm) /\ Len(filmed') = Len(filmed) - 1
       /\ \A k \in 1 .. Len(filmed') : k + 1 \in 1 .. Len(filmed) /\ filmed'[k] = filmed[k + 1]
  BY <1>2, <1>4
<1>12. FilmShape'
  <2>1. ASSUME NEW k \in 1 .. Len(filmed')
        PROVE  /\ 0 < filmed'[k].frame /\ filmed'[k].frame < today' /\ today' <= filmed'[k].frame + Delay
               /\ \A i \in DOMAIN reels' : \A f \in reels'[i].frames : f < filmed'[k].frame
    <3>1. k + 1 \in 1 .. Len(filmed) /\ filmed'[k] = filmed[k + 1] /\ 1 < k + 1 /\ 1 \in 1 .. Len(filmed)
      BY <1>2, <1>11
    <3>2. x < filmed[k + 1].frame
      BY <1>1, <1>3, <3>1 DEF FilmShape
    <3>3. /\ 0 < filmed[k + 1].frame /\ filmed[k + 1].frame < today /\ today <= filmed[k + 1].frame + Delay
          /\ \A i \in DOMAIN reels : \A f \in reels[i].frames : f < filmed[k + 1].frame
      BY <1>1, <3>1 DEF FilmShape
    <3> QED
      BY <1>4, <1>8, <3>1, <3>2, <3>3
  <2>2. ASSUME NEW k \in 1 .. Len(filmed'), NEW l \in 1 .. Len(filmed'), k < l
        PROVE  filmed'[k].frame < filmed'[l].frame
    <3>1. /\ k + 1 \in 1 .. Len(filmed) /\ filmed'[k] = filmed[k + 1] /\ k + 1 < l + 1
          /\ l + 1 \in 1 .. Len(filmed) /\ filmed'[l] = filmed[l + 1]
      BY <1>2, <1>11, <2>2
    <3> QED
      BY <1>1, <3>1 DEF FilmShape
  <2> QED
    BY <1>11, <2>1, <2>2 DEF FilmShape
<1>13. Renews(reels, reels', today)
  <2> SUFFICES ASSUME NEW i \in There(reels'), NEW f \in reels'[i].frames
               PROVE  f \in Nat /\ (today <= f + Delay \/ \E j \in There(reels) : f \in reels[j].frames)
    BY DEF Renews
  <2>1. i \in DOMAIN reels' /\ ~reels'[i].gone
    BY DEF There
  <2>2. CASE i \in DOMAIN reels /\ f \in reels[i].frames
    <3>1. i \in There(reels)
      BY <1>6, <2>1, <2>2 DEF There
    <3> QED
      BY <1>1, <2>2, <3>1, ReelIs
  <2>3. CASE f = x
    BY <1>7, <2>3
  <2> QED
    BY <1>8, <2>1, <2>2, <2>3
<1> QED
  BY <1>1, <1>4, <1>6, <1>10, <1>12, <1>13, DiskKeeps

LEMMA DropReelKeeps ==
  ASSUME AnalysisInv, NEW d \in DOMAIN reels, AN!DropReel(d)
  PROVE  AnalysisInv'
<1> DEFINE R == [frames : SUBSET Nat, gone : BOOLEAN]
           new == [reels[d] EXCEPT !.gone = TRUE]
<1>1. ReelShape /\ FilmShape /\ today \in Nat \ {0} /\ reels \in Seq(R)
  BY DEF AnalysisInv, ReelShape
<1>2. /\ reels' = [reels EXCEPT ![d] = new] /\ filmed' = filmed /\ today' = today
      /\ UNCHANGED <<worker, event, jobs, analysisEvents, progress, seen>>
  BY DEF AN!DropReel, AN!Base
<1>3. reels[d] \in R
  BY <1>1, ElementOfSeq, LenProperties
<1>4. new \in R /\ new.frames = reels[d].frames /\ new.gone
  BY <1>3
<1> HIDE DEF new
<1>5. DOMAIN reels' = DOMAIN reels /\ reels'[d] = new /\ \A i \in DOMAIN reels : i # d => reels'[i] = reels[i]
  BY <1>2
<1>6. reels' \in Seq(R)
  <2> HIDE DEF R
  <2> QED
    BY <1>1, <1>2, <1>4, ExceptSeq
<1>7. \A i \in DOMAIN reels : reels'[i].frames = reels[i].frames
  BY <1>4, <1>5
<1>8. ReelShape'
  BY <1>1, <1>2, <1>5, <1>6, <1>7 DEF ReelShape
<1>9. FilmShape'
  BY <1>1, <1>2, <1>5, <1>7 DEF FilmShape
<1>10. Renews(reels, reels', today)
  <2> SUFFICES ASSUME NEW i \in There(reels'), NEW f \in reels'[i].frames
               PROVE  f \in Nat /\ i \in There(reels) /\ f \in reels[i].frames
    BY DEF Renews
  <2>1. i \in DOMAIN reels /\ i # d /\ reels'[i] = reels[i]
    BY <1>4, <1>5 DEF There
  <2> QED
    BY <1>1, <2>1, ReelIs DEF There
<1> QED
  BY <1>1, <1>2, <1>5, <1>7, <1>8, <1>9, <1>10, DiskKeeps

-----------------------------------------------------------------------------
(* The analyzer and what it posts. *)

Closing == Append(jobs, AN!EventJob(event))

\* What the analyzer has after a frame: the event that was open goes on, or was
\* posted.
Carries(a) ==
  /\ a.open \in AMove \union {Nil}
  /\ \/ /\ a.posts = jobs
        /\ event # Nil => /\ a.open # Nil /\ a.open.start <= event.start
                          /\ event.end <= a.open.end
     \/ event # Nil /\ a.posts = Closing

\* And after one of ms.
Takes(a, ms, look) ==
  /\ Carries(a) /\ (a.open # Nil => a.open.start <= a.open.end /\ a.open.end <= ms)
  /\ look = "moved" => InOpen(a.open, ms)

LEMMA FlushIs ==
  AN!Flush(AN!Now) = [open |-> Nil, posts |-> IF event = Nil THEN jobs ELSE Closing]
  BY DEF AN!Flush, AN!Now, Closing

\* Where the event ends before the frame, and is closed by one that is far.
LEMMA FedIs ==
  ASSUME event \in AMove \union {Nil}, NEW ms \in Nat, NEW look,
         look \in {"moved", "still", "scene", "bad"},
         event # Nil => event.start <= event.end /\ event.end < ms
  PROVE  Takes(AN!Fed(AN!Jumped(AN!Now, ms), ms, look), ms, look)
<1> DEFINE kept == [open |-> event, posts |-> jobs]
           shut == [open |-> Nil, posts |-> IF event = Nil THEN jobs ELSE Closing]
           fresh == [start |-> ms, end |-> ms]
           j == AN!Jumped(AN!Now, ms)
           c == AN!CloseStale(j, ms)
           n == AN!Note(c, ms)
           a == AN!Fed(j, ms, look)
<1>1. AN!Now = kept /\ AN!Flush(kept) = shut /\ AN!Flush(shut) = shut
  BY FlushIs DEF AN!Now, AN!Flush
<1>2. j = kept \/ j = shut
  BY <1>1 DEF AN!Jumped
<1> HIDE DEF j
<1>3. AN!Flush(j) = shut
  BY <1>1, <1>2
<1>4. c = kept \/ c = shut
  BY <1>2, <1>3 DEF AN!CloseStale
<1> HIDE DEF c
<1>5. AN!Flush(c) = shut
  BY <1>1, <1>4
<1>6. fresh \in AMove /\ fresh # Nil /\ fresh.start = ms /\ fresh.end = ms
  BY AnalysisFacts DEF AMove
<1> HIDE DEF fresh
<1>7. /\ Carries(kept) /\ Carries(shut)
      /\ kept.open # Nil => kept.open.start <= kept.open.end /\ kept.open.end <= ms
      /\ shut.open = Nil
  <2>1. event # Nil => event.end \in Nat /\ event.start \in Nat
    BY DEF AMove
  <2> QED
    BY <2>1 DEF Carries
<1>8. Carries(n) /\ n.open # Nil /\ n.open.start <= ms /\ n.open.end = ms /\ InOpen(n.open, ms)
  <2> DEFINE longer == [event EXCEPT !.end = ms]
             stretches == c.open # Nil /\ ms - c.open.start < ceiling.mine
  <2>1. n = IF stretches THEN [c EXCEPT !.open.end = ms] ELSE [AN!Flush(c) EXCEPT !.open = fresh]
    BY Zenon DEF AN!Note, fresh
  <2>2. CASE stretches
    <3>1. c = kept /\ event # Nil /\ event \in AMove
      BY <1>4, <2>2
    <3>2. n = [open |-> longer, posts |-> jobs]
      BY <2>1, <2>2, <3>1
    <3>3. /\ longer \in AMove /\ longer # Nil /\ longer.start = event.start /\ longer.end = ms
          /\ event.start \in Nat /\ event.end \in Nat
      BY <3>1, AnalysisFacts DEF AMove
    <3> HIDE DEF longer, n
    <3> QED
      BY <3>1, <3>2, <3>3 DEF Carries, InOpen, Spans
  <2>3. CASE ~stretches
    <3>1. n = [open |-> fresh, posts |-> IF event = Nil THEN jobs ELSE Closing]
      BY <1>5, <2>1, <2>3
    <3> HIDE DEF n
    <3> QED
      BY <1>6, <3>1 DEF Carries, InOpen, Spans
  <2> QED
    BY <2>2, <2>3
<1> HIDE DEF n
<1>9. ASSUME look = "scene" PROVE Takes(a, ms, look)
  <2>1. a = shut
    BY <1>3, <1>9 DEF AN!Fed
  <2> QED
    BY <1>7, <1>9, <2>1 DEF Takes
<1>10. ASSUME look = "still" PROVE Takes(a, ms, look)
  <2>1. a = c
    BY <1>10 DEF AN!Fed, c
  <2> QED
    BY <1>4, <1>7, <1>10, <2>1 DEF Takes
<1>11. ASSUME look = "moved" PROVE Takes(a, ms, look)
  <2>1. a = n
    BY <1>11 DEF AN!Fed, c, n
  <2> QED
    BY <1>8, <2>1 DEF Takes
<1>12. ASSUME look = "bad" PROVE Takes(a, ms, look)
  <2>1. a = j
    BY <1>12 DEF AN!Fed
  <2> QED
    BY <1>2, <1>7, <1>12, <2>1 DEF Takes
<1> QED
  BY <1>9, <1>10, <1>11, <1>12 DEF j

-----------------------------------------------------------------------------
(* The posts. *)

ProgressPost(to, m) == [kind |-> "progress", from |-> 0, to |-> to, model |-> m]

LEMMA StillPosted ==
  ASSUME NEW js, NEW ks, NEW k \in Nat, NEW l \in Nat, k <= l,
         \A i \in 1 .. k : ks[i] = js[i], NEW f, InPosts(js, f, k)
  PROVE  InPosts(ks, f, l)
<1>1. PICK i \in 1 .. k : js[i].kind = "event" /\ Spans(f, js[i].from, js[i].to)
  BY DEF InPosts
<1>2. i \in 1 .. l /\ ks[i] = js[i]
  OBVIOUS
<1> QED
  BY <1>1, <1>2 DEF InPosts

LEMMA ClosingIs ==
  ASSUME AnalysisShape, event # Nil
  PROVE  /\ Closing \in Seq(APost) /\ Len(jobs) \in Nat /\ Len(Closing) = Len(jobs) + 1
         /\ \A i \in 1 .. Len(jobs) : i \in 1 .. Len(Closing) /\ Closing[i] = jobs[i]
         /\ \A i \in 1 .. Len(Closing) : i \in 1 .. Len(jobs) \/ Closing[i].kind = "event"
         /\ \A f : InOpen(event, f) => InPosts(Closing, f, Len(Closing))
<1> DEFINE e == AN!EventJob(event)
<1>1. jobs \in Seq(APost) /\ event \in AMove
  BY DEF AnalysisShape
<1>2. e = [kind |-> "event", from |-> event.start, to |-> event.end, model |-> "none"]
  BY DEF AN!EventJob
<1>3. e \in APost /\ e.kind = "event" /\ e.from = event.start /\ e.to = event.end
  BY <1>1, <1>2 DEF APost, AMove
<1> HIDE DEF e
<1>4. /\ Closing \in Seq(APost) /\ Len(jobs) \in Nat /\ Len(Closing) = Len(jobs) + 1
      /\ Closing[Len(Closing)] = e
      /\ \A i \in 1 .. Len(jobs) : i \in 1 .. Len(Closing) /\ Closing[i] = jobs[i]
      /\ \A i \in 1 .. Len(Closing) : i \in 1 .. Len(jobs) \/ i = Len(Closing)
  BY <1>1, <1>3, Appended DEF Closing, e
<1>5. \A i \in 1 .. Len(Closing) : i \in 1 .. Len(jobs) \/ Closing[i].kind = "event"
  BY <1>3, <1>4
<1>6. ASSUME NEW f, InOpen(event, f) PROVE InPosts(Closing, f, Len(Closing))
  <2>1. Len(Closing) \in 1 .. Len(Closing)
    BY <1>4
  <2> QED
    BY <1>3, <1>4, <1>6, <2>1 DEF InOpen, InPosts
<1> QED
  BY <1>4, <1>5, <1>6

\* A progress that is sound, and whose events were posted before it, may be
\* posted; and an analysis further on takes nothing from those there are.
LEMMA PostsKeep ==
  ASSUME AnalysisInv, worker.at # "off", UNCHANGED <<today, reels, analysisEvents, progress>>,
         seen' \in [Models -> ASeen],
         \A m \in Models :
           /\ Outgrows(seen[m], seen'[m])
           /\ \A f \in seen'[m].moved : f \in seen[m].moved \/ (m = worker.model /\ worker.from <= f),
         NEW p, p = jobs \/ (event # Nil /\ p = Closing), NEW to \in Nat,
         \/ jobs' = p
         \/ /\ jobs' = Append(p, ProgressPost(to, worker.model))
            /\ Sound(reels, today, seen'[worker.model], to)
            /\ \A f \in seen'[worker.model].moved :
                 f < to => \/ f \in seen'[worker.model].excused
                           \/ InTable(analysisEvents, f) \/ InPosts(p, f, Len(p))
  PROVE  /\ jobs' \in Seq(APost) /\ ProgressInv' /\ PostsInv'
         /\ \A k \in 1 .. Len(jobs') :
              jobs'[k].kind = "progress" =>
                /\ jobs'[k].model = worker.model
                /\ \/ jobs'[k].to <= worker.saved
                   \/ jobs' = Append(p, ProgressPost(to, worker.model)) /\ jobs'[k].to = to
         /\ \A f : InPosts(p, f, Len(p)) => InPosts(jobs', f, Len(jobs'))
         /\ \A f : InPosts(jobs, f, Len(jobs)) => InPosts(p, f, Len(p))
<1>1. /\ AnalysisShape /\ ProgressInv /\ PostsInv /\ WorkInv /\ today \in Nat /\ jobs \in Seq(APost)
  BY DEF AnalysisInv, AnalysisShape, ReelShape
<1>2. /\ worker.model \in Models /\ worker.saved <= worker.from
      /\ worker.from \in Nat /\ worker.saved \in Nat /\ progress.to \in Nat
      /\ \A k \in 1 .. Len(jobs) : jobs[k] \in APost /\ jobs[k].to \in Nat
      /\ \A m \in Models : seen[m] \in ASeen /\ seen'[m] \in ASeen
      /\ \A k \in 1 .. Len(jobs) :
           jobs[k].kind = "progress" => jobs[k].model = worker.model /\ jobs[k].to <= worker.saved
      /\ progress.model = worker.model => progress.to <= worker.saved
  BY <1>1, PlacesAre DEF WorkInv
<1>3. /\ p \in Seq(APost) /\ Len(p) \in Nat /\ Len(jobs) \in Nat /\ Len(jobs) <= Len(p)
      /\ \A i \in 1 .. Len(jobs) : i \in 1 .. Len(p) /\ p[i] = jobs[i]
      /\ \A i \in 1 .. Len(p) : i \in 1 .. Len(jobs) \/ p[i].kind = "event"
  <2>1. CASE p = jobs
    BY <1>1, <2>1
  <2>2. CASE event # Nil /\ p = Closing
    BY <1>1, <2>2, ClosingIs
  <2> QED
    BY <2>1, <2>2
<1> DEFINE j == ProgressPost(to, worker.model)
<1>4. j \in APost /\ j.kind = "progress" /\ j.to = to /\ j.model = worker.model
  BY <1>2 DEF ProgressPost, APost
<1> HIDE DEF j
<1>5. /\ jobs' \in Seq(APost) /\ Len(jobs') \in Nat /\ Len(p) <= Len(jobs')
      /\ \A i \in 1 .. Len(p) : i \in 1 .. Len(jobs') /\ jobs'[i] = p[i]
      /\ \A i \in 1 .. Len(jobs') :
           i \in 1 .. Len(p) \/ (jobs' = Append(p, j) /\ i = Len(jobs') /\ i = Len(p) + 1 /\ jobs'[i] = j)
  <2>1. CASE jobs' = p
    BY <1>3, <2>1
  <2>2. CASE jobs' = Append(p, j)
    BY <1>3, <1>4, <2>2, Appended
  <2> QED
    BY <2>1, <2>2 DEF j
<1>6. \A m \in Models : \A ms \in Nat :
        Sound(reels, today, seen[m], ms) => Sound(reels, today, seen'[m], ms)
  <2>1. Renews(reels, reels, today)
    <3>1. ReelShape /\ \A i \in There(reels) : i \in DOMAIN reels
      BY DEF AnalysisInv, There
    <3> QED
      BY <3>1, ReelIs DEF Renews
  <2> SUFFICES ASSUME NEW m \in Models, NEW ms \in Nat, Sound(reels, today, seen[m], ms)
               PROVE  Sound(reels, today, seen'[m], ms)
    OBVIOUS
  <2>2. seen[m] \in ASeen /\ seen'[m] \in ASeen /\ Outgrows(seen[m], seen'[m]) /\ today <= today
    BY <1>1, <1>2
  <2> QED
    BY <1>1, <2>1, <2>2, SoundStays
<1>7. \A m \in Models : \A ms \in Nat : (m = worker.model => ms <= worker.saved) =>
        \A f \in seen'[m].moved : f < ms =>
          f \in seen[m].moved /\ (f \in seen[m].excused => f \in seen'[m].excused)
  <2> SUFFICES ASSUME NEW m \in Models, NEW ms \in Nat, m = worker.model => ms <= worker.saved,
                      NEW f \in seen'[m].moved, f < ms
               PROVE  f \in seen[m].moved /\ (f \in seen[m].excused => f \in seen'[m].excused)
    OBVIOUS
  <2>1. f \in Nat
    BY <1>2 DEF ASeen
  <2>2. ~(m = worker.model /\ worker.from <= f)
    BY <1>2, <2>1
  <2> QED
    BY <2>2 DEF Outgrows
<1>8. ProgressInv'
  <2> SUFFICES ASSUME progress.model \in Models
               PROVE  /\ Sound(reels, today, seen'[progress.model], progress.to)
                      /\ \A f \in seen'[progress.model].moved :
                           f < progress.to => f \in seen'[progress.model].excused \/ InTable(analysisEvents, f)
    BY DEF ProgressInv
  <2>1. Sound(reels, today, seen'[progress.model], progress.to)
    BY <1>1, <1>2, <1>6 DEF ProgressInv
  <2>2. ASSUME NEW f \in seen'[progress.model].moved, f < progress.to
        PROVE  f \in seen'[progress.model].excused \/ InTable(analysisEvents, f)
    BY <1>1, <1>2, <1>7, <2>2 DEF ProgressInv
  <2> QED
    BY <2>1, <2>2
<1>9. PostsInv'
  <2> SUFFICES ASSUME NEW k \in 1 .. Len(jobs'), jobs'[k].kind = "progress"
               PROVE  /\ jobs'[k].model \in Models /\ Sound(reels, today, seen'[jobs'[k].model], jobs'[k].to)
                      /\ \A f \in seen'[jobs'[k].model].moved :
                           f < jobs'[k].to => \/ f \in seen'[jobs'[k].model].excused
                                              \/ InTable(analysisEvents, f) \/ InPosts(jobs', f, k)
    BY DEF PostsInv, PostInv
  <2>1. CASE k \in 1 .. Len(p)
    <3>1. k \in 1 .. Len(jobs) /\ jobs'[k] = jobs[k]
      BY <1>3, <1>5, <2>1
    <3>2. jobs[k].model = worker.model /\ jobs[k].to <= worker.saved /\ PostInv(k) /\ jobs[k].to \in Nat
      BY <1>1, <1>2, <3>1 DEF PostsInv
    <3>3. ASSUME NEW f, InPosts(jobs, f, k) PROVE InPosts(jobs', f, k)
      <4>1. \A i \in 1 .. k : jobs'[i] = jobs[i]
        <5> SUFFICES ASSUME NEW i \in 1 .. k PROVE jobs'[i] = jobs[i]
          OBVIOUS
        <5>1. i \in 1 .. Len(jobs) /\ i \in 1 .. Len(p)
          BY <1>3, <3>1
        <5> QED
          BY <1>3, <1>5, <5>1
      <4>2. k \in Nat /\ k <= k
        BY <1>3, <3>1
      <4> QED
        BY <3>3, <4>1, <4>2, StillPosted
    <3>4. Sound(reels, today, seen'[jobs[k].model], jobs[k].to)
      BY <1>2, <1>6, <3>1, <3>2 DEF PostInv
    <3>5. ASSUME NEW f \in seen'[jobs[k].model].moved, f < jobs[k].to
          PROVE  f \in seen'[jobs[k].model].excused \/ InTable(analysisEvents, f) \/ InPosts(jobs, f, k)
      BY <1>2, <1>7, <3>1, <3>2, <3>5 DEF PostInv
    <3> QED
      BY <1>2, <3>1, <3>2, <3>3, <3>4, <3>5
  <2>2. CASE jobs' = Append(p, j) /\ k = Len(p) + 1 /\ jobs'[k] = j
    <3>1. /\ Sound(reels, today, seen'[worker.model], to)
          /\ \A f \in seen'[worker.model].moved :
               f < to => \/ f \in seen'[worker.model].excused
                         \/ InTable(analysisEvents, f) \/ InPosts(p, f, Len(p))
      <4>1. jobs' # p
        BY <1>3, <1>4, <2>2, Appended
      <4> QED
        BY <4>1
    <3>2. \A f : InPosts(p, f, Len(p)) => InPosts(jobs', f, k)
      <4> SUFFICES ASSUME NEW f, InPosts(p, f, Len(p)) PROVE InPosts(jobs', f, k)
        OBVIOUS
      <4>1. Len(p) \in Nat /\ k \in Nat /\ Len(p) <= k /\ \A i \in 1 .. Len(p) : jobs'[i] = p[i]
        BY <1>3, <1>5, <2>2
      <4> QED
        BY <4>1, StillPosted
    <3> QED
      BY <1>2, <1>4, <2>2, <3>1, <3>2
  <2> QED
    BY <1>5, <2>1, <2>2
<1>10. ASSUME NEW k \in 1 .. Len(jobs'), jobs'[k].kind = "progress"
       PROVE  /\ jobs'[k].model = worker.model
              /\ jobs'[k].to <= worker.saved \/ (jobs' = Append(p, j) /\ jobs'[k].to = to)
  <2>1. CASE k \in 1 .. Len(p)
    <3>1. k \in 1 .. Len(jobs) /\ jobs'[k] = jobs[k]
      BY <1>3, <1>5, <1>10, <2>1
    <3> QED
      BY <1>2, <1>10, <3>1
  <2>2. CASE jobs' = Append(p, j) /\ jobs'[k] = j
    BY <1>4, <2>2
  <2> QED
    BY <1>5, <2>1, <2>2
<1>11. \A f : InPosts(p, f, Len(p)) => InPosts(jobs', f, Len(jobs'))
  <2> SUFFICES ASSUME NEW f, InPosts(p, f, Len(p)) PROVE InPosts(jobs', f, Len(jobs'))
    OBVIOUS
  <2>1. Len(p) \in Nat /\ Len(jobs') \in Nat /\ Len(p) <= Len(jobs') /\ \A i \in 1 .. Len(p) : jobs'[i] = p[i]
    BY <1>3, <1>5
  <2> QED
    BY <2>1, StillPosted
<1>12. \A f : InPosts(jobs, f, Len(jobs)) => InPosts(p, f, Len(p))
  <2> SUFFICES ASSUME NEW f, InPosts(jobs, f, Len(jobs)) PROVE InPosts(p, f, Len(p))
    OBVIOUS
  <2> QED
    BY <1>3, StillPosted
<1> QED
  BY <1>5, <1>8, <1>9, <1>10, <1>11, <1>12 DEF j

-----------------------------------------------------------------------------
(* What the thread does. *)

LEMMA SaveIs ==
  ASSUME NEW a, NEW w \in AWork, AN!Takes(AN!Save(a, w))
  PROVE  /\ event' = a.open
         /\ \/ w.from <= w.saved /\ jobs' = a.posts /\ AN!Saved(w) = w
            \/ /\ w.saved < w.from /\ jobs' = Append(a.posts, ProgressPost(w.from, w.model))
               /\ AN!Saved(w) = [w EXCEPT !.saved = w.from]
<1>1. w.from \in Nat /\ w.saved \in Nat
  BY DEF AWork
<1>2. AN!Saved(w) = [w EXCEPT !.saved = AN!LaterOf(w.saved, w.from)]
  BY DEF AN!Saved
<1>3. CASE w.from <= w.saved
  <2>1. AN!LaterOf(w.saved, w.from) = w.saved
    BY <1>1, <1>3 DEF AN!LaterOf
  <2>2. [w EXCEPT !.saved = w.saved] = w
    BY DEF AWork
  <2> QED
    BY <1>2, <1>3, <2>1, <2>2 DEF AN!Takes, AN!Save
<1>4. CASE w.saved < w.from
  <2>1. AN!LaterOf(w.saved, w.from) = w.from /\ ~(w.from <= w.saved)
    BY <1>1, <1>4 DEF AN!LaterOf
  <2>2. AN!Save(a, w) = [a EXCEPT !.posts = Append(@, ProgressPost(w.from, w.model))]
    BY <2>1 DEF AN!Save, ProgressPost
  <2>3. event' = AN!Save(a, w).open /\ jobs' = AN!Save(a, w).posts
    BY DEF AN!Takes
  <2> QED
    BY <1>2, <1>4, <2>1, <2>2, <2>3
<1> QED
  BY <1>1, <1>3, <1>4

\* Told by where a stands: in the table, posted in p, or in the open event e.
Told(s, p, e) ==
  \A f \in s.moved : \/ f \in s.excused \/ InTable(analysisEvents, f)
                     \/ InPosts(p, f, Len(p)) \/ InOpen(e, f)

\* The thread further on, with its posts.
LEMMA WorkGoesOn ==
  ASSUME AnalysisInv, worker.at # "off", UNCHANGED <<today, reels, filmed, analysisEvents, progress>>,
         seen' \in [Models -> ASeen],
         \A m \in Models :
           /\ Outgrows(seen[m], seen'[m])
           /\ \A f \in seen'[m].moved : f \in seen[m].moved \/ (m = worker.model /\ worker.from <= f),
         NEW p, p = jobs \/ (event # Nil /\ p = Closing), event' \in AMove \union {Nil},
         worker' \in AWork, worker'.at # "off", worker'.model = worker.model,
         worker.from <= worker'.from,
         Sound(reels, today, seen'[worker.model], worker'.from),
         \A f \in seen'[worker.model].moved : f < worker'.from,
         Told(seen'[worker.model], p, event'),
         \/ jobs' = p /\ worker'.saved = worker.saved
         \/ /\ jobs' = Append(p, ProgressPost(worker'.from, worker.model))
            /\ worker.saved <= worker'.saved /\ worker'.saved = worker'.from
            /\ Told(seen'[worker.model], p, Nil),
         worker'.at = "round" => worker'.target + Behind <= today,
         event' # Nil => event'.start <= event'.end /\ event'.end < worker'.from,
         HandInv'
  PROVE  AnalysisInv'
<1>1. /\ ReelShape /\ FilmShape /\ AnalysisShape /\ WorkInv /\ worker.model \in Models
      /\ worker.saved <= worker.from /\ worker.from \in Nat /\ worker.saved \in Nat
      /\ worker'.from \in Nat /\ worker'.saved \in Nat
      /\ progress.model = worker.model => progress.to <= worker.saved
      /\ today' = today /\ reels' = reels /\ filmed' = filmed /\ analysisEvents' = analysisEvents
      /\ progress' = progress /\ progress.to \in Nat
  BY PlacesAre DEF AnalysisInv, WorkInv, AWork
<1> DEFINE to == worker'.from
<1>2. /\ jobs' \in Seq(APost) /\ ProgressInv' /\ PostsInv'
      /\ \A k \in 1 .. Len(jobs') :
           jobs'[k].kind = "progress" =>
             /\ jobs'[k].model = worker.model
             /\ \/ jobs'[k].to <= worker.saved
                \/ jobs' = Append(p, ProgressPost(to, worker.model)) /\ jobs'[k].to = to
      /\ \A f : InPosts(p, f, Len(p)) => InPosts(jobs', f, Len(jobs'))
  <2>1. \/ jobs' = p
        \/ /\ jobs' = Append(p, ProgressPost(to, worker.model))
           /\ Sound(reels, today, seen'[worker.model], to)
           /\ \A f \in seen'[worker.model].moved :
                f < to => \/ f \in seen'[worker.model].excused
                          \/ InTable(analysisEvents, f) \/ InPosts(p, f, Len(p))
    BY DEF Told, InOpen
  <2>2. to \in Nat
    BY <1>1
  <2> HIDE DEF to
  <2> QED
    BY <1>1, <2>1, <2>2, PostsKeep
<1>3. p \in Seq(APost) /\ Len(p) \in Nat
  <2>1. jobs \in Seq(APost)
    BY <1>1 DEF AnalysisShape
  <2> QED
    BY <1>1, <2>1, ClosingIs
<1>4. \A k \in 1 .. Len(jobs') :
        jobs'[k].kind = "progress" => jobs'[k].model = worker'.model /\ jobs'[k].to <= worker'.saved
  <2> SUFFICES ASSUME NEW k \in 1 .. Len(jobs'), jobs'[k].kind = "progress"
               PROVE  jobs'[k].model = worker.model /\ jobs'[k].to <= worker'.saved
    OBVIOUS
  <2>1. jobs'[k].to \in Nat
    <3>1. jobs'[k] \in APost
      BY <1>2, ElementOfSeq
    <3> QED
      BY <3>1 DEF APost
  <2>2. CASE jobs' = p /\ worker'.saved = worker.saved
    <3>1. jobs' # Append(p, ProgressPost(to, worker.model))
      <4> DEFINE q == Append(p, ProgressPost(to, worker.model))
      <4>1. Len(q) = Len(p) + 1
        BY <1>3
      <4> HIDE DEF q
      <4> QED
        BY <1>3, <2>2, <4>1 DEF q
    <3> QED
      BY <1>2, <2>2, <3>1
  <2>3. CASE worker.saved <= worker'.saved /\ worker'.saved = worker'.from
    <3>1. jobs'[k].to <= worker.saved \/ jobs'[k].to = to
      BY <1>2
    <3> QED
      BY <1>1, <1>2, <2>1, <2>3, <3>1
  <2> QED
    BY <2>2, <2>3
<1>5. worker'.saved <= worker'.from /\ worker.saved <= worker'.saved
  BY <1>1
<1>6. WorkInv'
  <2>1. \A f \in seen'[worker.model].moved :
          \/ f \in seen'[worker.model].excused \/ InTable(analysisEvents, f)
          \/ InPosts(jobs', f, Len(jobs')) \/ InOpen(event', f)
    BY <1>2 DEF Told
  <2>2. progress'.model = worker'.model => progress'.to <= worker'.saved
    BY <1>1, <1>5
  <2> QED
    BY <1>1, <1>4, <1>5, <2>1, <2>2 DEF WorkInv
<1>7. ReelShape' /\ FilmShape' /\ AnalysisShape' /\ RestInv'
  BY <1>1, <1>2 DEF ReelShape, FilmShape, AnalysisShape, RestInv
<1> QED
  BY <1>2, <1>6, <1>7 DEF AnalysisInv

\* The open event is the one there was, or it was posted; nothing is untold.
LEMMA StillTold ==
  ASSUME AnalysisInv, worker.at # "off", NEW a, Carries(a), NEW s, NEW news,
         s.moved \subseteq seen[worker.model].moved \union news,
         seen[worker.model].excused \subseteq s.excused,
         \A f \in news : InOpen(a.open, f)
  PROVE  Told(s, a.posts, a.open)
<1> SUFFICES ASSUME NEW f \in s.moved
             PROVE  \/ f \in s.excused \/ InTable(analysisEvents, f)
                    \/ InPosts(a.posts, f, Len(a.posts)) \/ InOpen(a.open, f)
  BY DEF Told
<1>1. AnalysisShape /\ WorkInv /\ event \in AMove \union {Nil} /\ jobs \in Seq(APost)
  BY DEF AnalysisInv, AnalysisShape
<1>2. CASE f \in news
  BY <1>2
<1>3. CASE f \in seen[worker.model].moved
  <2>1. \/ f \in seen[worker.model].excused \/ InTable(analysisEvents, f)
        \/ InPosts(jobs, f, Len(jobs)) \/ InOpen(event, f)
    BY <1>1, <1>3 DEF WorkInv
  <2>2. CASE a.posts = jobs /\ (event # Nil => /\ a.open # Nil /\ a.open.start <= event.start
                                               /\ event.end <= a.open.end)
    <3>1. ASSUME InOpen(event, f) PROVE InOpen(a.open, f)
      <4>1. /\ event \in AMove /\ a.open \in AMove /\ a.open # Nil /\ event.start <= f /\ f <= event.end
            /\ a.open.start <= event.start /\ event.end <= a.open.end
        BY <1>1, <2>2, <3>1 DEF InOpen, Spans, Carries
      <4>2. event.start \in Nat /\ event.end \in Nat /\ a.open.start \in Nat /\ a.open.end \in Nat
        BY <4>1 DEF AMove
      <4>3. f \in Nat
        <5>1. worker.model \in Models
          BY <1>1 DEF WorkInv
        <5>2. seen[worker.model] \in ASeen
          BY <1>1, <5>1, PlacesAre
        <5> QED
          BY <1>3, <5>2 DEF ASeen
      <4> QED
        BY <4>1, <4>2, <4>3 DEF InOpen, Spans
    <3> QED
      BY <2>1, <2>2, <3>1
  <2>3. CASE event # Nil /\ a.posts = Closing
    <3>1. InPosts(jobs, f, Len(jobs)) => InPosts(Closing, f, Len(Closing))
      <4> SUFFICES ASSUME InPosts(jobs, f, Len(jobs)) PROVE InPosts(Closing, f, Len(Closing))
        OBVIOUS
      <4>1. Len(jobs) \in Nat /\ Len(Closing) \in Nat /\ Len(jobs) <= Len(Closing)
            /\ \A i \in 1 .. Len(jobs) : Closing[i] = jobs[i]
        BY <1>1, <2>3, ClosingIs
      <4> QED
        BY <4>1, StillPosted
    <3>2. InOpen(event, f) => InPosts(Closing, f, Len(Closing))
      BY <1>1, <2>3, ClosingIs
    <3> QED
      BY <2>1, <2>3, <3>1, <3>2
  <2> QED
    BY <2>2, <2>3 DEF Carries
<1> QED
  BY <1>2, <1>3

\* What was open when the progress was saved is excused.
LEMMA OpenExcused ==
  ASSUME NEW s \in ASeen, NEW p, NEW e \in AMove \union {Nil}, Told(s, p, e),
         AN!Unposted(e) \subseteq s.excused
  PROVE  Told(s, p, Nil)
<1> SUFFICES ASSUME NEW f \in s.moved, InOpen(e, f) PROVE f \in s.excused
  BY DEF Told, InOpen
<1>1. f \in Nat /\ e \in AMove /\ e # Nil /\ e.start <= f /\ f <= e.end
  BY DEF ASeen, InOpen, Spans
<1>2. f \in e.start .. e.end
  BY <1>1 DEF AMove
<1> QED
  BY <1>1, <1>2 DEF AN!Unposted

\* The analysis of the worker's model with more of each.
MoreSeen(looked, moved, excused) ==
  [seen EXCEPT ![worker.model].looked = @ \union looked, ![worker.model].moved = @ \union moved,
               ![worker.model].excused = @ \union excused]

LEMMA MoreIs ==
  ASSUME AnalysisInv, worker.at # "off", NEW looked \in SUBSET Nat, NEW moved \in SUBSET Nat,
         NEW excused \in SUBSET Nat, seen' = MoreSeen(looked, moved, excused),
         \A f \in moved : worker.from <= f
  PROVE  LET m == worker.model
         IN  /\ seen' \in [Models -> ASeen] /\ m \in Models /\ seen[m] \in ASeen /\ seen'[m] \in ASeen
             /\ seen'[m].looked = seen[m].looked \union looked
             /\ seen'[m].moved = seen[m].moved \union moved
             /\ seen'[m].excused = seen[m].excused \union excused /\ seen'[m].begun = seen[m].begun
             /\ \A k \in Models :
                  /\ Outgrows(seen[k], seen'[k])
                  /\ \A f \in seen'[k].moved : f \in seen[k].moved \/ (k = m /\ worker.from <= f)
<1> DEFINE m == worker.model
           s == seen[m]
           t == [s EXCEPT !.looked = @ \union looked, !.moved = @ \union moved,
                          !.excused = @ \union excused]
<1>1. AnalysisShape /\ m \in Models /\ s \in ASeen /\ seen \in [Models -> ASeen]
  BY PlacesAre DEF AnalysisInv, WorkInv, AnalysisShape
<1>2. seen' = [seen EXCEPT ![m] = t]
  BY <1>1 DEF MoreSeen
<1>3. /\ t.looked = s.looked \union looked /\ t.moved = s.moved \union moved
      /\ t.excused = s.excused \union excused /\ t.begun = s.begun /\ t \in ASeen
  BY <1>1 DEF ASeen
<1> HIDE DEF t, s
<1>4. seen' \in [Models -> ASeen] /\ seen'[m] = t /\ \A k \in Models : k # m => seen'[k] = seen[k]
  BY <1>1, <1>2, <1>3
<1>5. ASSUME NEW k \in Models
      PROVE  /\ Outgrows(seen[k], seen'[k])
             /\ \A f \in seen'[k].moved : f \in seen[k].moved \/ (k = m /\ worker.from <= f)
  <2>1. CASE k = m
    BY <1>3, <1>4, <2>1 DEF Outgrows, s
  <2>2. CASE k # m
    BY <1>4, <2>2 DEF Outgrows
  <2> QED
    BY <2>1, <2>2
<1> QED
  BY <1>1, <1>3, <1>4, <1>5 DEF s

\* The thread after a step of the walk.
Stepped(hand, until, last, from) ==
  [worker EXCEPT !.walk = hand, !.until = until, !.last = last, !.from = from, !.n = @ + 1]

LEMMA SteppedIs ==
  ASSUME worker \in AWork, NEW hand, hand \in AWalk \/ hand = Nil, NEW until \in Nat, NEW last \in Nat,
         NEW from \in Nat
  PROVE  LET w == Stepped(hand, until, last, from)
         IN  /\ w \in AWork /\ w.from = from /\ w.walk = hand /\ w.model = worker.model
             /\ w.saved = worker.saved /\ w.at = worker.at /\ w.target = worker.target
<1> DEFINE w == Stepped(hand, until, last, from)
           n == worker.n + 1
<1>1. n \in Nat
  BY DEF AWork
<1>2. w = [worker EXCEPT !.walk = hand, !.until = until, !.last = last, !.from = from, !.n = n]
  BY DEF Stepped
<1> HIDE DEF n, w
<1>3. w \in AWork
  BY <1>1, <1>2 DEF AWork
<1>4. /\ w.from = from /\ w.walk = hand /\ w.model = worker.model
      /\ w.saved = worker.saved /\ w.at = worker.at /\ w.target = worker.target
  BY <1>2 DEF AWork
<1> QED
  BY <1>3, <1>4 DEF w

\* Saved or not, after a step of the thread to w that leaves a.
LEMMA SavesOrNot ==
  ASSUME NEW w \in AWork, NEW a, NEW saves \in BOOLEAN,
         worker' = IF saves THEN AN!Saved(w) ELSE w,
         AN!Takes(IF saves THEN AN!Save(a, w) ELSE a)
  PROVE  /\ event' = a.open
         /\ worker' \in AWork /\ worker'.at = w.at /\ worker'.model = w.model /\ worker'.from = w.from
         /\ worker'.walk = w.walk /\ worker'.target = w.target
         /\ \/ jobs' = a.posts /\ worker'.saved = w.saved
            \/ /\ saves /\ jobs' = Append(a.posts, ProgressPost(worker'.from, w.model))
               /\ w.saved <= worker'.saved /\ worker'.saved = worker'.from
<1>1. CASE ~saves
  BY <1>1 DEF AN!Takes
<1>2. CASE saves
  <2>1. worker' = AN!Saved(w) /\ AN!Takes(AN!Save(a, w))
    BY <1>2
  <2>2. /\ event' = a.open
        /\ \/ w.from <= w.saved /\ jobs' = a.posts /\ AN!Saved(w) = w
           \/ /\ w.saved < w.from /\ jobs' = Append(a.posts, ProgressPost(w.from, w.model))
              /\ AN!Saved(w) = [w EXCEPT !.saved = w.from]
    BY <2>1, SaveIs
  <2>3. [w EXCEPT !.saved = w.from] \in AWork /\ w.saved \in Nat /\ w.from \in Nat
    BY DEF AWork
  <2>4. CASE AN!Saved(w) = w /\ jobs' = a.posts
    BY <2>1, <2>2, <2>4
  <2>5. CASE /\ w.saved < w.from /\ jobs' = Append(a.posts, ProgressPost(w.from, w.model))
             /\ AN!Saved(w) = [w EXCEPT !.saved = w.from]
    <3>1. worker' = [w EXCEPT !.saved = w.from]
      BY <2>1, <2>5
    <3>2. /\ worker'.from = w.from /\ worker'.saved = w.from /\ worker'.at = w.at /\ worker'.model = w.model
          /\ worker'.walk = w.walk /\ worker'.target = w.target
      BY <3>1 DEF AWork
    <3> QED
      BY <1>2, <2>2, <2>3, <2>5, <3>1, <3>2
  <2> QED
    BY <2>2, <2>4, <2>5
<1> QED
  BY <1>1, <1>2

LEMMA LookAtKeeps ==
  ASSUME AnalysisInv, NEW look \in {"moved", "still", "scene", "bad"}, AN!LookAt(look)
  PROVE  AnalysisInv'
<1> DEFINE walk == AN!WalkInHand
           found == AN!NextFrame(walk)
           ms == found.frame
           hand == [walk EXCEPT !.file = found.file, !.target = AN!LaterOf(walk.target + Step, ms + 1)]
           w == [worker EXCEPT !.walk = hand, !.until = walk.to, !.last = ms,
                               !.from = AN!LaterOf(@, ms + 1), !.n = @ + 1]
           a == AN!Fed(AN!Jumped(AN!Now, ms), ms, look)
           saves == AN!Saves(w.n)
           m == worker.model
<1>1. /\ AN!Goes /\ ms # 0
      /\ worker' = IF saves THEN AN!Saved(w) ELSE w
      /\ AN!Takes(IF saves THEN AN!Save(a, w) ELSE a)
      /\ seen' = [seen EXCEPT
           ![w.model].looked = @ \union {ms},
           ![w.model].moved = IF look = "moved" THEN @ \union {ms} ELSE @,
           ![w.model].excused = IF saves THEN @ \union AN!Unposted(a.open) ELSE @]
      /\ UNCHANGED <<today, reels, filmed, analysisEvents, progress>>
  BY Zenon DEF AN!LookAt, AN!Disk, AN!Base
<1>2. /\ ReelShape /\ AnalysisShape /\ WorkInv /\ worker \in AWork /\ worker.at = "round"
      /\ worker.from \in Nat /\ today \in Nat /\ event \in AMove \union {Nil} /\ m \in Models
      /\ seen[m] \in ASeen /\ Step \in Nat \ {0} /\ Behind \in Nat /\ Sound(reels, today, seen[m], worker.from)
      /\ event # Nil => event.start <= event.end /\ event.end < worker.from
      /\ worker.target + Behind <= today
  BY <1>1, PlacesAre, AnalysisFacts DEF AnalysisInv, AnalysisShape, AN!Goes, AN!InRound, WorkInv, AWork, ReelShape
<1>3. OnWay(walk)
  BY <1>1, HandOnWay
<1>4. /\ walk \in AWalk /\ walk.file \in DOMAIN reels \union {0} /\ walk.to \in Nat /\ walk.target \in Nat
      /\ worker.from <= walk.target /\ walk.to + Behind <= today
  BY <1>3 DEF OnWay, AWalk
<1> HIDE DEF walk
<1>5. /\ found.file \in DOMAIN reels /\ ms \in reels[found.file].frames
      /\ walk.target <= ms /\ ms <= walk.to
      /\ \A i \in AN!Listed : \A f \in reels[i].frames : walk.file <= i /\ walk.target <= f => ms <= f
  BY <1>1, <1>2, <1>4, NextFrameIs
<1> HIDE DEF found
<1>6. ms \in Nat /\ found.file \in Nat
  BY <1>2, <1>5, ReelIs
<1> HIDE DEF ms
<1>7. AN!LaterOf(worker.from, ms + 1) = ms + 1
  BY <1>2, <1>4, <1>5, <1>6 DEF AN!LaterOf
<1>8. /\ hand \in AWalk /\ hand.file = found.file /\ hand.to = walk.to
      /\ ms + 1 <= hand.target /\ (hand.target = ms + 1 \/ hand.target < ms + 1 + Step)
  <2> DEFINE t == AN!LaterOf(walk.target + Step, ms + 1)
  <2>1. t \in Nat /\ ms + 1 <= t /\ (t = ms + 1 \/ t < ms + 1 + Step)
    BY <1>2, <1>4, <1>5, <1>6 DEF AN!LaterOf
  <2> HIDE DEF t
  <2>2. hand = [walk EXCEPT !.file = found.file, !.target = t]
    BY DEF t
  <2> QED
    BY <1>4, <1>6, <2>1, <2>2 DEF AWalk
<1> HIDE DEF hand
<1>9. /\ w \in AWork /\ w.from = ms + 1 /\ w.walk = hand /\ w.model = m /\ w.saved = worker.saved
      /\ w.at = "round" /\ w.target = worker.target
  <2>1. w = Stepped(hand, walk.to, ms, ms + 1)
    BY <1>7 DEF Stepped
  <2> HIDE DEF w
  <2>2. worker \in AWork /\ hand \in AWalk /\ walk.to \in Nat /\ ms \in Nat /\ ms + 1 \in Nat
    BY <1>2, <1>4, <1>6, <1>8
  <2> DEFINE to == walk.to
             on == ms + 1
  <2>3. w = Stepped(hand, to, ms, on)
    BY <2>1
  <2>4. to \in Nat /\ on \in Nat
    BY <2>2
  <2> HIDE DEF to, on
  <2>5. /\ w \in AWork /\ w.from = on /\ w.walk = hand /\ w.model = worker.model
        /\ w.saved = worker.saved /\ w.at = worker.at /\ w.target = worker.target
    BY <2>2, <2>3, <2>4, SteppedIs
  <2> QED
    BY <1>2, <2>5 DEF on
<1> HIDE DEF w
<1>10. Takes(a, ms, look)
  <2>1. event # Nil => event.start <= event.end /\ event.end < ms
    <3>1. event # Nil => event.end \in Nat
      BY <1>2 DEF AMove
    <3> QED
      BY <1>2, <1>4, <1>5, <1>6, <3>1
  <2> QED
    BY <1>2, <1>6, <2>1, FedIs
<1> HIDE DEF a
<1> DEFINE news == IF look = "moved" THEN {ms} ELSE {}
           spare == IF saves THEN AN!Unposted(a.open) ELSE {}
<1>11. a.open \in AMove \union {Nil} /\ (a.posts = jobs \/ (event # Nil /\ a.posts = Closing))
  BY <1>10 DEF Takes, Carries
<1>12. /\ {ms} \in SUBSET Nat /\ news \in SUBSET Nat /\ spare \in SUBSET Nat
       /\ \A f \in news : worker.from <= f /\ f = ms /\ look = "moved"
  BY <1>2, <1>4, <1>5, <1>6, <1>11 DEF AN!Unposted, AMove
<1>13. seen' = MoreSeen({ms}, news, spare)
  <2>1. /\ \A S : (IF look = "moved" THEN S \union {ms} ELSE S) = S \union news
        /\ \A S : (IF saves THEN S \union AN!Unposted(a.open) ELSE S) = S \union spare
    OBVIOUS
  <2> HIDE DEF news, spare, saves
  <2> QED
    BY <1>1, <1>9, <2>1 DEF MoreSeen
<1> HIDE DEF news
<1>14. /\ seen' \in [Models -> ASeen] /\ seen'[m] \in ASeen
       /\ seen'[m].looked = seen[m].looked \union {ms}
       /\ seen'[m].moved = seen[m].moved \union news
       /\ seen'[m].excused = seen[m].excused \union spare /\ seen'[m].begun = seen[m].begun
       /\ \A k \in Models :
            /\ Outgrows(seen[k], seen'[k])
            /\ \A f \in seen'[k].moved : f \in seen[k].moved \/ (k = m /\ worker.from <= f)
  <2> HIDE DEF spare
  <2> QED
    BY <1>2, <1>12, <1>13, MoreIs
<1>15. Sound(reels, today, seen'[m], ms + 1)
  <2>1. ms + 1 + Behind <= today + 1
    BY <1>2, <1>4, <1>5, <1>6
  <2>2. ASSUME NEW i \in There(reels), NEW f \in reels[i].frames
        PROVE  AN!Passed(seen'[m], f, ms + 1)
    <3> SUFFICES ASSUME seen'[m].begun <= f, f < ms + 1, f \notin seen'[m].excused
                 PROVE  \E g \in seen'[m].looked : g <= f /\ f < g + Step
      BY DEF AN!Passed
    <3>1. i \in AN!Listed /\ i \in DOMAIN reels /\ f \in Nat
      BY <1>2, ListedOn, ReelIs DEF There
    <3>2. CASE f < worker.from
      <4>1. AN!Passed(seen[m], f, worker.from)
        BY <1>2 DEF Sound
      <4> QED
        BY <1>14, <3>2, <4>1 DEF AN!Passed
    <3>3. CASE worker.from <= f /\ f < walk.target
      BY <1>3, <1>14, <3>1, <3>3 DEF OnWay
    <3>4. CASE walk.target <= f
      <4>1. f <= walk.to
        BY <1>4, <1>5, <1>6, <3>1
      <4>2. walk.file <= i
        BY <1>3, <3>1, <3>4, <4>1 DEF OnWay
      <4>3. f = ms
        BY <1>5, <1>6, <3>1, <3>4, <4>2
      <4> QED
        BY <1>2, <1>6, <1>14, <4>3
    <3> QED
      BY <1>2, <1>4, <3>1, <3>2, <3>3, <3>4
  <2> QED
    BY <1>6, <2>1, <2>2 DEF Sound
<1>16. Told(seen'[m], a.posts, a.open)
  <2>1. \A f \in news : InOpen(a.open, f)
    BY <1>10, <1>12 DEF Takes
  <2>2. Carries(a) /\ seen'[m].moved \subseteq seen[m].moved \union news /\ seen[m].excused \subseteq seen'[m].excused
    BY <1>10, <1>14 DEF Takes
  <2> QED
    BY <1>2, <2>1, <2>2, StillTold
<1>17. /\ event' = a.open
       /\ worker' \in AWork /\ worker'.at = "round" /\ worker'.model = m /\ worker'.from = ms + 1
       /\ worker'.walk = hand /\ worker'.target = worker.target
       /\ \/ jobs' = a.posts /\ worker'.saved = worker.saved
          \/ /\ saves /\ jobs' = Append(a.posts, ProgressPost(worker'.from, m))
             /\ worker.saved <= worker'.saved /\ worker'.saved = worker'.from
  <2>1. saves \in BOOLEAN
    BY DEF AN!Saves
  <2>2. worker' = IF saves THEN AN!Saved(w) ELSE w
    BY <1>1
  <2>3. AN!Takes(IF saves THEN AN!Save(a, w) ELSE a)
    BY <1>1
  <2>4. w \in AWork
    BY <1>9
  <2> HIDE DEF saves
  <2>5. /\ event' = a.open
        /\ worker' \in AWork /\ worker'.at = w.at /\ worker'.model = w.model /\ worker'.from = w.from
        /\ worker'.walk = w.walk /\ worker'.target = w.target
        /\ \/ jobs' = a.posts /\ worker'.saved = w.saved
           \/ /\ saves /\ jobs' = Append(a.posts, ProgressPost(worker'.from, w.model))
              /\ w.saved <= worker'.saved /\ worker'.saved = worker'.from
    BY <2>1, <2>2, <2>3, <2>4, SavesOrNot
  <2> QED
    BY <1>9, <2>5
<1>18. saves => Told(seen'[m], a.posts, Nil)
  BY <1>11, <1>14, <1>16, OpenExcused
<1>19. \A f \in seen'[m].moved : f < ms + 1
  <2> SUFFICES ASSUME NEW f \in seen'[m].moved PROVE f < ms + 1
    OBVIOUS
  <2>1. f \in Nat
    BY <1>14 DEF ASeen
  <2>2. CASE f \in seen[m].moved
    <3>1. f < worker.from
      BY <1>2, <2>2 DEF WorkInv
    <3> QED
      BY <1>2, <1>4, <1>5, <1>6, <2>1, <3>1
  <2>3. CASE f \in news
    BY <1>6, <1>12, <2>3
  <2> QED
    BY <1>14, <2>2, <2>3
<1>20. HandInv'
  <2>1. reels' = reels /\ today' = today
    BY <1>1
  <2>2. (ms + 1) - 1 = ms /\ 0 < ms + 1
    BY <1>6
  <2>3. ms \in seen'[m].looked
    BY <1>14
  <2> QED
    BY <1>4, <1>5, <1>8, <1>17, <2>1, <2>2, <2>3 DEF HandInv
<1>21. event' # Nil => event'.start <= event'.end /\ event'.end < worker'.from
  <2>1. a.open # Nil => a.open.start <= a.open.end /\ a.open.end <= ms /\ a.open.end \in Nat
    BY <1>10, <1>11 DEF Takes, AMove
  <2> QED
    BY <1>6, <1>17, <2>1
<1>22. worker.from <= worker'.from
  BY <1>2, <1>4, <1>5, <1>6, <1>17
<1> HIDE DEF saves, spare
<1> DEFINE p == a.posts
<1>23. /\ p = jobs \/ (event # Nil /\ p = Closing)
       /\ event' \in AMove \union {Nil} /\ Told(seen'[m], p, event')
       /\ \/ jobs' = p /\ worker'.saved = worker.saved
          \/ /\ jobs' = Append(p, ProgressPost(worker'.from, m))
             /\ worker.saved <= worker'.saved /\ worker'.saved = worker'.from
             /\ Told(seen'[m], p, Nil)
  BY <1>11, <1>16, <1>17, <1>18
<1> HIDE DEF p
<1>24. /\ worker'.at # "off" /\ Sound(reels, today, seen'[m], worker'.from)
       /\ \A f \in seen'[m].moved : f < worker'.from
       /\ worker'.at = "round" => worker'.target + Behind <= today
  BY <1>2, <1>15, <1>17, <1>19
<1> QED
  BY <1>1, <1>2, <1>14, <1>17, <1>20, <1>21, <1>22, <1>23, <1>24, WorkGoesOn

LEMMA WalkEndsKeeps ==
  ASSUME AnalysisInv, AN!WalkEnds
  PROVE  AnalysisInv'
<1> DEFINE walk == AN!WalkInHand
           on == AN!LaterOf(worker.from, walk.to)
           w == [worker EXCEPT !.walk = Nil, !.until = walk.to, !.from = AN!LaterOf(@, walk.to), !.n = @ + 1]
           saves == AN!Saves(w.n)
           torn == IF AN!Torn(walk) THEN walk.target .. walk.to ELSE {}
           spare == torn \union (IF saves THEN AN!Unposted(event) ELSE {})
           m == worker.model
           kept == [open |-> event, posts |-> jobs]
<1>1. /\ AN!Goes /\ AN!NextFrame(walk).frame = 0
      /\ worker' = IF saves THEN AN!Saved(w) ELSE w
      /\ AN!Takes(IF saves THEN AN!Save(kept, w) ELSE kept)
      /\ seen' = [seen EXCEPT ![w.model].excused = @ \union torn
                                \union (IF saves THEN AN!Unposted(event) ELSE {})]
      /\ UNCHANGED <<today, reels, filmed, analysisEvents, progress>>
  BY Zenon DEF AN!WalkEnds, AN!Disk, AN!Base, AN!Now
<1>2. /\ ReelShape /\ AnalysisShape /\ WorkInv /\ worker \in AWork /\ worker.at = "round"
      /\ worker.from \in Nat /\ today \in Nat /\ event \in AMove \union {Nil} /\ m \in Models
      /\ seen[m] \in ASeen /\ seen \in [Models -> ASeen] /\ Behind \in Nat
      /\ Sound(reels, today, seen[m], worker.from)
      /\ event # Nil => event.start <= event.end /\ event.end < worker.from
      /\ worker.target + Behind <= today
  BY <1>1, PlacesAre, AnalysisFacts DEF AnalysisInv, AnalysisShape, AN!Goes, AN!InRound, WorkInv, AWork, ReelShape
<1>3. OnWay(walk)
  BY <1>1, HandOnWay
<1>4. /\ walk \in AWalk /\ walk.file \in DOMAIN reels \union {0} /\ walk.to \in Nat /\ walk.target \in Nat
      /\ worker.from <= walk.target /\ walk.to + Behind <= today
  BY <1>3 DEF OnWay, AWalk
<1> HIDE DEF walk
<1>5. \A i \in AN!Listed : \A f \in reels[i].frames :
        walk.file # 0 /\ walk.file <= i /\ walk.target <= f /\ f <= walk.to => AN!Torn(walk)
  BY <1>1, <1>2, <1>4, NextFrameIs
<1>6. on \in Nat /\ worker.from <= on /\ (on = worker.from \/ on = walk.to)
  BY <1>2, <1>4 DEF AN!LaterOf
<1>7. /\ w \in AWork /\ w.from = on /\ w.walk = Nil /\ w.model = m /\ w.saved = worker.saved
      /\ w.at = "round" /\ w.target = worker.target
  <2> DEFINE to == walk.to
             last == worker.last
             hand == Nil
  <2>1. w = Stepped(hand, to, last, on)
    BY <1>2 DEF Stepped, AWork
  <2>2. worker \in AWork /\ to \in Nat /\ last \in Nat /\ on \in Nat /\ (hand \in AWalk \/ hand = Nil)
    BY <1>2, <1>4, <1>6 DEF AWork
  <2> HIDE DEF w, on, to, last, hand
  <2>3. /\ w \in AWork /\ w.from = on /\ w.walk = hand /\ w.model = worker.model
        /\ w.saved = worker.saved /\ w.at = worker.at /\ w.target = worker.target
    BY <2>1, <2>2, SteppedIs
  <2> QED
    BY <1>2, <2>3 DEF hand
<1> HIDE DEF w, on
<1>8. torn \in SUBSET Nat /\ spare \in SUBSET Nat
  BY <1>2, <1>4 DEF AN!Unposted, AMove
<1>9. seen' = MoreSeen({}, {}, spare)
  <2>1. \A S : S \union {} = S
    OBVIOUS
  <2>2. \A S : (S \union torn) \union (IF saves THEN AN!Unposted(event) ELSE {}) = S \union spare
    OBVIOUS
  <2>3. seen' = [seen EXCEPT ![m] = [seen[m] EXCEPT !.excused = @ \union spare]]
    <3> HIDE DEF torn, spare, saves
    <3> QED
      BY <1>1, <1>7, <2>2
  <2> HIDE DEF torn, spare, saves
  <2>4. [seen[m] EXCEPT !.excused = @ \union spare]
          = [seen[m] EXCEPT !.looked = @ \union {}, !.moved = @ \union {}, !.excused = @ \union spare]
    BY <1>2, <2>1 DEF ASeen
  <2>5. MoreSeen({}, {}, spare)
          = [seen EXCEPT ![m] = [seen[m] EXCEPT !.looked = @ \union {}, !.moved = @ \union {},
                                                !.excused = @ \union spare]]
    BY <1>2 DEF MoreSeen
  <2> QED
    BY <2>3, <2>4, <2>5
<1>10. /\ seen' \in [Models -> ASeen] /\ seen'[m] \in ASeen
       /\ seen'[m].looked = seen[m].looked /\ seen'[m].moved = seen[m].moved
       /\ seen'[m].excused = seen[m].excused \union spare /\ seen'[m].begun = seen[m].begun
       /\ \A k \in Models :
            /\ Outgrows(seen[k], seen'[k])
            /\ \A f \in seen'[k].moved : f \in seen[k].moved \/ (k = m /\ worker.from <= f)
  <2> DEFINE none == {}
  <2>1. none \in SUBSET Nat /\ (\A S : S \union none = S) /\ \A f \in none : worker.from <= f
    OBVIOUS
  <2>2. seen' = MoreSeen(none, none, spare) /\ worker.at # "off" /\ spare \in SUBSET Nat
    BY <1>2, <1>8, <1>9
  <2> HIDE DEF spare, none
  <2>3. /\ seen' \in [Models -> ASeen] /\ m \in Models /\ seen[m] \in ASeen /\ seen'[m] \in ASeen
        /\ seen'[m].looked = seen[m].looked \union none
        /\ seen'[m].moved = seen[m].moved \union none
        /\ seen'[m].excused = seen[m].excused \union spare /\ seen'[m].begun = seen[m].begun
        /\ \A k \in Models :
             /\ Outgrows(seen[k], seen'[k])
             /\ \A f \in seen'[k].moved : f \in seen[k].moved \/ (k = m /\ worker.from <= f)
    BY <2>1, <2>2, MoreIs
  <2> QED
    BY <2>1, <2>3
<1>11. Sound(reels, today, seen'[m], on)
  <2>1. on + Behind <= today + 1 \/ on <= seen'[m].begun
    BY <1>2, <1>4, <1>6, <1>10 DEF Sound
  <2>2. ASSUME NEW i \in There(reels), NEW f \in reels[i].frames
        PROVE  AN!Passed(seen'[m], f, on)
    <3> SUFFICES ASSUME seen'[m].begun <= f, f < on, f \notin seen'[m].excused
                 PROVE  \E g \in seen'[m].looked : g <= f /\ f < g + Step
      BY DEF AN!Passed
    <3>1. i \in AN!Listed /\ i \in DOMAIN reels /\ f \in Nat
      BY <1>2, ListedOn, ReelIs DEF There
    <3>2. CASE f < worker.from
      <4>1. AN!Passed(seen[m], f, worker.from)
        BY <1>2 DEF Sound
      <4> QED
        BY <1>10, <3>2, <4>1 DEF AN!Passed
    <3>3. CASE worker.from <= f /\ f < walk.target
      BY <1>3, <1>10, <3>1, <3>3 DEF OnWay
    <3>4. CASE walk.target <= f
      <4>1. f <= walk.to
        BY <1>2, <1>4, <1>6, <3>1, <3>4
      <4>2. AN!Torn(walk)
        BY <1>3, <1>5, <3>1, <3>4, <4>1 DEF OnWay
      <4>3. f \in torn
        BY <1>4, <3>1, <3>4, <4>1, <4>2
      <4> QED
        BY <1>10, <4>3
    <3> QED
      BY <1>2, <1>4, <3>1, <3>2, <3>3, <3>4
  <2> QED
    BY <2>1, <2>2 DEF Sound
<1> HIDE DEF torn
<1>12. Told(seen'[m], jobs, event)
  BY <1>2, <1>10 DEF WorkInv, Told
<1>13. saves => Told(seen'[m], jobs, Nil)
  BY <1>2, <1>10, <1>12, OpenExcused
<1> HIDE DEF spare
<1>14. /\ event' = event
       /\ worker' \in AWork /\ worker'.at = "round" /\ worker'.model = m /\ worker'.from = on
       /\ worker'.walk = Nil /\ worker'.target = worker.target
       /\ \/ jobs' = jobs /\ worker'.saved = worker.saved
          \/ /\ saves /\ jobs' = Append(jobs, ProgressPost(worker'.from, m))
             /\ worker.saved <= worker'.saved /\ worker'.saved = worker'.from
  <2>1. saves \in BOOLEAN
    BY DEF AN!Saves
  <2>2. worker' = IF saves THEN AN!Saved(w) ELSE w
    BY <1>1
  <2>3. AN!Takes(IF saves THEN AN!Save(kept, w) ELSE kept)
    BY <1>1
  <2>4. kept.open = event /\ kept.posts = jobs
    OBVIOUS
  <2>5. w \in AWork
    BY <1>7
  <2> HIDE DEF kept, saves
  <2>6. /\ event' = kept.open
        /\ worker' \in AWork /\ worker'.at = w.at /\ worker'.model = w.model /\ worker'.from = w.from
        /\ worker'.walk = w.walk /\ worker'.target = w.target
        /\ \/ jobs' = kept.posts /\ worker'.saved = w.saved
           \/ /\ saves /\ jobs' = Append(kept.posts, ProgressPost(worker'.from, w.model))
              /\ w.saved <= worker'.saved /\ worker'.saved = worker'.from
    BY <2>1, <2>2, <2>3, <2>5, SavesOrNot
  <2> QED
    BY <1>7, <2>4, <2>6
<1>15. \A f \in seen'[m].moved : f < on
  <2> SUFFICES ASSUME NEW f \in seen'[m].moved PROVE f < on
    OBVIOUS
  <2>1. f \in Nat /\ f < worker.from
    BY <1>2, <1>10 DEF ASeen, WorkInv
  <2> QED
    BY <1>2, <1>6, <2>1
<1>16. HandInv'
  BY <1>14 DEF HandInv
<1>17. event' # Nil => event'.start <= event'.end /\ event'.end < worker'.from
  <2>1. event # Nil => event.end \in Nat
    BY <1>2 DEF AMove
  <2> QED
    BY <1>2, <1>6, <1>14, <2>1
<1> HIDE DEF saves
<1> DEFINE p == jobs
<1>18. /\ p = jobs \/ (event # Nil /\ p = Closing)
       /\ event' \in AMove \union {Nil} /\ Told(seen'[m], p, event')
       /\ \/ jobs' = p /\ worker'.saved = worker.saved
          \/ /\ jobs' = Append(p, ProgressPost(worker'.from, m))
             /\ worker.saved <= worker'.saved /\ worker'.saved = worker'.from
             /\ Told(seen'[m], p, Nil)
  BY <1>2, <1>12, <1>13, <1>14
<1> HIDE DEF p
<1>19. /\ worker'.at # "off" /\ Sound(reels, today, seen'[m], worker'.from)
       /\ \A f \in seen'[m].moved : f < worker'.from
       /\ worker'.at = "round" => worker'.target + Behind <= today
       /\ worker.from <= worker'.from
  BY <1>2, <1>6, <1>11, <1>14, <1>15
<1> QED
  BY <1>1, <1>2, <1>10, <1>14, <1>16, <1>17, <1>18, <1>19, WorkGoesOn

\* What is open is posted, then the progress; nothing else is seen.
LEMMA PostsAll ==
  ASSUME AnalysisInv, worker.at # "off", AN!Takes(AN!Save(AN!Flush(AN!Now), worker))
  PROVE  LET p == IF event = Nil THEN jobs ELSE Closing
         IN  /\ event' = Nil /\ (p = jobs \/ (event # Nil /\ p = Closing))
             /\ Told(seen[worker.model], p, Nil)
             /\ \/ jobs' = p /\ AN!Saved(worker) = worker
                \/ /\ jobs' = Append(p, ProgressPost(worker.from, worker.model))
                   /\ AN!Saved(worker) = [worker EXCEPT !.saved = worker.from]
<1> DEFINE p == IF event = Nil THEN jobs ELSE Closing
           a == [open |-> Nil, posts |-> p]
           s == seen[worker.model]
           none == {}
<1>1. worker \in AWork /\ event \in AMove \union {Nil}
  BY DEF AnalysisInv, AnalysisShape
<1>2. AN!Flush(AN!Now) = a
  BY FlushIs
<1>3. AN!Takes(AN!Save(a, worker)) /\ a.open = Nil /\ a.posts = p
  BY <1>2
<1>4. Carries(a)
  BY <1>1 DEF Carries
<1>5. p = jobs \/ (event # Nil /\ p = Closing)
  OBVIOUS
<1> HIDE DEF a
<1>6. Told(s, a.posts, a.open)
  <2>1. /\ s.moved \subseteq seen[worker.model].moved \union none
        /\ seen[worker.model].excused \subseteq s.excused
        /\ \A f \in none : InOpen(a.open, f)
    OBVIOUS
  <2> HIDE DEF s, none
  <2> QED
    BY <1>4, <2>1, StillTold
<1>7. /\ event' = a.open
      /\ \/ worker.from <= worker.saved /\ jobs' = a.posts /\ AN!Saved(worker) = worker
         \/ /\ worker.saved < worker.from
            /\ jobs' = Append(a.posts, ProgressPost(worker.from, worker.model))
            /\ AN!Saved(worker) = [worker EXCEPT !.saved = worker.from]
  BY <1>1, <1>3, SaveIs
<1> HIDE DEF p
<1> QED
  BY <1>3, <1>5, <1>6, <1>7 DEF p

LEMMA SameSeen ==
  ASSUME AnalysisInv, worker.at # "off", seen' = seen
  PROVE  /\ seen' \in [Models -> ASeen]
         /\ \A m \in Models :
              /\ Outgrows(seen[m], seen'[m])
              /\ \A f \in seen'[m].moved : f \in seen[m].moved \/ (m = worker.model /\ worker.from <= f)
  BY DEF AnalysisInv, AnalysisShape, Outgrows

LEMMA EndRoundKeeps ==
  ASSUME AnalysisInv, AN!EndRound
  PROVE  AnalysisInv'
<1> DEFINE p == IF event = Nil THEN jobs ELSE Closing
           m == worker.model
<1>1. /\ worker.at = "round" /\ AN!Takes(AN!Save(AN!Flush(AN!Now), worker))
      /\ worker' = [AN!Saved(worker) EXCEPT !.at = "idle"]
      /\ UNCHANGED <<today, reels, filmed, analysisEvents, progress, seen>>
  BY DEF AN!EndRound, AN!Disk, AN!Base
<1>2. /\ WorkInv /\ worker \in AWork /\ worker.from \in Nat /\ worker.saved \in Nat
      /\ worker.saved <= worker.from
  BY <1>1 DEF AnalysisInv, AnalysisShape, WorkInv, AWork
<1>3. /\ event' = Nil /\ (p = jobs \/ (event # Nil /\ p = Closing)) /\ Told(seen[m], p, Nil)
      /\ \/ jobs' = p /\ AN!Saved(worker) = worker
         \/ /\ jobs' = Append(p, ProgressPost(worker.from, m))
            /\ AN!Saved(worker) = [worker EXCEPT !.saved = worker.from]
  BY <1>1, PostsAll
<1> HIDE DEF p
<1>4. /\ worker' \in AWork /\ worker'.at = "idle" /\ worker'.model = m /\ worker'.from = worker.from
      /\ worker'.walk = worker.walk
      /\ \/ jobs' = p /\ worker'.saved = worker.saved
         \/ /\ jobs' = Append(p, ProgressPost(worker'.from, m))
            /\ worker.saved <= worker'.saved /\ worker'.saved = worker'.from
  <2>1. CASE jobs' = p /\ AN!Saved(worker) = worker
    <3>1. worker' = [worker EXCEPT !.at = "idle"]
      BY <1>1, <2>1
    <3> QED
      BY <1>2, <2>1, <3>1 DEF AWork
  <2>2. CASE /\ jobs' = Append(p, ProgressPost(worker.from, m))
             /\ AN!Saved(worker) = [worker EXCEPT !.saved = worker.from]
    <3>1. worker' = [worker EXCEPT !.saved = worker.from, !.at = "idle"]
      BY <1>1, <2>2
    <3>2. worker' \in AWork
      BY <1>2, <3>1 DEF AWork
    <3>3. /\ worker'.at = "idle" /\ worker'.model = m /\ worker'.from = worker.from
          /\ worker'.walk = worker.walk /\ worker'.saved = worker.from
      BY <1>2, <3>1 DEF AWork
    <3> QED
      BY <1>2, <2>2, <3>2, <3>3
  <2> QED
    BY <1>3, <2>1, <2>2
<1>5. /\ seen' \in [Models -> ASeen] /\ seen' = seen
      /\ \A k \in Models :
           /\ Outgrows(seen[k], seen'[k])
           /\ \A f \in seen'[k].moved : f \in seen[k].moved \/ (k = m /\ worker.from <= f)
  BY <1>1, SameSeen
<1>6. HandInv'
  BY <1>1, <1>2, <1>4 DEF HandInv, WorkInv
<1>7. /\ Sound(reels, today, seen'[m], worker'.from) /\ worker.from <= worker'.from
      /\ \A f \in seen'[m].moved : f < worker'.from
  BY <1>1, <1>2, <1>4, <1>5 DEF WorkInv
<1>8. /\ worker.at # "off" /\ worker'.at # "off" /\ ~(worker'.at = "round")
      /\ event' \in AMove \union {Nil} /\ ~(event' # Nil)
      /\ Told(seen'[m], p, event') /\ Told(seen'[m], p, Nil)
  BY <1>1, <1>3, <1>4, <1>5
<1> QED
  BY <1>1, <1>3, <1>4, <1>5, <1>6, <1>7, <1>8, WorkGoesOn

LEMMA RestingIs ==
  /\ AN!Resting \in AWork /\ AN!Resting.at = "off" /\ AN!Resting.walk = Nil
  BY DEF AN!Resting, AWork

LEMMA StopKeepsIt ==
  ASSUME AnalysisInv, AN!Stop
  PROVE  AnalysisInv'
<1> DEFINE p == IF event = Nil THEN jobs ELSE Closing
           m == worker.model
           to == worker.from
<1>1. /\ worker.at # "off" /\ AN!Takes(AN!Save(AN!Flush(AN!Now), worker)) /\ worker' = AN!Resting
      /\ UNCHANGED <<today, reels, filmed, analysisEvents, progress, seen>>
  BY DEF AN!Stop, AN!Disk, AN!Base
<1>2. /\ ReelShape /\ FilmShape /\ AnalysisShape /\ WorkInv /\ to \in Nat
      /\ Sound(reels, today, seen[m], to)
  BY <1>1, PlacesAre DEF AnalysisInv, WorkInv
<1>3. /\ event' = Nil /\ (p = jobs \/ (event # Nil /\ p = Closing)) /\ Told(seen[m], p, Nil)
      /\ jobs' = p \/ jobs' = Append(p, ProgressPost(to, m))
  BY <1>1, PostsAll
<1> HIDE DEF p
<1>4. /\ seen' \in [Models -> ASeen] /\ seen' = seen
      /\ \A k \in Models :
           /\ Outgrows(seen[k], seen'[k])
           /\ \A f \in seen'[k].moved : f \in seen[k].moved \/ (k = m /\ worker.from <= f)
  BY <1>1, SameSeen
<1>5. \/ jobs' = p
      \/ /\ jobs' = Append(p, ProgressPost(to, worker.model))
         /\ Sound(reels, today, seen'[worker.model], to)
         /\ \A f \in seen'[worker.model].moved :
              f < to => \/ f \in seen'[worker.model].excused
                        \/ InTable(analysisEvents, f) \/ InPosts(p, f, Len(p))
  BY <1>2, <1>3, <1>4 DEF Told, InOpen
<1> HIDE DEF to
<1>6. jobs' \in Seq(APost) /\ ProgressInv' /\ PostsInv'
  BY <1>1, <1>2, <1>3, <1>4, <1>5, PostsKeep
<1>7. ReelShape' /\ FilmShape'
  BY <1>1, <1>2 DEF ReelShape, FilmShape
<1>8. AnalysisShape' /\ WorkInv' /\ RestInv'
  BY <1>1, <1>2, <1>3, <1>4, <1>6, RestingIs DEF AnalysisShape, WorkInv, RestInv
<1> QED
  BY <1>6, <1>7, <1>8 DEF AnalysisInv

LEMMA CrashKeepsIt ==
  ASSUME AnalysisInv, AN!Crash
  PROVE  AnalysisInv'
<1>1. /\ worker' = AN!Resting /\ event' = Nil /\ jobs' = <<>>
      /\ UNCHANGED <<today, reels, filmed, analysisEvents, progress, seen>>
  BY DEF AN!Crash, AN!Disk, AN!Base
<1>2. ReelShape' /\ FilmShape' /\ ProgressInv'
  BY <1>1 DEF AnalysisInv, ReelShape, FilmShape, ProgressInv
<1>3. jobs' \in Seq(APost) /\ Len(jobs') = 0
  BY <1>1
<1>4. AnalysisShape' /\ RestInv' /\ WorkInv'
  BY <1>1, <1>3, RestingIs DEF AnalysisInv, AnalysisShape, RestInv, WorkInv
<1>5. PostsInv'
  BY <1>3 DEF PostsInv
<1> QED
  BY <1>2, <1>4, <1>5 DEF AnalysisInv

LEMMA BeginRoundKeeps ==
  ASSUME AnalysisInv, AN!BeginRound
  PROVE  AnalysisInv'
<1> DEFINE target == today - Behind
<1>1. /\ worker.at = "idle" /\ worker' = [worker EXCEPT !.at = "round", !.target = target, !.n = 0]
      /\ worker'.from <= worker'.target
      /\ UNCHANGED <<today, reels, filmed, analysisEvents, progress, seen, event, jobs>>
  BY DEF AN!BeginRound, AN!Disk, AN!Base
<1>2. /\ WorkInv /\ worker \in AWork /\ worker.from \in Nat /\ today \in Nat /\ Behind \in Nat /\ target \in Int
  BY <1>1, AnalysisFacts DEF AnalysisInv, AnalysisShape, AWork, ReelShape
<1> HIDE DEF target
<1>3. worker.from <= target
  BY <1>1, <1>2 DEF AWork
<1>4. target \in Nat
  BY <1>2, <1>3
<1>5. worker' \in AWork
  BY <1>1, <1>2, <1>4 DEF AWork
<1>6. /\ worker'.at = "round" /\ worker'.target = target /\ worker'.from = worker.from
      /\ worker'.model = worker.model /\ worker'.saved = worker.saved /\ worker'.walk = worker.walk
  BY <1>1, <1>2 DEF AWork
<1>7. HandInv'
  BY <1>1, <1>2, <1>6 DEF HandInv, WorkInv
<1>8. target + Behind <= today
  BY <1>2 DEF target
<1>9. WorkInv'
  BY <1>1, <1>2, <1>6, <1>7, <1>8 DEF WorkInv
<1>10. ReelShape' /\ FilmShape' /\ ProgressInv' /\ AnalysisShape' /\ RestInv'
  BY <1>1, <1>5, <1>6 DEF AnalysisInv, ReelShape, FilmShape, ProgressInv, AnalysisShape, RestInv
<1>11. PostsInv'
  BY <1>1 DEF AnalysisInv, PostsInv, PostInv
<1> QED
  BY <1>9, <1>10, <1>11 DEF AnalysisInv

\* What is not of the analysis changes nothing of it.
LEMMA AnalysisSame ==
  ASSUME AnalysisInv,
         UNCHANGED <<today, reels, filmed, analysisEvents, progress, seen, event, jobs, worker>>
  PROVE  AnalysisInv'
<1>1. ReelShape' /\ FilmShape' /\ ProgressInv' /\ AnalysisShape' /\ RestInv'
  BY DEF AnalysisInv, ReelShape, FilmShape, ProgressInv, AnalysisShape, RestInv
<1>2. PostsInv'
  BY DEF AnalysisInv, PostsInv, PostInv
<1>3. WorkInv'
  BY DEF AnalysisInv, WorkInv, HandInv
<1> QED
  BY <1>1, <1>2, <1>3 DEF AnalysisInv

\* Where a start begins: never before the progress of its model.
LEMMA StartPointIs ==
  ASSUME ReelShape, AnalysisShape, NEW m
  PROVE  AN!StartPoint(m) \in Nat /\ (progress.model = m => progress.to <= AN!StartPoint(m))
<1> DEFINE saved == AN!ReadProgress(m)
           starts == {AN!Starts(i) : i \in AN!Listed}
           first == IF AN!Listed = {} THEN today ELSE AN!Least(starts)
<1>1. /\ saved \in Nat /\ today \in Nat /\ Backfill \in Nat /\ progress.to \in Nat
      /\ progress.model = m => saved = progress.to
  BY PlacesAre, AnalysisFacts DEF ReelShape, AN!ReadProgress
<1>2. first \in Nat
  <2>1. CASE AN!Listed = {}
    BY <1>1, <2>1
  <2>2. CASE AN!Listed # {}
    <3>1. starts \subseteq Nat
      BY ListedAre, ReelIs
    <3>2. starts # {}
      BY <2>2
    <3>3. first = AN!Least(starts)
      BY <2>2
    <3> HIDE DEF starts, first
    <3> QED
      BY <3>1, <3>2, <3>3, FirstOf
  <2> QED
    BY <2>1, <2>2
<1>3. AN!StartPoint(m) = IF saved > 0 THEN AN!LaterOf(saved, first)
                         ELSE IF Backfill = 0 THEN first
                         ELSE AN!LaterOf(first, today - Backfill)
  BY DEF AN!StartPoint
<1> HIDE DEF saved, first
<1> QED
  BY <1>1, <1>2, <1>3 DEF AN!LaterOf

\* What an analysis has seen before ms is enough of it to go on from there.
LEMMA UntilIs ==
  ASSUME NEW s \in ASeen, NEW ms \in Nat, Sound(reels, today, s, ms), ReelShape
  PROVE  LET t == AN!Until(s, ms)
         IN  /\ t \in ASeen /\ Sound(reels, today, t, ms)
             /\ \A f \in t.moved : f < ms /\ f \in s.moved /\ (f \in s.excused => f \in t.excused)
<1> DEFINE t == AN!Until(s, ms)
           l == {f \in s.looked : f < ms}
           v == {f \in s.moved : f < ms}
           x == {f \in s.excused : f < ms}
<1>1. s.looked \subseteq Nat /\ s.moved \subseteq Nat /\ s.excused \subseteq Nat
  BY DEF ASeen
<1>2. l \in SUBSET Nat /\ v \in SUBSET Nat /\ x \in SUBSET Nat
  BY <1>1
<1>3. t = [s EXCEPT !.looked = l, !.moved = v, !.excused = x]
  BY Zenon DEF AN!Until
<1>4. /\ \A f \in l : f \in s.looked /\ f < ms
      /\ \A f \in s.looked : f < ms => f \in l
      /\ \A f \in v : f \in s.moved /\ f < ms
      /\ \A f \in s.excused : f < ms => f \in x
  OBVIOUS
<1> HIDE DEF l, v, x, t
<1>5. t \in ASeen /\ t.looked = l /\ t.moved = v /\ t.excused = x /\ t.begun = s.begun
  BY <1>2, <1>3 DEF ASeen
<1>6. Step \in Nat \ {0}
  BY AnalysisFacts
<1>7. ASSUME NEW i \in There(reels), NEW f \in reels[i].frames
      PROVE  AN!Passed(t, f, ms)
  <2>1. AN!Passed(s, f, ms)
    BY DEF Sound
  <2>2. f \in Nat
    BY ReelIs DEF There
  <2> SUFFICES ASSUME s.begun <= f, f < ms, f \notin x
               PROVE  \E g \in l : g <= f /\ f < g + Step
    BY <1>5 DEF AN!Passed
  <2>3. PICK g \in s.looked : g <= f /\ f < g + Step
    BY <1>4, <2>1 DEF AN!Passed
  <2>4. g \in Nat /\ g < ms
    BY <1>1, <2>2, <2>3
  <2> QED
    BY <1>4, <2>3, <2>4
<1>8. Sound(reels, today, t, ms)
  BY <1>5, <1>7 DEF Sound
<1>9. \A f \in t.moved : f < ms /\ f \in s.moved /\ (f \in s.excused => f \in t.excused)
  BY <1>4, <1>5
<1> QED
  BY <1>5, <1>8, <1>9 DEF t

\* One that begins anew, at or after ms, has missed nothing.
LEMMA AnewIs ==
  ASSUME ReelShape, NEW at \in Nat, NEW ms \in Nat, ms <= at
  PROVE  LET t == [AN!Blank EXCEPT !.begun = at]
         IN  t \in ASeen /\ Sound(reels, today, t, ms) /\ t.moved = {}
<1> DEFINE t == [AN!Blank EXCEPT !.begun = at]
<1>1. t = [looked |-> {}, moved |-> {}, excused |-> {}, begun |-> at]
  BY DEF AN!Blank
<1>2. t \in ASeen /\ t.moved = {} /\ t.begun = at
  BY <1>1 DEF ASeen
<1> HIDE DEF t
<1>3. ASSUME NEW i \in There(reels), NEW f \in reels[i].frames
      PROVE  AN!Passed(t, f, ms)
  <2>1. f \in Nat
    BY ReelIs DEF There
  <2> QED
    BY <1>2, <2>1 DEF AN!Passed
<1> QED
  BY <1>2, <1>3 DEF Sound, t

LEMMA StartKeeps ==
  ASSUME AnalysisInv, NEW m \in Models, AN!Start(m)
  PROVE  AnalysisInv'
<1> DEFINE at == AN!StartPoint(m)
           goes == progress.model = m /\ at = progress.to
           s == seen[m]
           t == IF goes THEN AN!Until(s, at) ELSE [AN!Blank EXCEPT !.begun = at]
           w == [AN!Resting EXCEPT !.at = "idle", !.from = at, !.saved = at, !.model = m]
<1>1. /\ worker.at = "off" /\ jobs = <<>> /\ worker' = w
      /\ seen' = [seen EXCEPT ![m] = t]
      /\ UNCHANGED <<today, reels, filmed, event, jobs, analysisEvents, progress>>
  BY Zenon DEF AN!Start, AN!Disk, AN!Base
<1>2. /\ ReelShape /\ FilmShape /\ AnalysisShape /\ ProgressInv /\ event = Nil
      /\ progress.to \in Nat /\ s \in ASeen /\ seen \in [Models -> ASeen]
  BY <1>1, PlacesAre DEF AnalysisInv, RestInv, AnalysisShape
<1>3. at \in Nat /\ (progress.model = m => progress.to <= at)
  BY <1>2, StartPointIs
<1> HIDE DEF at
<1>4. w \in AWork /\ w.at = "idle" /\ w.from = at /\ w.saved = at /\ w.model = m /\ w.walk = Nil
  <2>1. AN!Resting \in AWork /\ AN!Resting.walk = Nil
    BY RestingIs
  <2> QED
    BY <1>3, <2>1 DEF AWork
<1> HIDE DEF w, s
<1>5. /\ t \in ASeen /\ Sound(reels, today, t, at)
      /\ \A f \in t.moved : /\ f < at
                            /\ f \in t.excused \/ InTable(analysisEvents, f)
      /\ progress.model = m => Sound(reels, today, t, progress.to)
  <2>1. CASE goes
    <3>1. /\ Sound(reels, today, s, at)
          /\ \A f \in s.moved : f < at => f \in s.excused \/ InTable(analysisEvents, f)
      BY <1>2, <2>1 DEF ProgressInv, s
    <3>2. t = AN!Until(s, at) /\ at = progress.to
      BY <2>1
    <3> HIDE DEF t
    <3> QED
      BY <1>2, <1>3, <3>1, <3>2, UntilIs
  <2>2. CASE ~goes
    <3>1. t = [AN!Blank EXCEPT !.begun = at]
      BY <2>2
    <3> HIDE DEF t
    <3>2. at <= at
      BY <1>3
    <3> QED
      BY <1>2, <1>3, <3>1, <3>2, AnewIs
  <2> QED
    BY <2>1, <2>2
<1> HIDE DEF t, goes
<1>6. seen' \in [Models -> ASeen] /\ seen'[m] = t /\ \A k \in Models : k # m => seen'[k] = seen[k]
  BY <1>1, <1>2, <1>5
<1>7. ReelShape' /\ FilmShape' /\ AnalysisShape' /\ RestInv'
  BY <1>1, <1>2, <1>4, <1>6 DEF ReelShape, FilmShape, AnalysisShape, RestInv
<1>8. ProgressInv'
  <2> SUFFICES ASSUME progress.model \in Models
               PROVE  /\ Sound(reels, today, seen'[progress.model], progress.to)
                      /\ \A f \in seen'[progress.model].moved :
                           f < progress.to => f \in seen'[progress.model].excused \/ InTable(analysisEvents, f)
    BY <1>1 DEF ProgressInv
  <2>1. CASE progress.model = m
    BY <1>5, <1>6, <2>1
  <2>2. CASE progress.model # m
    BY <1>2, <1>6, <2>2 DEF ProgressInv
  <2> QED
    BY <2>1, <2>2
<1>9. jobs' = <<>> /\ Len(jobs') = 0
  BY <1>1
<1>10. PostsInv'
  BY <1>9 DEF PostsInv
<1>11. WorkInv'
  <2>1. worker'.saved <= worker'.from /\ worker'.at # "round" /\ event' = Nil
    BY <1>1, <1>2, <1>3, <1>4
  <2>2. HandInv'
    BY <1>1, <1>4 DEF HandInv
  <2> QED
    BY <1>1, <1>3, <1>4, <1>5, <1>6, <1>9, <2>1, <2>2 DEF WorkInv
<1> QED
  BY <1>7, <1>8, <1>10, <1>11 DEF AnalysisInv

-----------------------------------------------------------------------------
(* The writer of the database. *)

LEMMA TheRest ==
  ASSUME NEW S, NEW s \in Seq(S), s # <<>>, NEW t, t = Tail(s)
  PROVE  /\ t \in Seq(S) /\ Len(s) \in Nat \ {0} /\ Len(t) = Len(s) - 1 /\ Head(s) = s[1] /\ s[1] \in S
         /\ \A k \in 1 .. Len(t) : k + 1 \in 1 .. Len(s) /\ t[k] = s[k + 1]
<1>1. /\ Len(s) \in Nat \ {0} /\ t \in Seq(S) /\ Len(t) = Len(s) - 1 /\ Head(s) = s[1]
      /\ \A k \in 1 .. Len(t) : t[k] = s[k + 1]
  BY HeadTailProperties, EmptySeq
<1>2. s[1] \in S
  BY <1>1, ElementOfSeq
<1>3. \A k \in 1 .. Len(t) : k + 1 \in 1 .. Len(s)
  BY <1>1
<1> QED
  BY <1>1, <1>2, <1>3

LEMMA DoJobKeeps ==
  ASSUME AnalysisInv, AN!DoJob
  PROVE  AnalysisInv'
<1> DEFINE j == jobs[1]
<1>1. /\ ReelShape /\ FilmShape /\ AnalysisShape /\ ProgressInv /\ PostsInv /\ WorkInv /\ RestInv
      /\ jobs # <<>> /\ jobs \in Seq(APost) /\ progress.to \in Nat
  BY PlacesAre DEF AnalysisInv, AN!DoJob, AnalysisShape
<1>2. /\ jobs' \in Seq(APost) /\ Len(jobs) \in Nat \ {0} /\ Len(jobs') = Len(jobs) - 1
      /\ Head(jobs) = j /\ j \in APost
      /\ \A k \in 1 .. Len(jobs') : k + 1 \in 1 .. Len(jobs) /\ jobs'[k] = jobs[k + 1]
  BY <1>1, TheRest DEF AN!DoJob
<1>3. /\ \/ /\ j.kind = "event" /\ progress' = progress
            /\ analysisEvents' = analysisEvents \union {[start |-> j.from, end |-> j.to]}
         \/ /\ j.kind = "progress" /\ progress' = [to |-> j.to, model |-> j.model]
            /\ analysisEvents' = analysisEvents
      /\ UNCHANGED <<today, reels, filmed, worker, event, seen>>
  BY <1>2 DEF AN!DoJob, AN!Disk, APost
<1>4. 1 \in 1 .. Len(jobs)
  BY <1>2
<1> HIDE DEF j
<1>5. \A f : InTable(analysisEvents, f) => InTable(analysisEvents', f)
  BY <1>3 DEF InTable
<1>6. ASSUME NEW k \in 0 .. Len(jobs'), NEW f, InPosts(jobs, f, k + 1)
      PROVE  InTable(analysisEvents', f) \/ InPosts(jobs', f, k)
  <2>1. PICK l \in 1 .. k + 1 : jobs[l].kind = "event" /\ Spans(f, jobs[l].from, jobs[l].to)
    BY <1>6 DEF InPosts
  <2>2. CASE l = 1
    <3>1. j.kind = "event" /\ Spans(f, j.from, j.to)
      BY <2>1, <2>2 DEF j
    <3>2. [start |-> j.from, end |-> j.to] \in analysisEvents'
      BY <1>3, <3>1
    <3> QED
      BY <3>1, <3>2 DEF InTable
  <2>3. CASE l # 1
    <3>1. l - 1 \in 1 .. k /\ l - 1 \in 1 .. Len(jobs') /\ (l - 1) + 1 = l
      BY <1>2, <2>3
    <3>2. jobs'[l - 1] = jobs[l]
      BY <1>2, <3>1
    <3> QED
      BY <2>1, <3>1, <3>2 DEF InPosts
  <2> QED
    BY <2>2, <2>3
<1>7. /\ \A k \in 1 .. Len(jobs) : PostInv(k)
      /\ \A m \in Models : seen[m] \in ASeen
  BY <1>1, PlacesAre DEF PostsInv
<1>8. ProgressInv'
  <2>1. CASE progress' = progress
    BY <1>1, <1>3, <1>5, <2>1 DEF ProgressInv
  <2>2. CASE j.kind = "progress" /\ progress' = [to |-> j.to, model |-> j.model]
    <3>1. /\ j.model \in Models /\ Sound(reels, today, seen[j.model], j.to)
          /\ \A f \in seen[j.model].moved :
               f < j.to => \/ f \in seen[j.model].excused
                           \/ InTable(analysisEvents, f) \/ InPosts(jobs, f, 1)
      BY <1>4, <1>7, <2>2 DEF PostInv, j
    <3>2. \A f : ~InPosts(jobs, f, 1)
      <4> SUFFICES ASSUME NEW f, InPosts(jobs, f, 1) PROVE FALSE
        OBVIOUS
      <4>1. PICK l \in 1 .. 1 : jobs[l].kind = "event"
        BY DEF InPosts
      <4>2. l = 1
        OBVIOUS
      <4> QED
        BY <2>2, <4>1, <4>2 DEF j
    <3>3. progress'.to = j.to /\ progress'.model = j.model
      BY <2>2
    <3> QED
      BY <1>3, <1>5, <3>1, <3>2, <3>3 DEF ProgressInv
  <2> QED
    BY <1>3, <2>1, <2>2
<1>9. PostsInv'
  <2> SUFFICES ASSUME NEW k \in 1 .. Len(jobs') PROVE PostInv(k)'
    BY DEF PostsInv
  <2>1. PostInv(k + 1) /\ jobs'[k] = jobs[k + 1] /\ k \in 0 .. Len(jobs')
    BY <1>2, <1>7
  <2>2. \A f : InPosts(jobs, f, k + 1) => InTable(analysisEvents', f) \/ InPosts(jobs', f, k)
    BY <1>6, <2>1
  <2> QED
    BY <1>3, <1>5, <2>1, <2>2 DEF PostInv
<1>10. AnalysisShape'
  <2>1. progress' \in [to : Nat, model : Models \union {"none"}]
    BY <1>1, <1>2, <1>3 DEF AnalysisShape, APost
  <2> QED
    BY <1>1, <1>2, <1>3, <2>1 DEF AnalysisShape
<1>11. WorkInv'
  <2> SUFFICES ASSUME worker.at # "off" PROVE WorkInv'
    BY <1>3 DEF WorkInv
  <2>1. progress'.model = worker.model => progress'.to <= worker.saved
    <3>1. CASE progress' = progress
      BY <1>1, <3>1 DEF WorkInv
    <3>2. CASE j.kind = "progress" /\ progress' = [to |-> j.to, model |-> j.model]
      <4>1. j.to <= worker.saved
        BY <1>1, <1>4, <3>2 DEF WorkInv, j
      <4> QED
        BY <3>2, <4>1
    <3> QED
      BY <1>3, <3>1, <3>2
  <2>2. \A k \in 1 .. Len(jobs') :
          jobs'[k].kind = "progress" => jobs'[k].model = worker.model /\ jobs'[k].to <= worker.saved
    BY <1>1, <1>2 DEF WorkInv
  <2>3. \A f \in seen[worker.model].moved :
          \/ f \in seen[worker.model].excused \/ InTable(analysisEvents', f)
          \/ InPosts(jobs', f, Len(jobs')) \/ InOpen(event, f)
    <3> SUFFICES ASSUME NEW f \in seen[worker.model].moved, InPosts(jobs, f, Len(jobs))
                 PROVE  InTable(analysisEvents', f) \/ InPosts(jobs', f, Len(jobs'))
      BY <1>1, <1>5 DEF WorkInv
    <3>1. Len(jobs') \in 0 .. Len(jobs') /\ Len(jobs') + 1 = Len(jobs)
      BY <1>2
    <3> QED
      BY <1>6, <3>1
  <2> QED
    BY <1>1, <1>3, <2>1, <2>2, <2>3 DEF WorkInv, HandInv
<1>12. ReelShape' /\ FilmShape' /\ RestInv'
  BY <1>1, <1>3 DEF ReelShape, FilmShape, RestInv
<1> QED
  BY <1>8, <1>9, <1>10, <1>11, <1>12 DEF AnalysisInv

-----------------------------------------------------------------------------

LEMMA AnalysisStarts ==
  ASSUME AN!AnalyticsInit
  PROVE  AnalysisInv
<1>1. /\ today = 1 /\ reels = <<>> /\ filmed = <<>> /\ worker = AN!Resting /\ event = Nil /\ jobs = <<>>
      /\ progress = [to |-> 0, model |-> "none"] /\ seen = [m \in Models |-> AN!Blank]
  BY DEF AN!AnalyticsInit
<1>2. AN!Blank \in ASeen /\ AN!Blank.begun = 0 /\ AN!Blank.moved = {}
  BY DEF AN!Blank, ASeen
<1>3. ReelShape /\ FilmShape
  BY <1>1 DEF ReelShape, FilmShape
<1>4. AnalysisShape
  BY <1>1, <1>2, RestingIs DEF AnalysisShape
<1>5. ProgressInv
  <2> SUFFICES ASSUME progress.model \in Models
               PROVE  /\ Sound(reels, today, AN!Blank, 0) /\ seen[progress.model] = AN!Blank /\ progress.to = 0
    BY <1>2 DEF ProgressInv
  <2>1. There(reels) = {}
    BY <1>1 DEF There
  <2> QED
    BY <1>1, <1>2, <2>1 DEF Sound
<1>6. PostsInv
  BY <1>1 DEF PostsInv
<1>7. WorkInv /\ RestInv
  BY <1>1, RestingIs DEF WorkInv, RestInv
<1> QED
  BY <1>3, <1>4, <1>5, <1>6, <1>7 DEF AnalysisInv

LEMMA AnalysisKeeps ==
  ASSUME AnalysisInv, AN!AnalyticsNext
  PROVE  AnalysisInv'
<1>1. ASSUME NEW c \in Ceilings, AN!ChangeSettings(c) PROVE AnalysisInv'
  BY <1>1, AnalysisSame DEF AN!ChangeSettings, AN!Disk, AN!Base
<1> QED
  BY <1>1, FilmKeeps, WriteFrameKeeps, DropReelKeeps, StartKeeps, BeginRoundKeeps, LookAtKeeps,
     WalkEndsKeeps, EndRoundKeeps, StopKeepsIt, CrashKeepsIt, DoJobKeeps DEF AN!AnalyticsNext

LEMMA AnalysisShows ==
  ASSUME AnalysisInv
  PROVE  AnalyticsSafe
<1>1. AN!NothingSkipped
  <2> SUFFICES ASSUME worker.at # "off", NEW i \in AN!Listed, NEW f \in reels[i].frames
               PROVE  AN!Passed(seen[worker.model], f, worker.from)
    BY DEF AN!NothingSkipped
  <2> QED
    BY ListedOn DEF AnalysisInv, WorkInv, Sound
<1>2. AN!ProgressTold
  <2> SUFFICES ASSUME progress.model \in Models, NEW f \in seen[progress.model].moved,
                      f < progress.to, f \notin seen[progress.model].excused
               PROVE  \E e \in analysisEvents : e.start <= f /\ f <= e.end
    BY DEF AN!ProgressTold
  <2> QED
    BY DEF AnalysisInv, ProgressInv, InTable, Spans
<1> QED
  BY <1>1, <1>2 DEF AnalyticsSafe

(* However late, within the lag, frames reach the disk, files end, are     *)
(* deleted and the walk's windows fall, the analysis passes over no frame  *)
(* more than a step from one it looked at; and what the database has as    *)
(* progress is never ahead of the events it has, across deaths, stops and  *)
(* changes of the model.                                                   *)
THEOREM NothingPassedOver == Spec => []AnalyticsSafe
<1>1. Init => AnalysisInv
  BY AnalysisStarts DEF Init
<1>2. AnalysisInv /\ [Next]_vars => AnalysisInv'
  <2> SUFFICES ASSUME AnalysisInv, [Next]_vars PROVE AnalysisInv'
    OBVIOUS
  <2>1. CASE ANStep
    BY <2>1, AnalysisKeeps DEF ANStep
  <2>2. CASE analysisVars' = analysisVars
    BY <2>2, AnalysisSame DEF analysisVars
  <2>3. ANStep \/ analysisVars' = analysisVars
    BY DEF Next, vars, ICStep, RTStep, MAStep, THStep, TLStep, SEStep, LGStep
  <2> QED
    BY <2>1, <2>2, <2>3
<1>3. AnalysisInv => AnalyticsSafe
  BY AnalysisShows
<1> QED
  BY <1>1, <1>2, <1>3, PTL DEF Spec
===============================================================================
