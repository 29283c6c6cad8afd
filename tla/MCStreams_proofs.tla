--------------------------- MODULE MCStreams_proofs ---------------------------
(***************************************************************************)
(* Proofs about what MCStreams puts together: the live view of the app and   *)
(* the servers it knows, the page's player, the recordings an RTSP client is *)
(* served, a camera moved by ONVIF, media over RTP and what tells motion,    *)
(* for any lists, recordings, threads, units, pictures and bounds.           *)
(***************************************************************************)
EXTENDS MCStreams, SequenceTheorems, FiniteSetTheorems, WellFoundedInduction, TLAPS

-----------------------------------------------------------------------------
(* The least of a set of numbers *)

LEMMA LeastOf ==
  ASSUME NEW S, S \subseteq Nat, S # {}
  PROVE  \E i \in S : \A j \in S : i <= j
<1>1. IsWellFoundedOn(OpToRel(<, Nat), Nat)
  BY NatLessThanWellFounded
<1>2. PICK i \in S : \A j \in S : ~(<<j, i>> \in OpToRel(<, Nat))
  <2> HIDE DEF OpToRel
  <2> QED
    BY <1>1, WFMin
<1>3. \A j \in S : ~(j < i)
  BY <1>2 DEF OpToRel
<1> QED
  BY <1>3

-----------------------------------------------------------------------------
(* AppLive: nobody is left connected *)

\* What a request holds at each place of its way through garantir and parar.
ViewRequest(r) ==
  /\ "at" \in DOMAIN asks[r]
  /\ AL!At(r, "look") => asks[r] = [at |-> "look", cam |-> asks[r].cam]
  /\ AL!At(r, "take") => asks[r] = [asks[r] EXCEPT !.at = "take"]
  /\ AL!At(r, "store") => asks[r].new \in DOMAIN sups

ViewShape ==
  /\ \E S : sups \in Seq([cam : S, up : BOOLEAN])
  /\ DOMAIN asks = Threads
  /\ \A r \in Threads : ViewRequest(r)

ViewInv == ViewShape /\ AL!ViewTypeOK /\ AL!NoneLeftRunning

\* What a step of a request may do to the supervisors.
LEMMA StoppingOne ==
  ASSUME NEW S, sups \in Seq([cam : S, up : BOOLEAN]), NEW j
  PROVE  /\ AL!Stopped(j) \in Seq([cam : S, up : BOOLEAN])
         /\ DOMAIN AL!Stopped(j) = DOMAIN sups
         /\ \A i \in DOMAIN sups : AL!Stopped(j)[i].up => sups[i].up /\ i # j
<1>1. PICK T : T = [cam : S, up : BOOLEAN]
  OBVIOUS
<1>2. sups \in Seq(T)
  BY <1>1
<1>3. CASE j \in DOMAIN sups
  <2>1. sups[j] \in T
    BY <1>2, <1>3
  <2>2. PICK t \in T : t = [sups[j] EXCEPT !.up = FALSE] /\ t.up = FALSE
    <3>1. PICK s \in T : s = sups[j]
      BY <2>1
    <3>2. [s EXCEPT !.up = FALSE] \in T /\ [s EXCEPT !.up = FALSE].up = FALSE
      BY <1>1, <3>1
    <3> QED
      BY <3>1, <3>2
  <2>3. AL!Stopped(j) = [sups EXCEPT ![j] = t]
    BY <2>2 DEF AL!Stopped
  <2>4. [sups EXCEPT ![j] = t] \in Seq(T)
    BY <1>2, <1>3, <2>2
  <2>5. /\ DOMAIN [sups EXCEPT ![j] = t] = DOMAIN sups
        /\ \A i \in DOMAIN sups : [sups EXCEPT ![j] = t][i] = IF i = j THEN t ELSE sups[i]
    OBVIOUS
  <2> QED
    BY <1>1, <2>2, <2>3, <2>4, <2>5
<1>4. CASE j \notin DOMAIN sups
  <2>1. AL!Stopped(j) = sups
    BY <1>2, <1>4 DEF AL!Stopped
  <2> QED
    BY <1>4, <2>1
<1> QED
  BY <1>3, <1>4

LEMMA StartingOne ==
  ASSUME NEW S, sups \in Seq([cam : S, up : BOOLEAN]), NEW c
  PROVE  LET more == Append(sups, [cam |-> c, up |-> TRUE]) IN
         /\ more \in Seq([cam : S \cup {c}, up : BOOLEAN])
         /\ DOMAIN more = DOMAIN sups \cup {Len(sups) + 1}
         /\ \A i \in DOMAIN sups : more[i] = sups[i]
         /\ Len(sups) + 1 \in Nat /\ Len(sups) + 1 \notin DOMAIN sups
<1>1. PICK T, U : T = [cam : S, up : BOOLEAN] /\ U = [cam : S \cup {c}, up : BOOLEAN]
  OBVIOUS
<1>2. T \subseteq U
  BY <1>1
<1>3. sups \in Seq(U)
  <2>1. sups \in Seq(T)
    BY <1>1
  <2> QED
    BY <1>2, <2>1
<1>4. PICK e \in U : e = [cam |-> c, up |-> TRUE]
  BY <1>1
<1>5. /\ Append(sups, e) \in Seq(U) /\ Len(Append(sups, e)) = Len(sups) + 1
      /\ \A i \in 1..Len(sups) : Append(sups, e)[i] = sups[i]
      /\ Len(sups) \in Nat
  BY <1>3, AppendProperties
<1>6. DOMAIN Append(sups, e) = 1..Len(Append(sups, e)) /\ DOMAIN sups = 1..Len(sups)
  BY <1>3, <1>5
<1> QED
  BY <1>1, <1>4, <1>5, <1>6

LEMMA ViewStarts ==
  ASSUME Init
  PROVE  ViewInv
<1>1. /\ saved \in Lists /\ sups = <<>> /\ current = Nil
      /\ asks = [r \in Threads |-> AL!Idle] /\ writes = 0
  BY DEF Init, AL!ViewInit
<1>2. ViewShape
  BY <1>1 DEF ViewShape, ViewRequest, AL!Idle, AL!At
<1>3. AL!ViewTypeOK
  BY <1>1, AppLiveAssumption DEF AL!ViewTypeOK, AL!Names, AL!AppLiveAssumption
<1>4. AL!NoneLeftRunning
  BY <1>1 DEF AL!NoneLeftRunning
<1> QED
  BY <1>2, <1>3, <1>4 DEF ViewInv

\* A request that holds no supervisor goes on, and nothing else changes.
LEMMA ViewAside ==
  ASSUME ViewInv, NEW r \in Threads, NEW x, asks' = [asks EXCEPT ![r] = x],
         sups' = sups, current' = current, writes' = writes, saved' = saved,
         ~AL!At(r, "stop"), ~AL!At(r, "store"), ViewRequest(r)'
  PROVE  ViewInv'
<1>1. DOMAIN asks' = Threads /\ \A q \in Threads : q # r => asks'[q] = asks[q]
  BY DEF ViewInv, ViewShape
<1>2. ViewShape'
  <2>1. \A q \in Threads : ViewRequest(q)'
    BY <1>1 DEF ViewInv, ViewShape, ViewRequest, AL!At
  <2> QED
    BY <1>1, <2>1 DEF ViewInv, ViewShape
<1>3. AL!ViewTypeOK'
  BY DEF ViewInv, AL!ViewTypeOK
<1>4. AL!NoneLeftRunning'
  <2>1. \A q \in Threads : AL!Held(q) \subseteq AL!Held(q)'
    BY <1>1 DEF AL!Held, AL!At
  <2> QED
    BY <2>1 DEF ViewInv, AL!NoneLeftRunning
<1> QED
  BY <1>2, <1>3, <1>4 DEF ViewInv

LEMMA ViewSaves ==
  ASSUME ViewInv, NEW new \in Lists, AL!SaveCameras(new)
  PROVE  ViewInv'
<1>1. /\ writes < MaxListSaves /\ writes' = writes + 1 /\ saved' = AL!Merged(new)
      /\ sups' = sups /\ current' = current /\ asks' = asks
  BY DEF AL!SaveCameras
<1>2. ViewShape' /\ AL!NoneLeftRunning'
  <2>1. \A r \in Threads : ViewRequest(r)' /\ AL!Held(r)' = AL!Held(r)
    BY <1>1 DEF ViewInv, ViewShape, ViewRequest, AL!Held, AL!At
  <2> QED
    BY <1>1, <2>1 DEF ViewInv, ViewShape, AL!NoneLeftRunning
<1>3. ASSUME NEW i \in DOMAIN saved' PROVE saved'[i].name \in AL!Names
  <2>1. i \in DOMAIN new /\ DOMAIN new[i] = {"name", "url", "pass", "limit"}
    BY <1>1, AppLiveAssumption DEF AL!Merged, AL!AppLiveAssumption
  <2>2. saved'[i].name = new[i].name
    BY <1>1, <2>1 DEF AL!Merged
  <2> QED
    BY <2>1, <2>2 DEF AL!Names
<1>4. writes' \in 0..MaxListSaves /\ current' \in DOMAIN sups' \cup {Nil}
  <2>1. writes \in 0..MaxListSaves /\ current \in DOMAIN sups \cup {Nil}
    BY DEF ViewInv, AL!ViewTypeOK
  <2> QED
    BY <1>1, <2>1, AppLiveAssumption DEF AL!AppLiveAssumption
<1> QED
  BY <1>2, <1>3, <1>4 DEF ViewInv, AL!ViewTypeOK

LEMMA ViewGivesUp ==
  ASSUME ViewInv, NEW j \in DOMAIN sups, AL!GivesUp(j)
  PROVE  ViewInv'
<1>1. /\ sups' = AL!Stopped(j) /\ saved' = saved /\ current' = current
      /\ asks' = asks /\ writes' = writes
  BY DEF AL!GivesUp
<1>2. PICK S : sups \in Seq([cam : S, up : BOOLEAN])
  BY DEF ViewInv, ViewShape
<1>3. /\ sups' \in Seq([cam : S, up : BOOLEAN]) /\ DOMAIN sups' = DOMAIN sups
      /\ \A i \in DOMAIN sups : sups'[i].up => sups[i].up
  BY <1>1, <1>2, StoppingOne
<1>4. \A r \in Threads : ViewRequest(r)' /\ AL!Held(r)' = AL!Held(r)
  BY <1>1, <1>3 DEF ViewInv, ViewShape, ViewRequest, AL!Held, AL!At
<1>5. ViewShape'
  BY <1>1, <1>3, <1>4 DEF ViewInv, ViewShape
<1>6. AL!ViewTypeOK' /\ AL!NoneLeftRunning'
  BY <1>1, <1>3, <1>4 DEF ViewInv, AL!ViewTypeOK, AL!NoneLeftRunning
<1> QED
  BY <1>5, <1>6 DEF ViewInv

\* Stopping the one that was in hand, or the one a new one replaces.
LEMMA ViewHandles ==
  ASSUME ViewInv, NEW r \in Threads, AL!Take(r) \/ AL!StopOld(r) \/ AL!Store(r)
  PROVE  ViewInv'
<1>0. PICK x : asks' = [asks EXCEPT ![r] = x]
  BY DEF AL!Take, AL!StopOld, AL!Store, AL!Becomes
<1>1. /\ DOMAIN asks' = Threads /\ \A q \in Threads : q # r => asks'[q] = asks[q]
      /\ writes' = writes /\ saved' = saved
  BY <1>0 DEF ViewInv, ViewShape, AL!Take, AL!StopOld, AL!Store
<1>2. PICK S : sups \in Seq([cam : S, up : BOOLEAN])
  BY DEF ViewInv, ViewShape
<1>3. \A i \in DOMAIN sups : i \in Nat /\ i # Nil
  BY <1>2, AppLiveAssumption DEF AL!AppLiveAssumption
<1>4. PICK gone :
        /\ sups' = sups \/ sups' = AL!Stopped(gone)
        /\ gone = IF AL!At(r, "stop") THEN asks[r].old ELSE current
        /\ AL!At(r, "stop") => (sups' = sups /\ gone = Nil) \/ sups' = AL!Stopped(gone)
        /\ AL!At(r, "store") => (sups' = sups /\ gone = Nil) \/ sups' = AL!Stopped(gone)
        /\ AL!At(r, "take") => sups' = sups
  BY DEF AL!Take, AL!StopOld, AL!Store, AL!At
<1>5. /\ sups' \in Seq([cam : S, up : BOOLEAN]) /\ DOMAIN sups' = DOMAIN sups
      /\ \A i \in DOMAIN sups : sups'[i].up => sups[i].up
      /\ ~AL!At(r, "take") => \A i \in DOMAIN sups : sups'[i].up => i # gone
  <2>1. CASE sups' = sups
    <3>1. AL!At(r, "take") \/ AL!At(r, "stop") \/ AL!At(r, "store")
      BY DEF AL!Take, AL!StopOld, AL!Store
    <3>2. CASE sups' = AL!Stopped(gone)
      BY <1>2, <3>2, StoppingOne
    <3>3. CASE ~AL!At(r, "take") /\ sups' # AL!Stopped(gone)
      <4>1. gone = Nil
        BY <1>4, <3>1, <3>3
      <4> QED
        BY <1>2, <1>3, <2>1, <4>1
    <3>4. CASE AL!At(r, "take")
      BY <1>2, <2>1, <3>4
    <3> QED
      BY <3>2, <3>3, <3>4
  <2>2. CASE sups' = AL!Stopped(gone)
    BY <1>2, <2>2, StoppingOne
  <2> QED
    BY <1>4, <2>1, <2>2
<1>6. /\ AL!At(r, "take") => AL!At(r, "stop")' /\ asks'[r].old = current /\ current' = Nil
      /\ AL!At(r, "stop") => current' = current
      /\ AL!At(r, "store") => current' = asks[r].new /\ current' \in DOMAIN sups
      /\ AL!At(r, "take") \/ AL!At(r, "stop") \/ AL!At(r, "store")
  BY <1>0, <1>1 DEF AL!Take, AL!StopOld, AL!Store, AL!At, AL!Becomes, ViewInv,
     ViewShape, ViewRequest
<1>7. ViewRequest(r)'
  <2>1. \/ asks'[r] = [at |-> "stop", cam |-> asks[r].cam, old |-> current]
        \/ asks'[r] = AL!Idle
        \/ asks'[r] = [at |-> "start", cam |-> asks[r].cam]
        \/ asks'[r] = [at |-> "wait", on |-> asks[r].new]
    BY DEF AL!Take, AL!StopOld, AL!Store, AL!Becomes, ViewInv, ViewShape
  <2> QED
    BY <2>1 DEF ViewRequest, AL!At, AL!Idle
<1>8. ViewShape'
  <2>1. \A q \in Threads : ViewRequest(q)'
    BY <1>1, <1>5, <1>7 DEF ViewInv, ViewShape, ViewRequest, AL!At
  <2> QED
    BY <1>1, <1>5, <2>1 DEF ViewShape
<1>9. AL!ViewTypeOK'
  BY <1>1, <1>5, <1>6 DEF ViewInv, AL!ViewTypeOK
<1>10. ASSUME NEW i \in DOMAIN sups', sups'[i].up
       PROVE  i = current' \/ \E q \in Threads : i \in AL!Held(q)'
  <2>1. i \in DOMAIN sups /\ (i = current \/ \E q \in Threads : i \in AL!Held(q))
    BY <1>5, <1>10 DEF ViewInv, AL!NoneLeftRunning
  <2>2. ASSUME NEW q \in Threads, q # r, i \in AL!Held(q) PROVE i \in AL!Held(q)'
    BY <1>1, <1>5, <2>2 DEF AL!Held, AL!At
  <2>3. CASE AL!At(r, "take")
    <3>1. i \notin AL!Held(r)
      BY <2>3 DEF AL!Held, AL!At
    <3>2. i = current => i \in AL!Held(r)'
      BY <1>5, <1>6, <2>1, <2>3 DEF AL!Held
    <3> QED
      BY <2>1, <2>2, <3>1, <3>2
  <2>4. CASE AL!At(r, "stop")
    <3>1. i \notin AL!Held(r)
      BY <1>4, <1>5, <1>10, <2>1, <2>4 DEF AL!Held, AL!At
    <3> QED
      BY <1>6, <2>1, <2>2, <2>4, <3>1
  <2>5. CASE AL!At(r, "store")
    <3>1. i # current
      BY <1>4, <1>5, <1>10, <2>1, <2>5 DEF AL!At
    <3>2. i \in AL!Held(r) => i = current'
      BY <1>6, <2>5 DEF AL!Held, AL!At
    <3> QED
      BY <2>1, <2>2, <3>1, <3>2
  <2> QED
    BY <1>6, <2>3, <2>4, <2>5
<1>11. AL!NoneLeftRunning'
  BY <1>10 DEF AL!NoneLeftRunning
<1> QED
  BY <1>8, <1>9, <1>11 DEF ViewInv

LEMMA ViewStartsNew ==
  ASSUME ViewInv, NEW r \in Threads, AL!StartNew(r)
  PROVE  ViewInv'
<1>1. PICK S : sups \in Seq([cam : S, up : BOOLEAN])
  BY DEF ViewInv, ViewShape
<1>2. PICK c, more : c = asks[r].cam /\ more = Append(sups, [cam |-> c, up |-> TRUE])
  OBVIOUS
<1>3. /\ AL!At(r, "start") /\ sups' = more
      /\ asks' = [asks EXCEPT ![r] = [at |-> "store", new |-> Len(sups) + 1]]
      /\ saved' = saved /\ current' = current /\ writes' = writes
  BY <1>2 DEF AL!StartNew, AL!Becomes
<1>4. /\ sups' \in Seq([cam : S \cup {c}, up : BOOLEAN])
      /\ DOMAIN sups' = DOMAIN sups \cup {Len(sups) + 1}
      /\ \A i \in DOMAIN sups : sups'[i] = sups[i]
  BY <1>1, <1>2, <1>3, StartingOne
<1>5. /\ DOMAIN asks' = Threads /\ \A q \in Threads : q # r => asks'[q] = asks[q]
      /\ asks'[r] = [at |-> "store", new |-> Len(sups) + 1]
  BY <1>3 DEF ViewInv, ViewShape
<1>6. ViewShape'
  <2>1. \A q \in Threads : ViewRequest(q)'
    BY <1>4, <1>5 DEF ViewInv, ViewShape, ViewRequest, AL!At
  <2> QED
    BY <1>4, <1>5, <2>1 DEF ViewShape
<1>7. AL!ViewTypeOK'
  BY <1>3, <1>4 DEF ViewInv, AL!ViewTypeOK
<1>8. AL!NoneLeftRunning'
  <2>1. \A q \in Threads : AL!Held(q) \subseteq AL!Held(q)'
    BY <1>3, <1>4, <1>5 DEF AL!Held, AL!At
  <2>2. Len(sups) + 1 \in AL!Held(r)'
    BY <1>4, <1>5 DEF AL!Held, AL!At
  <2> QED
    BY <1>3, <1>4, <2>1, <2>2 DEF ViewInv, AL!NoneLeftRunning
<1> QED
  BY <1>6, <1>7, <1>8 DEF ViewInv

LEMMA ViewRests ==
  ASSUME ViewInv, viewVars' = viewVars
  PROVE  ViewInv'
<1>1. saved' = saved /\ sups' = sups /\ current' = current /\ asks' = asks /\ writes' = writes
  BY DEF viewVars
<1>2. ViewShape'
  BY <1>1 DEF ViewInv, ViewShape, ViewRequest, AL!At
<1>3. AL!ViewTypeOK' /\ AL!NoneLeftRunning'
  BY <1>1 DEF ViewInv, AL!ViewTypeOK, AL!NoneLeftRunning, AL!Held, AL!At
<1> QED
  BY <1>2, <1>3 DEF ViewInv

LEMMA ViewSteps ==
  ASSUME ViewInv, AL!ViewNext
  PROVE  ViewInv'
<1>1. CASE \E r \in Threads : \E c \in AL!Names : AL!Ask(r, c)
  <2>1. PICK r \in Threads, c \in AL!Names : AL!Ask(r, c)
    BY <1>1
  <2>2. PICK i \in DOMAIN saved : AL!Becomes(r, [at |-> "look", cam |-> saved[i]])
    BY <2>1 DEF AL!Ask
  <2>3. asks'[r] = [at |-> "look", cam |-> saved[i]]
    BY <2>2 DEF AL!Becomes, ViewInv, ViewShape
  <2>4. ViewRequest(r)'
    BY <2>3 DEF ViewRequest, AL!At
  <2> QED
    BY <2>1, <2>2, <2>4, ViewAside DEF AL!Ask, AL!Becomes, AL!At
<1>2. CASE \E r \in Threads : AL!Look(r)
  <2>1. PICK r \in Threads : AL!Look(r)
    BY <1>2
  <2>2. asks[r] = [at |-> "look", cam |-> asks[r].cam]
    BY <2>1 DEF AL!Look, ViewInv, ViewShape, ViewRequest
  <2>3. PICK x : /\ asks' = [asks EXCEPT ![r] = x]
                 /\ \/ x = [at |-> "wait", on |-> current]
                    \/ x = [at |-> "take", cam |-> asks[r].cam]
    <3>1. PICK c : c = asks[r].cam /\ asks[r] = [at |-> "look", cam |-> c]
      BY <2>2
    <3>2. [asks[r] EXCEPT !.at = "take"] = [at |-> "take", cam |-> c]
      BY <3>1
    <3> QED
      BY <2>1, <3>1, <3>2 DEF AL!Look, AL!Becomes
  <2>4. asks'[r] = x
    BY <2>3 DEF ViewInv, ViewShape
  <2>5. ViewRequest(r)'
    BY <2>3, <2>4 DEF ViewRequest, AL!At
  <2> QED
    BY <2>1, <2>3, <2>5, ViewAside DEF AL!Look, AL!At
<1>3. CASE \E r \in Threads : AL!Answer(r) \/ AL!Close(r)
  <2>1. PICK r \in Threads : AL!Answer(r) \/ AL!Close(r)
    BY <1>3
  <2>2. PICK x : /\ asks' = [asks EXCEPT ![r] = x]
                 /\ x = AL!Idle \/ x = [at |-> "take", cam |-> Nil]
    BY <2>1 DEF AL!Answer, AL!Close, AL!Becomes
  <2>3. asks'[r] = x
    BY <2>2 DEF ViewInv, ViewShape
  <2>4. ViewRequest(r)'
    BY <2>2, <2>3 DEF ViewRequest, AL!At, AL!Idle
  <2> QED
    BY <2>1, <2>2, <2>4, ViewAside DEF AL!Answer, AL!Close, AL!At
<1>4. CASE \E r \in Threads : AL!Take(r) \/ AL!StopOld(r) \/ AL!Store(r)
  BY <1>4, ViewHandles
<1>5. CASE \E r \in Threads : AL!StartNew(r)
  BY <1>5, ViewStartsNew
<1>6. CASE \E new \in Lists : AL!SaveCameras(new)
  BY <1>6, ViewSaves
<1>7. CASE \E j \in DOMAIN sups : AL!GivesUp(j)
  BY <1>7, ViewGivesUp
<1> QED
  BY <1>1, <1>2, <1>3, <1>4, <1>5, <1>6, <1>7 DEF AL!ViewNext

\* However the page's requests interleave, whatever cameras are registered and
\* however many threads serve the page: a supervisor of the live view that runs
\* is the one watched, or a request holds it that will stop or store it.
THEOREM NobodyLeftConnected == Spec => []AppLiveSafe
<1>1. Init => ViewInv
  BY ViewStarts
<1>2. ViewInv /\ [Next]_vars => ViewInv'
  <2> SUFFICES ASSUME ViewInv, [Next]_vars PROVE ViewInv'
    OBVIOUS
  <2>1. CASE ALStep
    BY <2>1, ViewSteps DEF ALStep
  <2>2. CASE viewVars' = viewVars
    BY <2>2, ViewRests
  <2> QED
    BY <2>1, <2>2 DEF Next, vars, RMStep, DCStep, ONStep, RFStep, PFStep, SBStep, MOStep
<1>3. ViewInv => AppLiveSafe
  BY DEF ViewInv, AppLiveSafe
<1> QED
  BY <1>1, <1>2, <1>3, PTL DEF Spec


-----------------------------------------------------------------------------
(* ServerBook: the route of a registration that was replaced fades *)

\* What a request holds at each place of its way: the route it is about to keep
\* and the copy it probes are of the registration in force, or that one was
\* replaced no longer ago than the request has been choosing.
RouteRequest(r) ==
  /\ SB!At(r, "keep") =>
       /\ req[r].url \in SB!Urls
       /\ req[r].url \notin SB!UrlsOf(book) => since <= Slow
  /\ SB!At(r, "probe") =>
       \E b \in Books, i \in Nat \ {0}, a \in 0 .. Slow :
         /\ req[r] = [at |-> "probe", of |-> b, i |-> i, age |-> a]
         /\ SB!UrlsOf(b) \subseteq SB!UrlsOf(book) \/ since <= a
  /\ req[r].at \in {"write", "load", "drop", "show"} =>
       \E b \in Books : req[r] = [at |-> req[r].at, new |-> b]

\* The same of the route chosen, and of how long it has been chosen.
RouteChosen ==
  SB!Fresh /\ choice.url \notin SB!UrlsOf(book) => since <= Slow + choice.age

RouteInv ==
  /\ SB!StoredTypeOK /\ RouteChosen /\ DOMAIN req = Threads
  /\ \A r \in Threads : RouteRequest(r)

\* When no route answers, the one that is taken is of the same registration.
LEMMA OtherwiseOfIt ==
  ASSUME NEW b \in Books
  PROVE  /\ SB!Otherwise(b) \in SB!UrlsOf(b)
         /\ \A i \in DOMAIN b.routes : b.routes[i].url \in SB!UrlsOf(b)
         /\ b # Nil /\ SB!UrlsOf(b) \subseteq SB!Urls
<1>1. /\ b # Nil /\ Len(b.routes) \in Nat \ {0} /\ DOMAIN b.routes = 1 .. Len(b.routes)
  BY ServerBookAssumption DEF SB!ServerBookAssumption
<1>2. \A i \in DOMAIN b.routes : b.routes[i].url \in SB!UrlsOf(b)
  BY <1>1 DEF SB!UrlsOf
<1>3. PICK tails : tails = {i \in DOMAIN b.routes : b.routes[i].tail}
  OBVIOUS
<1>4. tails # {} => \E i \in tails : \A j \in tails : i <= j
  <2>1. tails \subseteq Nat
    BY <1>1, <1>3
  <2> QED
    BY <2>1, LeastOf
<1>5. SB!Otherwise(b) \in SB!UrlsOf(b)
  <2>1. 1 \in DOMAIN b.routes
    BY <1>1
  <2>2. CASE tails = {}
    BY <1>2, <1>3, <2>1, <2>2 DEF SB!Otherwise
  <2>3. CASE tails # {}
    <3>1. PICK m : m = CHOOSE i \in tails : \A j \in tails : i <= j
      OBVIOUS
    <3>2. m \in DOMAIN b.routes
      BY <1>3, <1>4, <2>3, <3>1
    <3>3. SB!Otherwise(b) = b.routes[m].url
      BY <1>3, <2>3, <3>1 DEF SB!Otherwise
    <3> QED
      BY <1>2, <3>2, <3>3
  <2> QED
    BY <2>2, <2>3
<1>6. SB!UrlsOf(b) \subseteq SB!Urls
  BY DEF SB!Urls
<1> QED
  BY <1>1, <1>2, <1>5, <1>6

LEMMA RouteStarts ==
  ASSUME Init
  PROVE  RouteInv
<1>1. /\ disk \in Books \cup {Nil} /\ book = disk /\ routeShown = disk /\ choice = Nil /\ up = {}
      /\ req = [r \in Threads |-> SB!Idle] /\ since = SB!Long /\ saves = 0 /\ starts = 1
  BY DEF Init, SB!BookInit
<1>2. SB!StoredTypeOK
  <2>1. {Validity, Slow, MaxBookSaves, MaxStarts} \subseteq Nat /\ 1 <= MaxStarts
    BY ServerBookAssumption DEF SB!ServerBookAssumption
  <2>2. since \in 0 .. SB!Long /\ saves \in 0 .. MaxBookSaves /\ starts \in 1 .. MaxStarts
    BY <1>1, <2>1 DEF SB!Long
  <2> QED
    BY <1>1, <2>2 DEF SB!StoredTypeOK
<1>3. RouteChosen
  BY <1>1 DEF RouteChosen, SB!Fresh
<1>4. \A r \in Threads : req[r] = SB!Idle
  BY <1>1
<1>5. \A r \in Threads : RouteRequest(r)
  BY <1>4 DEF RouteRequest, SB!Idle, SB!At
<1> QED
  BY <1>1, <1>2, <1>3, <1>5 DEF RouteInv

LEMMA RouteRests ==
  ASSUME RouteInv, routeVars' = routeVars
  PROVE  RouteInv'
BY DEF RouteInv, RouteRequest, RouteChosen, SB!StoredTypeOK, SB!Fresh, SB!At, routeVars

\* A request that goes on while the registration stays as it is.
LEMMA RouteGoesOn ==
  ASSUME RouteInv, NEW r \in Threads, NEW x, req' = [req EXCEPT ![r] = x],
         book' = book, since' = since, SB!StoredTypeOK', RouteChosen',
         req'[r] = x => RouteRequest(r)'
  PROVE  RouteInv'
<1>1. DOMAIN req' = Threads /\ req'[r] = x /\ \A q \in Threads : q # r => req'[q] = req[q]
  BY DEF RouteInv
<1>2. \A q \in Threads : RouteRequest(q)'
  BY <1>1 DEF RouteInv, RouteRequest, SB!At
<1> QED
  BY <1>1, <1>2 DEF RouteInv

LEMMA RouteChooses ==
  ASSUME RouteInv, NEW r \in Threads,
         SB!Look(r) \/ SB!Find(r) \/ SB!Probe(r) \/ SB!Keep(r) \/ SB!Send(r) \/ SB!Answer(r)
  PROVE  RouteInv'
<1>0. /\ disk' = disk /\ book' = book /\ routeShown' = routeShown /\ up' = up
      /\ since' = since /\ saves' = saves /\ starts' = starts
  BY DEF SB!Look, SB!Find, SB!Probe, SB!Keep, SB!Send, SB!Answer
<1>1. CASE choice' = choice
  <2>1. SB!StoredTypeOK' /\ RouteChosen'
    BY <1>0, <1>1 DEF RouteInv, SB!StoredTypeOK, RouteChosen, SB!Fresh
  <2>2. CASE SB!Look(r) \/ SB!Send(r) \/ SB!Answer(r) \/ SB!Keep(r)
    <3>1. PICK x : /\ req' = [req EXCEPT ![r] = x]
                   /\ x.at \in {"idle", "find", "send", "wait"}
      <4>1. PICK u, p : /\ u \in {choice.url, req[r].url}
                        /\ p = IF book = Nil THEN Nil ELSE book.pass
                        /\ \/ req' = [req EXCEPT ![r] = [at |-> "send", url |-> u]]
                           \/ req' = [req EXCEPT ![r] = [at |-> "find"]]
                           \/ req' = [req EXCEPT ![r] = [at |-> "wait", url |-> u, pass |-> p]]
                           \/ req' = [req EXCEPT ![r] = SB!Idle]
        BY <2>2 DEF SB!Look, SB!Send, SB!Answer, SB!Keep, SB!Becomes
      <4>2. /\ [at |-> "send", url |-> u].at = "send" /\ [at |-> "find"].at = "find"
            /\ [at |-> "wait", url |-> u, pass |-> p].at = "wait" /\ SB!Idle.at = "idle"
        BY DEF SB!Idle
      <4>3. ASSUME NEW y, req' = [req EXCEPT ![r] = y], y.at \in {"idle", "find", "send", "wait"}
            PROVE  \E x : /\ req' = [req EXCEPT ![r] = x]
                          /\ x.at \in {"idle", "find", "send", "wait"}
        BY <4>3
      <4> QED
        BY <4>1, <4>2, <4>3
    <3>2. req'[r] = x => RouteRequest(r)'
      BY <3>1 DEF RouteRequest, SB!At
    <3> QED
      BY <1>0, <2>1, <3>1, <3>2, RouteGoesOn
  <2>3. CASE SB!Find(r)
    <3>1. book = Nil \/ book \in Books
      BY DEF RouteInv, SB!StoredTypeOK
    <3>2. PICK x : /\ req' = [req EXCEPT ![r] = x]
                   /\ \/ x = SB!Idle
                      \/ /\ book \in Books /\ Len(book.routes) = 1
                         /\ x = [at |-> "keep", url |-> book.routes[1].url]
                      \/ /\ book \in Books
                         /\ x = [at |-> "probe", of |-> book, i |-> 1, age |-> 0]
      BY <2>3, <3>1 DEF SB!Find, SB!Becomes
    <3>3. CASE x = SB!Idle
      <4>1. req'[r] = x => RouteRequest(r)'
        BY <3>3 DEF RouteRequest, SB!At, SB!Idle
      <4> QED
        BY <1>0, <2>1, <3>2, <4>1, RouteGoesOn
    <3>4. CASE /\ book \in Books /\ Len(book.routes) = 1
               /\ x = [at |-> "keep", url |-> book.routes[1].url]
      <4>1. 1 \in DOMAIN book.routes
        BY <3>4, ServerBookAssumption DEF SB!ServerBookAssumption
      <4>2. PICK u : u = book.routes[1].url /\ u \in SB!UrlsOf(book) /\ u \in SB!Urls
        BY <3>4, <4>1, OtherwiseOfIt
      <4>3. req'[r] = x => RouteRequest(r)'
        BY <1>0, <3>4, <4>2 DEF RouteRequest, SB!At
      <4> QED
        BY <1>0, <2>1, <3>2, <4>3, RouteGoesOn
    <3>5. CASE /\ book \in Books
               /\ x = [at |-> "probe", of |-> book, i |-> 1, age |-> 0]
      <4>1. 0 \in 0 .. Slow /\ 1 \in Nat \ {0}
        BY ServerBookAssumption DEF SB!ServerBookAssumption
      <4>2. req'[r] = x => RouteRequest(r)'
        BY <1>0, <3>5, <4>1 DEF RouteRequest, SB!At
      <4> QED
        BY <1>0, <2>1, <3>2, <4>2, RouteGoesOn
    <3> QED
      BY <3>2, <3>3, <3>4, <3>5
  <2>4. CASE SB!Probe(r)
    <3>1. PICK b \in Books, i \in Nat \ {0}, a \in 0 .. Slow :
            /\ req[r] = [at |-> "probe", of |-> b, i |-> i, age |-> a]
            /\ SB!UrlsOf(b) \subseteq SB!UrlsOf(book) \/ since <= a
      BY <2>4 DEF SB!Probe, RouteInv, RouteRequest
    <3>2. req[r].of = b /\ req[r].i = i
          /\ [req[r] EXCEPT !.i = i + 1] = [at |-> "probe", of |-> b, i |-> i + 1, age |-> a]
      BY <3>1
    <3>3. DOMAIN b.routes = 1 .. Len(b.routes) /\ Len(b.routes) \in Nat
      BY ServerBookAssumption DEF SB!ServerBookAssumption
    <3>4. PICK x : /\ req' = [req EXCEPT ![r] = x]
                   /\ \/ x = [at |-> "keep", url |-> SB!Otherwise(b)]
                      \/ i \in DOMAIN b.routes /\ x = [at |-> "keep", url |-> b.routes[i].url]
                      \/ x = [at |-> "probe", of |-> b, i |-> i + 1, age |-> a]
      <4>1. CASE i > Len(b.routes)
        <5>1. req' = [req EXCEPT ![r] = [at |-> "keep", url |-> SB!Otherwise(b)]]
          <6>1. SB!Becomes(r, [at |-> "keep", url |-> SB!Otherwise(req[r].of)])
            <7>1. req[r].i > Len(req[r].of.routes)
              BY <3>2, <4>1
            <7>2. ~(req[r].i <= Len(req[r].of.routes))
              BY <3>2, <3>3, <4>1
            <7> QED
              BY <2>4, <7>1, <7>2 DEF SB!Probe
          <6>2. SB!Otherwise(req[r].of) = SB!Otherwise(b)
            BY <3>2
          <6> QED
            BY <6>1, <6>2 DEF SB!Becomes
        <5> QED
          BY <5>1
      <4>2. CASE i <= Len(b.routes) /\ ~b.routes[i].tail /\ b.routes[i].url \in up
        <5>1. i \in DOMAIN b.routes /\ ~(i > Len(b.routes))
          BY <3>3, <4>2
        <5>2. req' = [req EXCEPT ![r] = [at |-> "keep", url |-> b.routes[i].url]]
          BY <2>4, <3>2, <4>2, <5>1 DEF SB!Probe, SB!Becomes
        <5> QED
          BY <5>1, <5>2
      <4>3. CASE ~(i > Len(b.routes)) /\ ~(~b.routes[i].tail /\ b.routes[i].url \in up)
        <5>1. req' = [req EXCEPT ![r] = [at |-> "probe", of |-> b, i |-> i + 1, age |-> a]]
          BY <2>4, <3>2, <3>3, <4>3 DEF SB!Probe, SB!Becomes
        <5> QED
          BY <5>1
      <4> QED
        BY <3>3, <4>1, <4>2, <4>3
    <3>5. CASE x = [at |-> "probe", of |-> b, i |-> i + 1, age |-> a]
      <4>1. i + 1 \in Nat \ {0}
        OBVIOUS
      <4>2. req'[r] = x => RouteRequest(r)'
        BY <1>0, <3>1, <3>5, <4>1 DEF RouteRequest, SB!At
      <4> QED
        BY <1>0, <2>1, <3>4, <4>2, RouteGoesOn
    <3>6. CASE x # [at |-> "probe", of |-> b, i |-> i + 1, age |-> a]
      <4>1. PICK u \in SB!UrlsOf(b) : x = [at |-> "keep", url |-> u] /\ u \in SB!Urls
        BY <3>4, <3>6, OtherwiseOfIt
      <4>2. u \notin SB!UrlsOf(book) => since <= Slow
        <5>1. since \in Nat /\ Slow \in Nat
          BY ServerBookAssumption DEF SB!ServerBookAssumption, RouteInv, SB!StoredTypeOK, SB!Long
        <5> QED
          BY <3>1, <4>1, <5>1
      <4>3. req'[r] = x => RouteRequest(r)'
        BY <1>0, <4>1, <4>2 DEF RouteRequest, SB!At
      <4> QED
        BY <1>0, <2>1, <3>4, <4>3, RouteGoesOn
    <3> QED
      BY <3>5, <3>6
  <2> QED
    BY <2>2, <2>3, <2>4
<1>2. CASE choice' # choice
  <2>1. PICK x : /\ req' = [req EXCEPT ![r] = x] /\ x.at \in {"idle", "send"}
                 /\ \/ choice' = Nil
                    \/ SB!At(r, "keep") /\ choice' = [url |-> req[r].url, age |-> 0]
    BY <1>2 DEF SB!Look, SB!Find, SB!Probe, SB!Keep, SB!Send, SB!Answer, SB!Becomes, SB!Idle
  <2>2. req'[r] = x => RouteRequest(r)'
    BY <2>1 DEF RouteRequest, SB!At
  <2>3. SB!StoredTypeOK' /\ RouteChosen'
    <3>1. CASE choice' = Nil
      BY <1>0, <3>1 DEF RouteInv, SB!StoredTypeOK, RouteChosen, SB!Fresh
    <3>2. CASE SB!At(r, "keep") /\ choice' = [url |-> req[r].url, age |-> 0]
      <4>1. PICK u : /\ u = req[r].url /\ u \in SB!Urls
                     /\ u \notin SB!UrlsOf(book) => since <= Slow
        BY <3>2 DEF RouteInv, RouteRequest
      <4>2. choice' \in [url : SB!Urls, age : SB!Ages] /\ choice'.url = u /\ choice'.age = 0
        BY <3>2, <4>1, ServerBookAssumption DEF SB!Ages, SB!ServerBookAssumption
      <4>3. Slow + 0 = Slow
        BY ServerBookAssumption DEF SB!ServerBookAssumption
      <4>4. RouteChosen'
        BY <1>0, <4>1, <4>2, <4>3 DEF RouteChosen
      <4>5. SB!StoredTypeOK'
        BY <1>0, <4>2 DEF RouteInv, SB!StoredTypeOK
      <4> QED
        BY <4>4, <4>5
    <3> QED
      BY <2>1, <3>1, <3>2
  <2> QED
    BY <1>0, <2>1, <2>2, <2>3, RouteGoesOn
<1> QED
  BY <1>1, <1>2

LEMMA RouteSaves ==
  ASSUME RouteInv, NEW r \in Threads,
         \/ SB!Written(r) \/ SB!NotWritten(r) \/ SB!DropChoices(r) \/ SB!Show(r)
         \/ \E b \in Books : SB!Save(r, b)
  PROVE  RouteInv'
<1>1. book' = book /\ since' = since /\ up' = up /\ starts' = starts
  BY DEF SB!Written, SB!NotWritten, SB!DropChoices, SB!Show, SB!Save
<1>2. choice' = choice \/ choice' = Nil
  BY DEF SB!Written, SB!NotWritten, SB!DropChoices, SB!Show, SB!Save
<1>3. RouteChosen'
  BY <1>1, <1>2 DEF RouteInv, RouteChosen, SB!Fresh
<1>4. SB!At(r, "idle") \/ \E b \in Books : req[r] = [at |-> req[r].at, new |-> b]
  BY DEF SB!Written, SB!NotWritten, SB!DropChoices, SB!Show, SB!Save, RouteInv, RouteRequest, SB!At
<1>5. PICK x, b : /\ req' = [req EXCEPT ![r] = x]
                  /\ \/ x = SB!Idle
                     \/ b \in Books /\ x = [at |-> "write", new |-> b]
                     \/ b \in Books /\ x = [at |-> "load", new |-> b]
                     \/ b \in Books /\ x = [at |-> "show", new |-> b]
  <2>1. CASE SB!NotWritten(r) \/ SB!Show(r)
    BY <2>1 DEF SB!NotWritten, SB!Show, SB!Becomes
  <2>2. CASE \E b \in Books : SB!Save(r, b)
    BY <2>2 DEF SB!Save, SB!Becomes
  <2>3. CASE SB!Written(r) \/ SB!DropChoices(r)
    <3>1. PICK b, s : b \in Books /\ s = req[r].at /\ req[r] = [at |-> s, new |-> b]
      BY <1>4, <2>3 DEF SB!Written, SB!DropChoices, SB!At
    <3>2. /\ [req[r] EXCEPT !.at = "load"] = [at |-> "load", new |-> b]
          /\ [req[r] EXCEPT !.at = "show"] = [at |-> "show", new |-> b]
      BY <3>1
    <3> QED
      BY <2>3, <3>1, <3>2 DEF SB!Written, SB!DropChoices, SB!Becomes
  <2> QED
    BY <2>1, <2>2, <2>3
<1>6. req'[r] = x => RouteRequest(r)'
  BY <1>5 DEF RouteRequest, SB!At, SB!Idle
<1>7. {disk', routeShown'} \subseteq Books \cup {Nil}
  <2>1. SB!At(r, "idle") \/ req[r].new \in Books
    <3>1. ASSUME NEW c \in Books, NEW s, req[r] = [at |-> s, new |-> c] PROVE req[r].new \in Books
      BY <3>1
    <3> QED
      BY <1>4, <3>1
  <2> QED
    BY <2>1 DEF RouteInv, SB!StoredTypeOK, SB!Written, SB!NotWritten, SB!DropChoices, SB!Show,
       SB!Save, SB!At
<1>8. saves' \in 0 .. MaxBookSaves
  <2>1. saves \in 0 .. MaxBookSaves /\ MaxBookSaves \in Nat
    BY ServerBookAssumption DEF SB!ServerBookAssumption, RouteInv, SB!StoredTypeOK
  <2>2. saves' = saves \/ (saves < MaxBookSaves /\ saves' = saves + 1)
    BY DEF SB!Written, SB!NotWritten, SB!DropChoices, SB!Show, SB!Save
  <2> QED
    BY <2>1, <2>2
<1>9. SB!StoredTypeOK'
  BY <1>1, <1>2, <1>7, <1>8 DEF RouteInv, SB!StoredTypeOK
<1> QED
  BY <1>1, <1>3, <1>5, <1>6, <1>9, RouteGoesOn

\* The list is replaced: whatever was chosen or is being chosen was so before.
LEMMA RouteLoads ==
  ASSUME RouteInv, (\E r \in Threads : SB!Load(r)) \/ SB!Reopen
  PROVE  RouteInv'
<1>1. /\ since' = 0 /\ up' = up /\ saves' = saves /\ disk' = disk
      /\ choice' = choice \/ choice' = Nil
      /\ routeShown' = routeShown \/ routeShown' = disk
  BY DEF SB!Load, SB!Reopen
<1>2. /\ Slow \in Nat /\ Validity \in Nat
      /\ choice' # Nil => choice'.age \in Nat
  BY <1>1, ServerBookAssumption DEF SB!ServerBookAssumption, RouteInv, SB!StoredTypeOK, SB!Ages
<1>3. RouteChosen'
  <2>1. ASSUME SB!Fresh' PROVE since' <= Slow + choice'.age
    <3>1. choice'.age \in Nat
      BY <1>2, <2>1 DEF SB!Fresh
    <3> QED
      BY <1>1, <1>2, <3>1
  <2> QED
    BY <2>1 DEF RouteChosen
<1>4. CASE SB!Reopen
  <2>1. /\ book' = disk /\ starts' = starts + 1 /\ starts < MaxStarts
        /\ req' = [r \in Threads |-> SB!Idle]
    BY <1>4 DEF SB!Reopen
  <2>2. SB!StoredTypeOK'
    BY <1>1, <2>1, ServerBookAssumption DEF RouteInv, SB!StoredTypeOK, SB!Long, SB!ServerBookAssumption
  <2>3. DOMAIN req' = Threads /\ \A r \in Threads : RouteRequest(r)'
    BY <2>1 DEF RouteRequest, SB!At, SB!Idle
  <2> QED
    BY <1>3, <2>2, <2>3 DEF RouteInv
<1>5. CASE \E r \in Threads : SB!Load(r)
  <2>1. PICK r \in Threads : SB!Load(r)
    BY <1>5
  <2>2. PICK b \in Books : req[r] = [at |-> "load", new |-> b]
    BY <2>1 DEF SB!Load, SB!At, RouteInv, RouteRequest
  <2>3. [req[r] EXCEPT !.at = "drop"] = [at |-> "drop", new |-> b] /\ req[r].new = b
    BY <2>2
  <2>4. /\ book' = b /\ req' = [req EXCEPT ![r] = [at |-> "drop", new |-> b]]
        /\ starts' = starts
    BY <2>1, <2>3 DEF SB!Load, SB!Becomes
  <2>5. /\ DOMAIN req' = Threads /\ req'[r] = [at |-> "drop", new |-> b]
        /\ \A q \in Threads : q # r => req'[q] = req[q]
    BY <2>4 DEF RouteInv
  <2>6. SB!StoredTypeOK'
    BY <1>1, <2>4, ServerBookAssumption DEF RouteInv, SB!StoredTypeOK, SB!Long, SB!ServerBookAssumption
  <2>7. RouteRequest(r)'
    BY <2>5 DEF RouteRequest, SB!At
  <2>8. ASSUME NEW q \in Threads, q # r PROVE RouteRequest(q)'
    <3>1. ASSUME SB!At(q, "keep")'
          PROVE  req'[q].url \in SB!Urls /\ since' <= Slow
      BY <1>1, <1>2, <2>5, <2>8, <3>1 DEF RouteInv, RouteRequest, SB!At
    <3>2. ASSUME SB!At(q, "probe")'
          PROVE  \E c \in Books, i \in Nat \ {0}, a \in 0 .. Slow :
                   /\ req'[q] = [at |-> "probe", of |-> c, i |-> i, age |-> a] /\ since' <= a
      BY <1>1, <1>2, <2>5, <2>8, <3>2 DEF RouteInv, RouteRequest, SB!At
    <3>3. ASSUME req'[q].at \in {"write", "load", "drop", "show"}
          PROVE  \E c \in Books : req'[q] = [at |-> req'[q].at, new |-> c]
      BY <2>5, <2>8, <3>3 DEF RouteInv, RouteRequest
    <3> QED
      BY <3>1, <3>2, <3>3 DEF RouteRequest
  <2> QED
    BY <1>3, <2>5, <2>6, <2>7, <2>8 DEF RouteInv
<1> QED
  BY <1>4, <1>5

LEMMA RouteTicks ==
  ASSUME RouteInv, SB!Tick
  PROVE  RouteInv'
<1>1. /\ Slow \in Nat /\ Validity \in Nat /\ since \in Nat /\ since <= SB!Long /\ SB!Long \in Nat
      /\ SB!Long = Slow + Validity + 1
  BY ServerBookAssumption DEF SB!ServerBookAssumption, RouteInv, SB!StoredTypeOK, SB!Long
<1>2. since' \in 0 .. SB!Long /\ since' <= since + 1
  BY <1>1 DEF SB!Tick
<1>3. /\ disk' = disk /\ book' = book /\ routeShown' = routeShown /\ up' = up
      /\ saves' = saves /\ starts' = starts
      /\ choice' = IF SB!Fresh THEN [choice EXCEPT !.age = @ + 1] ELSE choice
  BY DEF SB!Tick
<1>4. SB!StoredTypeOK' /\ RouteChosen'
  <2>1. CASE ~SB!Fresh
    <3>1. ~SB!Fresh' /\ choice' = choice
      BY <1>3, <2>1 DEF SB!Fresh
    <3> QED
      BY <1>2, <1>3, <3>1 DEF RouteInv, SB!StoredTypeOK, RouteChosen
  <2>2. CASE SB!Fresh
    <3>1. PICK u \in SB!Urls, a \in SB!Ages : choice = [url |-> u, age |-> a]
      BY <2>2 DEF RouteInv, SB!StoredTypeOK, SB!Fresh
    <3>2. a < Validity /\ a \in Nat /\ choice' = [url |-> u, age |-> a + 1]
      BY <1>3, <2>2, <3>1 DEF SB!Fresh, SB!Ages
    <3>3. choice' \in [url : SB!Urls, age : SB!Ages] /\ choice'.url = u /\ choice'.age = a + 1
      BY <1>1, <3>2 DEF SB!Ages
    <3>4. u \notin SB!UrlsOf(book) => since <= Slow + a
      BY <2>2, <3>1 DEF RouteInv, RouteChosen
    <3>5. u \notin SB!UrlsOf(book) => since' <= Slow + (a + 1)
      BY <1>1, <1>2, <3>2, <3>4
    <3>6. RouteChosen'
      BY <1>3, <3>3, <3>5 DEF RouteChosen
    <3> QED
      BY <1>2, <1>3, <3>3, <3>6 DEF RouteInv, SB!StoredTypeOK
  <2> QED
    BY <2>1, <2>2
<1>5. /\ DOMAIN req' = Threads
      /\ \A r \in Threads : req'[r] = IF SB!At(r, "probe") THEN [req[r] EXCEPT !.age = @ + 1] ELSE req[r]
  BY DEF SB!Tick
<1>6. ASSUME NEW r \in Threads PROVE RouteRequest(r)'
  <2>1. CASE SB!At(r, "probe")
    <3>1. PICK b \in Books, i \in Nat \ {0}, a \in 0 .. Slow :
            /\ req[r] = [at |-> "probe", of |-> b, i |-> i, age |-> a]
            /\ SB!UrlsOf(b) \subseteq SB!UrlsOf(book) \/ since <= a
      BY <2>1 DEF RouteInv, RouteRequest
    <3>2. a < Slow
      BY <2>1, <3>1 DEF SB!Tick
    <3>3. req'[r] = [at |-> "probe", of |-> b, i |-> i, age |-> a + 1]
      BY <1>5, <2>1, <3>1
    <3>4. a + 1 \in 0 .. Slow /\ (since <= a => since' <= a + 1)
      BY <1>1, <1>2, <3>2
    <3> QED
      BY <1>3, <3>1, <3>3, <3>4 DEF RouteRequest, SB!At
  <2>2. CASE ~SB!At(r, "probe")
    <3>1. req'[r] = req[r] /\ ~SB!At(r, "keep")
      BY <1>5, <2>2 DEF SB!Tick, SB!At
    <3> QED
      BY <2>2, <3>1 DEF RouteInv, RouteRequest, SB!At
  <2> QED
    BY <2>1, <2>2
<1> QED
  BY <1>4, <1>5, <1>6 DEF RouteInv

LEMMA RouteSteps ==
  ASSUME RouteInv, SB!BookNext
  PROVE  RouteInv'
<1>1. CASE \E r \in Threads :
             SB!Look(r) \/ SB!Find(r) \/ SB!Probe(r) \/ SB!Keep(r) \/ SB!Send(r) \/ SB!Answer(r)
  BY <1>1, RouteChooses
<1>2. CASE \E r \in Threads :
             \/ SB!Written(r) \/ SB!NotWritten(r) \/ SB!DropChoices(r) \/ SB!Show(r)
             \/ \E b \in Books : SB!Save(r, b)
  BY <1>2, RouteSaves
<1>3. CASE (\E r \in Threads : SB!Load(r)) \/ SB!Reopen
  BY <1>3, RouteLoads
<1>4. CASE SB!Tick
  BY <1>4, RouteTicks
<1>5. CASE \E u \in SB!Urls : SB!Flip(u)
  <2>1. PICK u \in SB!Urls : SB!Flip(u)
    BY <1>5
  <2>2. /\ disk' = disk /\ book' = book /\ choice' = choice /\ routeShown' = routeShown
        /\ req' = req /\ since' = since /\ saves' = saves /\ starts' = starts
        /\ up' = (up \ {u}) \cup ({u} \ up)
    BY <2>1 DEF SB!Flip
  <2>3. up' \subseteq SB!Urls
    BY <2>2 DEF RouteInv, SB!StoredTypeOK
  <2> QED
    BY <2>2, <2>3 DEF RouteInv, RouteRequest, RouteChosen, SB!StoredTypeOK, SB!Fresh, SB!At
<1> QED
  BY <1>1, <1>2, <1>3, <1>4, <1>5 DEF SB!BookNext

LEMMA RouteSafe ==
  ASSUME RouteInv
  PROVE  ServerBookSafe
<1>1. /\ Slow \in Nat /\ Validity \in Nat /\ since \in Nat
  BY ServerBookAssumption DEF SB!ServerBookAssumption, RouteInv, SB!StoredTypeOK, SB!Long
<1>2. ASSUME SB!Fresh, choice.url \notin SB!UrlsOf(book)
      PROVE  since <= Slow + Validity
  <2>1. choice.age \in Nat /\ choice.age < Validity
    BY <1>2 DEF RouteInv, SB!StoredTypeOK, SB!Fresh, SB!Ages
  <2>2. since <= Slow + choice.age
    BY <1>2 DEF RouteInv, RouteChosen
  <2> QED
    BY <1>1, <2>1, <2>2
<1> QED
  BY <1>2 DEF RouteInv, ServerBookSafe, SB!OldRouteFades

\* Whatever is registered and however long a choice and a validity are: a route
\* of the registration that was replaced is out of use once both have passed,
\* whoever was choosing while it was replaced and whenever the app ends.
THEOREM OldRoutesFade == Spec => []ServerBookSafe
<1>1. Init => RouteInv
  BY RouteStarts
<1>2. RouteInv /\ [Next]_vars => RouteInv'
  <2> SUFFICES ASSUME RouteInv, [Next]_vars PROVE RouteInv'
    OBVIOUS
  <2>1. CASE SBStep
    BY <2>1, RouteSteps DEF SBStep
  <2>2. CASE routeVars' = routeVars
    BY <2>2, RouteRests
  <2> QED
    BY <2>1, <2>2 DEF Next, vars, RMStep, DCStep, ONStep, RFStep, PFStep, ALStep, MOStep
<1>3. RouteInv => ServerBookSafe
  BY RouteSafe
<1> QED
  BY <1>1, <1>2, <1>3, PTL DEF Spec


-----------------------------------------------------------------------------
(* PlayerFetch: nothing stale is shown, and nothing goes back *)

Samples == [at : Nat, gen : Nat]

FetchInv ==
  /\ gen \in Nat /\ fetchShown \in Nat /\ pend \in Seq(Samples)
  /\ \A i \in 1 .. Len(pend) : pend[i].gen = gen
  /\ cursor \in Nat /\ \A r \in flights : r.at \in Nat

\* Of the times that are due and the one shown there is a latest.
LEMMA LatestDue ==
  ASSUME NEW s \in Nat, NEW n \in Nat, NEW f, \A i \in 1 .. n : f[i] \in Nat,
         NEW D, s \in D, \A i \in 1 .. n : f[i] \in D,
         \A d \in D : d = s \/ \E i \in 1 .. n : d = f[i]
  PROVE  \E m \in D : \A d \in D : d <= m
<1> DEFINE Due(k) == {s} \cup {f[i] : i \in 1 .. k}
           None == {k \in 0 .. n : ~\E m \in Due(k) : \A d \in Due(k) : d <= m}
<1>1. \A k \in 0 .. n : Due(k) \subseteq Nat
  OBVIOUS
<1>2. ASSUME None # {} PROVE FALSE
  <2>1. PICK k \in None : \A j \in None : k <= j
    <3>1. None \subseteq Nat
      OBVIOUS
    <3> QED
      BY <1>2, <3>1, LeastOf
  <2>2. k # 0
    <3>1. \A d \in Due(0) : d <= s
      OBVIOUS
    <3>2. 0 \notin None
      BY <3>1
    <3> QED
      BY <2>1, <3>2
  <2>3. k - 1 \in 0 .. n /\ k - 1 \notin None
    <3>1. k \in 0 .. n
      BY <2>1
    <3>2. k - 1 \in 0 .. n /\ ~(k <= k - 1)
      BY <2>2, <3>1
    <3> QED
      BY <2>1, <3>2
  <2>4. PICK m \in Due(k - 1) : \A d \in Due(k - 1) : d <= m
    BY <2>3
  <2>5. Due(k) = Due(k - 1) \cup {f[k]}
    <3>1. k \in 1 .. n
      BY <2>1, <2>2
    <3>2. \A i : i \in 1 .. k <=> i \in 1 .. k - 1 \/ i = k
      BY <3>1
    <3> HIDE DEF None
    <3> QED
      BY <3>2
  <2>6. m \in Nat /\ f[k] \in Nat
    BY <1>1, <2>1, <2>2, <2>3, <2>4
  <2>7. \E t \in Due(k) : \A d \in Due(k) : d <= t
    <3>1. CASE m <= f[k]
      <4>1. \A d \in Due(k - 1) : d <= f[k]
        BY <1>1, <2>3, <2>4, <2>6, <3>1
      <4>2. f[k] \in Due(k) /\ \A d \in Due(k) : d <= f[k]
        <5> HIDE DEF Due
        <5> QED
          BY <2>5, <2>6, <4>1
      <4> QED
        BY <4>2
    <3>2. CASE f[k] <= m
      BY <2>4, <2>5, <3>2
    <3> QED
      BY <2>6, <3>1, <3>2
  <2> QED
    BY <2>1, <2>7
<1>3. n \notin None
  BY <1>2
<1>4. D = Due(n)
  OBVIOUS
<1> QED
  BY <1>3, <1>4

LEMMA ShowsLater ==
  ASSUME FetchInv, NEW n \in 0 .. Len(pend)
  PROVE  PF!Shows(n) \in Nat /\ fetchShown <= PF!Shows(n)
<1>1. \A i \in 1 .. n : pend[i].at \in Nat
  <2>1. ASSUME NEW i \in 1 .. n PROVE pend[i] \in Samples
    BY DEF FetchInv
  <2> QED
    BY <2>1 DEF Samples
<1>2. PICK f : f = [i \in 1 .. n |-> pend[i].at]
  OBVIOUS
<1>3. PICK D : D = {fetchShown} \cup {f[i] : i \in 1 .. n}
  OBVIOUS
<1>4. D = {fetchShown} \cup {pend[i].at : i \in 1 .. n} /\ D \subseteq Nat
  BY <1>1, <1>2, <1>3 DEF FetchInv
<1>5. \E m \in D : \A d \in D : d <= m
  <2>1. fetchShown \in Nat /\ n \in Nat /\ \A i \in 1 .. n : f[i] \in Nat
    BY <1>1, <1>2 DEF FetchInv
  <2>2. /\ fetchShown \in D /\ \A i \in 1 .. n : f[i] \in D
        /\ \A d \in D : d = fetchShown \/ \E i \in 1 .. n : d = f[i]
    BY <1>3
  <2> QED
    BY <2>1, <2>2, LatestDue
<1>6. PF!Shows(n) = CHOOSE m \in D : \A d \in D : d <= m
  BY <1>4 DEF PF!Shows
<1>7. PF!Shows(n) \in D /\ \A d \in D : d <= PF!Shows(n)
  BY <1>5, <1>6
<1> QED
  BY <1>3, <1>4, <1>7

LEMMA FetchStarts ==
  ASSUME Init
  PROVE  FetchInv
<1>1. gen = 0 /\ fetchShown = 0 /\ pend = <<>> /\ cursor = 0 /\ flights = {}
  BY DEF Init, PF!FetchInit
<1> QED
  BY <1>1 DEF FetchInv

LEMMA FetchSteps ==
  ASSUME FetchInv, PF!FetchNext
  PROVE  FetchInv' /\ (gen' = gen => fetchShown' >= fetchShown)
<1>0. gen \in Nat /\ fetchShown \in Nat
  BY DEF FetchInv
<1>1. ASSUME NEW g, NEW p \in Nat, NEW l, NEW o, PF!Request(g, p, l, o)
      PROVE  \A r \in flights' : r.at \in Nat
  <2>1. PICK x : x = [id |-> fetchCount.asked, gen |-> g, at |-> p, live |-> l, opens |-> o]
    OBVIOUS
  <2>2. flights' = flights \cup {x} /\ x.at = p
    BY <1>1, <2>1 DEF PF!Request
  <2> QED
    BY <2>2 DEF FetchInv
<1>2. CASE PF!OpenRecording \/ PF!OpenLive
  <2>1. /\ gen' = gen + 1 /\ fetchShown' = 0 /\ pend' = <<>> /\ cursor' = 0
    BY <1>2 DEF PF!OpenRecording, PF!OpenLive, PF!Restart
  <2>2. \A r \in flights' : r.at \in Nat
    BY <1>1, <1>2 DEF PF!OpenRecording, PF!OpenLive
  <2> QED
    BY <1>0, <2>1, <2>2 DEF FetchInv
<1>3. CASE PF!Pause \/ PF!Resume \/ PF!Wait
  <2>1. /\ gen' = gen /\ fetchShown' = fetchShown /\ pend' = pend /\ cursor' = cursor
        /\ flights' = flights
    BY <1>3 DEF PF!Pause, PF!Resume, PF!Wait
  <2> QED
    BY <1>0, <2>1 DEF FetchInv
<1>4. CASE PF!Swallow \/ PF!Nothing \/ PF!Fail
  <2>1. PICK r \in flights : PF!Settled(r)
    BY <1>4 DEF PF!Swallow, PF!Nothing, PF!Fail
  <2>2. gen' = gen /\ fetchShown' = fetchShown /\ \A q \in flights' : q.at \in Nat
    BY <2>1 DEF PF!Settled, FetchInv
  <2>3. CASE PF!Nothing \/ PF!Fail
    <3>1. cursor' = cursor /\ (pend' = pend \/ pend' = <<>>)
      BY <2>3 DEF PF!Nothing, PF!Fail
    <3>2. pend' \in Seq(Samples) /\ \A i \in 1 .. Len(pend') : pend'[i].gen = gen'
      <4>1. CASE pend' = pend
        BY <2>2, <4>1 DEF FetchInv
      <4>2. CASE pend' = <<>>
        BY <4>2
      <4> QED
        BY <3>1, <4>1, <4>2
    <3> QED
      BY <1>0, <2>2, <3>1, <3>2 DEF FetchInv
  <2>4. CASE PF!Swallow
    <3>1. PICK q \in flights :
            /\ q.at < Len(Recording)
            /\ \/ UNCHANGED <<cursor, pend>>
               \/ /\ q.gen = gen /\ cursor' = q.at + 1
                  /\ pend' = pend \o [k \in 1 .. Len(Recording[q.at + 1]) |->
                                        [at |-> Recording[q.at + 1][k], gen |-> q.gen]]
      BY <2>4 DEF PF!Swallow, PF!Fits
    <3>2. CASE UNCHANGED <<cursor, pend>>
      BY <1>0, <2>2, <3>2 DEF FetchInv
    <3>3. CASE /\ q.gen = gen /\ cursor' = q.at + 1
               /\ pend' = pend \o [k \in 1 .. Len(Recording[q.at + 1]) |->
                                     [at |-> Recording[q.at + 1][k], gen |-> q.gen]]
      <4>1. q.at \in Nat /\ q.at + 1 \in 1 .. Len(Recording)
        BY <3>1, PlayerFetchAssumption DEF FetchInv, PF!FetchAssumption
      <4>2. PICK w : w = Recording[q.at + 1] /\ w \in Seq(Nat)
        <5>1. PICK W : W = Seq(Nat \ {0}) /\ Recording \in Seq(W)
          BY PlayerFetchAssumption DEF PF!FetchAssumption
        <5>2. Recording[q.at + 1] \in W
          BY <4>1, <5>1
        <5> QED
          BY <5>1, <5>2
      <4>3. PICK new : new = [k \in 1 .. Len(w) |-> [at |-> w[k], gen |-> q.gen]]
        OBVIOUS
      <4>4. PICK S : S = Samples
        OBVIOUS
      <4>5. new \in Seq(S) /\ \A k \in 1 .. Len(new) : new[k].gen = gen
        <5>1. \A k \in 1 .. Len(w) : new[k] \in S /\ new[k].gen = gen
          BY <1>0, <3>3, <4>2, <4>3, <4>4 DEF Samples
        <5>2. Len(w) \in Nat /\ DOMAIN new = 1 .. Len(w)
          BY <4>2, <4>3
        <5>3. new \in Seq(S)
          BY <4>3, <5>1, <5>2
        <5> QED
          BY <5>1, <5>2, <5>3
      <4>6. pend \in Seq(S) /\ \A k \in 1 .. Len(pend) : pend[k].gen = gen
        BY <4>4 DEF FetchInv
      <4>7. pend' = pend \o new
        BY <3>3, <4>2, <4>3
      <4>8. /\ pend' \in Seq(S) /\ Len(pend') = Len(pend) + Len(new)
            /\ \A i \in 1 .. Len(pend) + Len(new) :
                 pend'[i] = IF i <= Len(pend) THEN pend[i] ELSE new[i - Len(pend)]
        BY <4>5, <4>6, <4>7, ConcatProperties
      <4>9. \A i \in 1 .. Len(pend') : pend'[i].gen = gen'
        <5>1. Len(pend) \in Nat /\ Len(new) \in Nat
          BY <4>5, <4>6
        <5>2. ASSUME NEW i \in 1 .. Len(pend') PROVE pend'[i].gen = gen
          <6>1. CASE i <= Len(pend)
            BY <4>6, <4>8, <5>1, <6>1
          <6>2. CASE ~(i <= Len(pend))
            <7>1. i - Len(pend) \in 1 .. Len(new) /\ pend'[i] = new[i - Len(pend)]
              BY <4>8, <5>1, <6>2
            <7> QED
              BY <4>5, <7>1
          <6> QED
            BY <6>1, <6>2
        <5> QED
          BY <2>2, <5>2
      <4> QED
        BY <1>0, <2>2, <3>3, <4>1, <4>4, <4>8, <4>9 DEF FetchInv
    <3> QED
      BY <3>1, <3>2, <3>3
  <2> QED
    BY <1>4, <2>3, <2>4
<1>5. CASE PF!Turn
  <2>1. gen' = gen /\ cursor' = cursor
    BY <1>5 DEF PF!Turn
  <2>2. CASE ~playing
    <3>1. UNCHANGED <<pend, fetchShown, flights>>
      BY <1>5, <2>2 DEF PF!Turn
    <3> QED
      BY <1>0, <2>1, <3>1 DEF FetchInv
  <2>3. CASE playing
    <3>1. PICK n \in 0 .. Len(pend) :
            /\ fetchShown' = PF!Shows(n) /\ pend' = SubSeq(pend, n + 1, Len(pend))
            /\ flights' = flights \/ PF!Request(gen, cursor, fetchLive, FALSE)
      BY <1>5, <2>3 DEF PF!Turn
    <3>2. PICK S : S = Samples /\ pend \in Seq(S)
      BY DEF FetchInv
    <3>3. /\ pend' \in Seq(S) /\ Len(pend') \in Nat
          /\ \A i \in 1 .. Len(pend') : i + n \in 1 .. Len(pend) /\ pend'[i] = pend[i + n]
      <4>1. Len(pend) \in Nat /\ n + 1 \in Int /\ \A i \in n + 1 .. Len(pend) : pend[i] \in S
        BY <3>2
      <4>2. /\ pend' \in Seq(S)
            /\ Len(pend') = IF n + 1 <= Len(pend) THEN Len(pend) - (n + 1) + 1 ELSE 0
            /\ \A i \in 1 .. Len(pend) - (n + 1) + 1 : pend'[i] = pend[(n + 1) + i - 1]
        BY <3>1, <4>1, SubSeqProperties
      <4>3. ASSUME NEW i \in 1 .. Len(pend') PROVE i + n \in 1 .. Len(pend) /\ pend'[i] = pend[i + n]
        <5>1. i \in 1 .. Len(pend) - (n + 1) + 1 /\ (n + 1) + i - 1 = i + n
          BY <4>1, <4>2
        <5> QED
          BY <4>1, <4>2, <5>1
      <4> QED
        BY <4>2, <4>3
    <3>4. \A i \in 1 .. Len(pend') : pend'[i].gen = gen'
      BY <2>1, <3>3 DEF FetchInv
    <3>5. \A r \in flights' : r.at \in Nat
      <4>1. cursor \in Nat
        BY DEF FetchInv
      <4> QED
        BY <1>1, <3>1, <4>1 DEF FetchInv
    <3>6. fetchShown' \in Nat /\ fetchShown' >= fetchShown
      BY <1>0, <3>1, ShowsLater
    <3> QED
      BY <1>0, <2>1, <3>2, <3>3, <3>4, <3>5, <3>6 DEF FetchInv
  <2> QED
    BY <2>2, <2>3
<1> QED
  BY <1>2, <1>3, <1>4, <1>5 DEF PF!FetchNext

\* Whatever the recording's times and however its fragments' answers and the
\* page's clicks interleave: what waits to be shown was asked for by this
\* session of the player, and within a session the image never goes back.
THEOREM NothingStaleShown == Spec => PlayerFetchSafe
<1>1. Init => FetchInv
  BY FetchStarts
<1>2. FetchInv /\ [Next]_vars => FetchInv' /\ [gen' = gen => fetchShown' >= fetchShown]_fetchVars
  <2> SUFFICES ASSUME FetchInv, [Next]_vars
               PROVE  FetchInv' /\ [gen' = gen => fetchShown' >= fetchShown]_fetchVars
    OBVIOUS
  <2>1. CASE PFStep
    BY <2>1, FetchSteps DEF PFStep
  <2>2. CASE fetchVars' = fetchVars
    BY <2>2 DEF fetchVars, FetchInv
  <2> QED
    BY <2>1, <2>2 DEF Next, vars, RMStep, DCStep, ONStep, RFStep, ALStep, SBStep, MOStep
<1>3. FetchInv => PF!NothingStale
  BY DEF FetchInv, PF!NothingStale
<1>4. [gen' = gen => fetchShown' >= fetchShown]_fetchVars
      => [gen' = gen => fetchShown' >= fetchShown]_PF!fvars
  BY DEF fetchVars, PF!fvars
<1>5. Spec => []PF!NothingStale
  BY <1>1, <1>2, <1>3, PTL DEF Spec
<1>6. Spec => PF!ForwardOnly
  BY <1>1, <1>2, <1>4, PTL DEF Spec, PF!ForwardOnly
<1> QED
  BY <1>5, <1>6 DEF PlayerFetchSafe


-----------------------------------------------------------------------------
(* RtspFile: at the pace of the timestamps, and onward *)

Written == [blocks : Nat, closed : BOOLEAN]

Sending == st \in {"playing", "paused"} \/ hand # <<>>

VodShape ==
  /\ vodFilm \in Reels /\ files \in Seq(Written)
  /\ Len(files) <= Len(vodFilm)
  /\ \A f \in 1 .. Len(files) : files[f].blocks <= Len(vodFilm[f].blocks)
  /\ file \in 0 .. Len(files) /\ pos \in Nat \ {0} /\ hand \in Seq(Nat)
  /\ anchored \in BOOLEAN /\ sparse \in BOOLEAN
  /\ phase \in Int /\ lead \in Int /\ age \in Nat
  /\ vodSent \in [file : Nat, pts : Nat] /\ vodSent.pts <= MaxPts
  /\ \A i \in 1 .. Len(hand) : hand[i] <= MaxPts
  /\ Sending => file # 0
  /\ hand # <<>> => st \in {"playing", "paused", "over"}
  /\ st = "setup" => ~anchored
  /\ nap => hand # <<>>

\* What was sent is as far ahead as the last of it is from its own time, and
\* that has come.
VodPace ==
  st # "over" =>
    /\ lead <= 0 \/ sparse
    /\ anchored => /\ phase + vodSent.pts <= 0
                   /\ lead <= phase + vodSent.pts \/ sparse

\* The blocks of a file from one on are later than x.
After(x, reel, f, from) ==
  \A b \in 1 .. Len(reel[f].blocks) : b >= from =>
    \A k \in 1 .. Len(reel[f].blocks[b].pts) : x < reel[f].blocks[b].pts[k]

\* What was sent comes before what is in hand, and that before what is to read.
VodOrder ==
  Sending =>
    /\ \A i \in 1 .. Len(hand) : After(hand[i], vodFilm, file, pos)
    /\ \A i, j \in 1 .. Len(hand) : i < j => hand[i] < hand[j]
    /\ \/ vodSent.file < file
       \/ /\ vodSent.file = file /\ After(vodSent.pts, vodFilm, file, pos)
          /\ \A i \in 1 .. Len(hand) : vodSent.pts < hand[i]

VodInv == VodShape /\ VodPace /\ VodOrder

\* What was sent last goes on, or a PLAY begins anew.
GoesForward ==
  \/ vodSent' = vodSent \/ vodSent' = RF!NotSent \/ vodSent'.file > vodSent.file
  \/ vodSent'.file = vodSent.file /\ vodSent'.pts > vodSent.pts

LEMMA FilmFacts ==
  ASSUME NEW reel \in Reels
  PROVE  /\ Len(reel) \in Nat
         /\ \A f \in 1 .. Len(reel) :
              /\ Len(reel[f].blocks) \in Nat
              /\ \A b \in 1 .. Len(reel[f].blocks) :
                   /\ reel[f].blocks[b].pts \in Seq(Nat) /\ reel[f].blocks[b].pts # <<>>
                   /\ \A i \in 1 .. Len(reel[f].blocks[b].pts) : reel[f].blocks[b].pts[i] <= MaxPts
<1>1. PICK B : B = [pts : Seq(Nat) \ {<<>>}, key : BOOLEAN, bad : BOOLEAN]
  OBVIOUS
<1>2. PICK R : R = [codec : STRING, blocks : Seq(B)]
  OBVIOUS
<1>3. reel \in Seq(R)
  BY <1>1, <1>2, RtspFileAssumption DEF RF!RtspFileAssumption, RF!Blocks
<1>4. ASSUME NEW f \in 1 .. Len(reel)
      PROVE  /\ Len(reel[f].blocks) \in Nat
             /\ \A b \in 1 .. Len(reel[f].blocks) :
                  reel[f].blocks[b].pts \in Seq(Nat) /\ reel[f].blocks[b].pts # <<>>
  <2>1. reel[f] \in R
    BY <1>3
  <2>2. PICK bs \in Seq(B) : bs = reel[f].blocks
    BY <1>2, <2>1
  <2>3. \A b \in 1 .. Len(bs) : bs[b] \in B
    BY <2>2
  <2>4. \A b \in 1 .. Len(bs) : bs[b].pts \in Seq(Nat) /\ bs[b].pts # <<>>
    BY <1>1, <2>3
  <2> QED
    BY <2>2, <2>4
<1>5. \A f \in 1 .. Len(reel) : \A b \in 1 .. Len(reel[f].blocks) :
        \A i \in 1 .. Len(reel[f].blocks[b].pts) : reel[f].blocks[b].pts[i] <= MaxPts
  BY RtspFileAssumption DEF RF!RtspFileAssumption
<1>6. Len(reel) \in Nat
  BY <1>3
<1> QED
  BY <1>4, <1>5, <1>6, Zenon

\* The greatest of some numbers up to n.
LEMMA MostOf ==
  ASSUME NEW n \in Nat, NEW S, S \subseteq 1 .. n, S # {}
  PROVE  RF!Most(S) \in S
<1>1. PICK D : D = {d \in Nat : n - d \in S}
  OBVIOUS
<1>2. D \subseteq Nat /\ \A x \in S : n - x \in D
  BY <1>1
<1>3. PICK d \in D : \A e \in D : d <= e
  <2>1. D # {}
    BY <1>2
  <2> QED
    BY <1>2, <2>1, LeastOf
<1>4. n - d \in S /\ d \in Nat
  BY <1>1
<1>5. ASSUME NEW y \in S PROVE n - d >= y
  <2>1. d <= n - y /\ y \in Nat
    BY <1>2, <1>3
  <2> QED
    BY <1>4, <2>1
<1> QED
  BY <1>4, <1>5 DEF RF!Most

LEMMA Repositions ==
  ASSUME VodShape, NEW f \in 1 .. Len(files), NEW t
  PROVE  RF!LastKey(f) \in Nat \ {0} /\ RF!BlockAt(f, t) \in Nat \ {0}
<1>1. PICK n \in Nat : n = files[f].blocks
  <2>1. files[f] \in Written
    BY DEF VodShape
  <2> QED
    BY <2>1 DEF Written
<1>2. PICK S, T : /\ S = {b \in 1 .. n : RF!Block(f, b).key}
                  /\ T = {b \in 1 .. n : RF!Block(f, b).pts[1] <= t}
  OBVIOUS
<1>3. /\ S \subseteq 1 .. n /\ T \subseteq 1 .. n
      /\ S # {} => RF!Most(S) \in 1 .. n
      /\ T # {} => RF!Most(T) \in 1 .. n
  BY <1>2, MostOf
<1>4. RF!LastKey(f) = IF S = {} THEN 1 ELSE RF!Most(S)
  BY <1>1, <1>2 DEF RF!LastKey
<1>5. RF!BlockAt(f, t) = IF T = {} THEN 1 ELSE RF!Most(T)
  BY <1>1, <1>2 DEF RF!BlockAt
<1> QED
  BY <1>3, <1>4, <1>5

LEMMA VodStarts ==
  ASSUME Init
  PROVE  VodInv
<1>1. /\ vodFilm \in Reels /\ files = <<>> /\ st = "init" /\ file = 0 /\ pos = 1
      /\ anchored = FALSE /\ phase = 0 /\ age = 0 /\ hand = <<>> /\ nap = FALSE
      /\ vodSent = RF!NotSent /\ lead = 0 /\ sparse = FALSE
  BY DEF Init, RF!FileInit
<1>2. Len(vodFilm) \in Nat
  BY <1>1, FilmFacts
<1>3. vodSent \in [file : Nat, pts : Nat] /\ vodSent.pts <= MaxPts
  BY <1>1, RtspFileAssumption DEF RF!NotSent, RF!RtspFileAssumption
<1>4. ~Sending
  BY <1>1 DEF Sending
<1>5. VodShape
  <2>1. files \in Seq(Written) /\ Len(files) = 0 /\ hand \in Seq(Nat)
    BY <1>1, EmptySeq
  <2>2. phase \in Int /\ lead \in Int /\ age \in Nat /\ pos \in Nat \ {0}
    BY <1>1
  <2>3. file \in 0 .. Len(files) /\ Len(files) <= Len(vodFilm)
    BY <1>1, <1>2, <2>1
  <2>4. anchored \in BOOLEAN /\ sparse \in BOOLEAN /\ ~anchored /\ hand = <<>> /\ ~nap
    BY <1>1
  <2>5. vodFilm \in Reels /\ st = "init"
    BY <1>1
  <2>6. \A f \in 1 .. Len(files) : files[f].blocks <= Len(vodFilm[f].blocks)
    BY <2>1
  <2>7. \A i \in 1 .. Len(hand) : hand[i] <= MaxPts
    BY <2>4
  <2> QED
    BY <1>3, <1>4, <2>1, <2>2, <2>3, <2>4, <2>5, <2>6, <2>7 DEF VodShape
<1>6. VodPace /\ VodOrder
  BY <1>1, <1>4 DEF VodPace, VodOrder
<1> QED
  BY <1>5, <1>6 DEF VodInv

LEMMA VodRests ==
  ASSUME VodInv, vodVars' = vodVars
  PROVE  VodInv' /\ vodSent' = vodSent
<1>1. /\ vodFilm' = vodFilm /\ files' = files /\ st' = st /\ file' = file /\ pos' = pos
      /\ anchored' = anchored /\ phase' = phase /\ age' = age /\ hand' = hand /\ nap' = nap
      /\ vodSent' = vodSent /\ lead' = lead /\ sparse' = sparse
  BY DEF vodVars
<1> QED
  BY <1>1 DEF VodInv, VodShape, VodPace, VodOrder, Sending, After

\* The recorder goes on: what there is to read grows at its end.
LEMMA VodRecords ==
  ASSUME VodInv, RF!Record \/ RF!Rotate
  PROVE  VodInv' /\ vodSent' = vodSent
<1>1. /\ vodFilm' = vodFilm /\ st' = st /\ file' = file /\ pos' = pos
      /\ anchored' = anchored /\ phase' = phase /\ age' = age /\ hand' = hand /\ nap' = nap
      /\ vodSent' = vodSent /\ lead' = lead /\ sparse' = sparse
  BY DEF RF!Record, RF!Rotate, RF!reader, RF!pacing, RF!ghosts
<1>2. VodPace' /\ VodOrder' /\ Sending' = Sending
  BY <1>1 DEF VodInv, VodPace, VodOrder, Sending, After
<1>3. Len(vodFilm) \in Nat
  BY FilmFacts DEF VodInv, VodShape
<1>4. PICK W : W = Written /\ files \in Seq(W)
  BY DEF VodInv, VodShape
<1>5. /\ files' \in Seq(W) /\ Len(files') >= Len(files) /\ Len(files') <= Len(vodFilm)
      /\ \A f \in 1 .. Len(files') : files'[f].blocks <= Len(vodFilm[f].blocks)
  <2>1. CASE RF!Record
    <3>1. PICK f : f = Len(files)
      OBVIOUS
    <3>2. /\ f \in 1 .. Len(files) /\ files[f] \in W
      BY <1>4, <2>1, <3>1 DEF RF!Record
    <3>3. files[f].blocks < Len(vodFilm[f].blocks)
      BY <2>1, <3>1 DEF RF!Record
    <3>4. PICK w \in W : w = [files[f] EXCEPT !.blocks = @ + 1] /\ w.blocks = files[f].blocks + 1
      <4>1. PICK n \in Nat, c \in BOOLEAN : files[f] = [blocks |-> n, closed |-> c]
        BY <1>4, <3>2 DEF Written
      <4>2. [blocks |-> n + 1, closed |-> c] \in W
        BY <1>4 DEF Written
      <4> QED
        BY <4>1, <4>2
    <3>5. files' = [files EXCEPT ![f] = w]
      BY <2>1, <3>1, <3>4 DEF RF!Record
    <3>6. /\ files' \in Seq(W) /\ Len(files') = Len(files)
          /\ \A g \in 1 .. Len(files) : files'[g] = IF g = f THEN w ELSE files[g]
      BY <1>4, <3>2, <3>5, ExceptSeq
    <3>7. ASSUME NEW g \in 1 .. Len(files) PROVE files'[g].blocks <= Len(vodFilm[g].blocks)
      <4>1. CASE g = f
        <5>1. f \in 1 .. Len(vodFilm) /\ Len(vodFilm[f].blocks) \in Nat
          BY <1>3, <3>2, FilmFacts DEF VodInv, VodShape
        <5>2. files[f].blocks \in Nat
          BY <1>4, <3>2 DEF Written
        <5> QED
          <6>1. PICK n \in Nat, m \in Nat :
                  n = files[f].blocks /\ m = Len(vodFilm[f].blocks) /\ n < m
            BY <3>3, <5>1, <5>2
          <6>2. files'[g].blocks = n + 1 /\ Len(vodFilm[g].blocks) = m
            BY <3>2, <3>4, <3>6, <4>1, <6>1
          <6> QED
            BY <6>1, <6>2
      <4>2. CASE g # f
        BY <3>6, <4>2 DEF VodInv, VodShape
      <4> QED
        BY <4>1, <4>2
    <3> QED
      BY <3>6, <3>7 DEF VodInv, VodShape
  <2>2. CASE RF!Rotate
    <3>1. PICK footer \in BOOLEAN :
            files' = Append([f \in 1 .. Len(files) |->
                               IF f = Len(files) THEN [files[f] EXCEPT !.closed = footer] ELSE files[f]],
                            [blocks |-> 0, closed |-> FALSE])
      BY <2>2 DEF RF!Rotate
    <3>2. PICK old : old = [f \in 1 .. Len(files) |->
                              IF f = Len(files) THEN [files[f] EXCEPT !.closed = footer] ELSE files[f]]
      OBVIOUS
    <3>3. PICK new \in W : new = [blocks |-> 0, closed |-> FALSE] /\ new.blocks = 0
      <4>1. [blocks |-> 0, closed |-> FALSE] \in W
        BY <1>4 DEF Written
      <4> QED
        BY <4>1
    <3>4. ASSUME NEW f \in 1 .. Len(files)
          PROVE  old[f] \in W /\ old[f].blocks = files[f].blocks
      <4>1. PICK n \in Nat, c \in BOOLEAN : files[f] = [blocks |-> n, closed |-> c]
        <5>1. files[f] \in W
          BY <1>4
        <5> QED
          BY <1>4, <5>1 DEF Written
      <4>2. [blocks |-> n, closed |-> footer] \in W /\ [blocks |-> n, closed |-> c] \in W
        BY <1>4 DEF Written
      <4> QED
        BY <3>2, <4>1, <4>2
    <3>5. old \in Seq(W) /\ Len(old) = Len(files)
      <4>1. Len(files) \in Nat /\ DOMAIN old = 1 .. Len(files)
        BY <1>4, <3>2
      <4> QED
        BY <3>2, <3>4, <4>1
    <3>6. files' = Append(old, new)
      BY <3>1, <3>2, <3>3
    <3>7. /\ files' \in Seq(W) /\ Len(files') = Len(files) + 1
          /\ files'[Len(files) + 1] = new
          /\ \A f \in 1 .. Len(files) : files'[f] = old[f]
      BY <3>3, <3>5, <3>6, AppendProperties
    <3>8. Len(files) < Len(vodFilm) /\ Len(files) \in Nat
      BY <1>4, <2>2 DEF RF!Rotate
    <3>9. ASSUME NEW f \in 1 .. Len(files') PROVE files'[f].blocks <= Len(vodFilm[f].blocks)
      <4>1. CASE f = Len(files) + 1
        <5>1. f \in 1 .. Len(vodFilm) /\ Len(vodFilm[f].blocks) \in Nat
          BY <1>3, <3>8, <4>1, FilmFacts DEF VodInv, VodShape
        <5> QED
          BY <3>3, <3>7, <4>1, <5>1
      <4>2. CASE f \in 1 .. Len(files)
        BY <3>4, <3>7, <4>2 DEF VodInv, VodShape
      <4> QED
        BY <3>7, <3>8, <4>1, <4>2
    <3> QED
      BY <1>3, <3>7, <3>8, <3>9
  <2> QED
    BY <2>1, <2>2
<1>6. VodShape'
  <2>1. Len(files) \in Nat /\ Len(files') \in Nat
    BY <1>4, <1>5
  <2>2. file' \in 0 .. Len(files')
    BY <1>1, <1>5, <2>1 DEF VodInv, VodShape
  <2> QED
    BY <1>1, <1>2, <1>4, <1>5, <2>2 DEF VodInv, VodShape
<1> QED
  BY <1>1, <1>2, <1>6 DEF VodInv


LEMMA VodDescribes ==
  ASSUME VodInv, NEW isLive, NEW f \in Nat, RF!Describe(isLive, f)
  PROVE  VodInv' /\ vodSent' = vodSent
<1>1. /\ hand = <<>> /\ st # "over" /\ vodFilm' = vodFilm /\ files' = files
      /\ anchored' = anchored /\ phase' = phase /\ age' = age /\ hand' = hand /\ nap' = nap
      /\ vodSent' = vodSent /\ lead' = lead /\ sparse' = sparse
  BY DEF RF!Describe, RF!Asks, RF!Unlocked, RF!pacing, RF!ghosts
<1>2. CASE f \in 1 .. Len(files)
  <2>1. st' = "described" /\ file' = f /\ (pos' = 1 \/ pos' = RF!LastKey(f))
    BY <1>2 DEF RF!Describe, RF!OpenReader
  <2>2. pos' \in Nat \ {0}
    BY <1>2, <2>1, Repositions DEF VodInv
  <2>3. file' \in 0 .. Len(files')
    BY <1>1, <1>2, <2>1
  <2>4. ~Sending'
    BY <1>1, <2>1 DEF Sending
  <2>5. VodShape'
    BY <1>1, <2>1, <2>2, <2>3, <2>4 DEF VodInv, VodShape
  <2>6. VodPace' /\ VodOrder'
    BY <1>1, <2>1, <2>4 DEF VodInv, VodPace, VodOrder
  <2> QED
    BY <1>1, <2>5, <2>6 DEF VodInv
<1>3. CASE f \notin 1 .. Len(files)
  <2>1. st' = st /\ file' = file /\ pos' = pos
    BY <1>3 DEF RF!Describe
  <2> QED
    BY <1>1, <2>1 DEF VodInv, VodShape, VodPace, VodOrder, Sending, After
<1> QED
  BY <1>2, <1>3

LEMMA VodPlays ==
  ASSUME VodInv, RF!Setup \/ RF!Play \/ RF!Pause \/ RF!Teardown
  PROVE  VodInv' /\ (vodSent' = vodSent \/ vodSent' = RF!NotSent)
<1>1. /\ vodFilm' = vodFilm /\ files' = files /\ file' = file /\ hand' = hand /\ nap' = nap
  BY DEF RF!Setup, RF!Play, RF!Pause, RF!Teardown, RF!reader, RF!pacing
<1>2. CASE RF!Setup
  <2>1. /\ hand = <<>> /\ st' = "setup" /\ anchored' = FALSE /\ phase' = 0 /\ age' = age
        /\ pos' = pos /\ vodSent' = vodSent /\ lead' = lead /\ sparse' = sparse
        /\ st # "over"
    BY <1>2 DEF RF!Setup, RF!Asks, RF!Unlocked, RF!reader, RF!ghosts
  <2>2. ~Sending'
    BY <1>1, <2>1 DEF Sending
  <2>3. VodShape'
    <3>1. anchored' \in BOOLEAN /\ ~anchored' /\ phase' \in Int
      <4>1. anchored' \in BOOLEAN /\ ~anchored'
        BY <2>1
      <4>2. phase' = 0
        BY <2>1
      <4> QED
        BY <4>1, <4>2
    <3>2. /\ st' = "setup" /\ hand' = <<>> /\ age' = age /\ pos' = pos /\ vodSent' = vodSent
          /\ lead' = lead /\ sparse' = sparse
      BY <1>1, <2>1
    <3>3. ~nap'
      BY <1>1, <2>1 DEF VodInv, VodShape
    <3> QED
      BY <1>1, <2>2, <3>1, <3>2, <3>3 DEF VodInv, VodShape
  <2>4. VodPace' /\ VodOrder'
    BY <2>1, <2>2 DEF VodInv, VodPace, VodOrder
  <2> QED
    BY <2>1, <2>3, <2>4 DEF VodInv
<1>3. CASE RF!Play
  <2>1. /\ hand = <<>> /\ st \in {"setup", "paused"} /\ st' = "playing" /\ file # 0
        /\ age' = 0 /\ phase' = phase
        /\ \/ pos' = pos /\ anchored' = anchored
           \/ anchored' = FALSE /\ \E t : pos' = RF!BlockAt(file, t)
        /\ IF anchored' THEN UNCHANGED <<vodSent, lead, sparse>>
           ELSE vodSent' = RF!NotSent /\ lead' = 0 /\ sparse' = FALSE
    BY <1>3 DEF RF!Play, RF!Asks, RF!Unlocked, RF!ghosts
  <2>2. file \in 1 .. Len(files) /\ Len(files) \in Nat
    BY <2>1 DEF VodInv, VodShape
  <2>3. pos' \in Nat \ {0} /\ anchored' \in BOOLEAN
    BY <2>1, <2>2, Repositions DEF VodInv, VodShape
  <2>4. CASE ~anchored'
    <3>1. vodSent' = RF!NotSent /\ lead' = 0 /\ sparse' = FALSE
      BY <2>1, <2>4
    <3>2. vodSent' \in [file : Nat, pts : Nat] /\ vodSent'.file = 0 /\ vodSent'.pts <= MaxPts
      BY <3>1, RtspFileAssumption DEF RF!NotSent, RF!RtspFileAssumption
    <3>3. VodShape'
      <4>1. sparse' \in BOOLEAN /\ lead' \in Int /\ age' \in Nat /\ phase' = phase
        <5>1. sparse' \in BOOLEAN
          BY <3>1
        <5>2. lead' = 0 /\ age' = 0 /\ phase' = phase
          BY <2>1, <3>1
        <5> QED
          BY <5>1, <5>2
      <4>2. st' = "playing" /\ hand' = <<>> /\ file' # 0 /\ ~nap'
        BY <1>1, <2>1 DEF VodInv, VodShape
      <4> QED
        BY <1>1, <2>3, <3>2, <4>1, <4>2 DEF VodInv, VodShape, Sending
    <3>4. VodPace'
      BY <2>4, <3>1 DEF VodPace
    <3>5. VodOrder'
      <4>1. vodSent'.file < file'
        BY <1>1, <2>2, <3>2
      <4>2. Len(hand') = 0
        BY <1>1, <2>1
      <4> QED
        BY <4>1, <4>2 DEF VodOrder
    <3> QED
      BY <3>1, <3>3, <3>4, <3>5 DEF VodInv
  <2>5. CASE anchored'
    <3>1. /\ vodSent' = vodSent /\ lead' = lead /\ sparse' = sparse /\ pos' = pos
          /\ anchored' = anchored
      BY <2>1, <2>5
    <3>2. st = "paused"
      BY <2>1, <2>5, <3>1 DEF VodInv, VodShape
    <3>3. Sending /\ Sending'
      BY <2>1, <3>2 DEF Sending
    <3>4. VodShape'
      BY <1>1, <2>1, <3>1, <3>3 DEF VodInv, VodShape
    <3>5. VodPace'
      BY <2>1, <3>1, <3>2 DEF VodInv, VodPace
    <3>6. VodOrder'
      BY SMTT(30), <1>1, <3>1, <3>3 DEF VodInv, VodOrder, After
    <3> QED
      BY <3>1, <3>4, <3>5, <3>6 DEF VodInv
  <2> QED
    BY <2>4, <2>5
<1>4. CASE RF!Pause \/ RF!Teardown
  <2>1. /\ pos' = pos /\ anchored' = anchored /\ phase' = phase /\ age' = age
        /\ vodSent' = vodSent /\ lead' = lead /\ sparse' = sparse
        /\ (st' = "paused" /\ st = "playing") \/ st' = "over"
    BY <1>4 DEF RF!Pause, RF!Teardown, RF!reader, RF!pacing, RF!ghosts
  <2>2. Sending' => Sending
    BY <1>1, <2>1 DEF Sending
  <2>3. VodShape'
    BY <1>1, <2>1, <2>2 DEF VodInv, VodShape
  <2>4. VodPace'
    BY <2>1 DEF VodInv, VodPace
  <2>5. VodOrder'
    BY <1>1, <2>1, <2>2 DEF VodInv, VodOrder, After
  <2> QED
    BY <2>1, <2>3, <2>4, <2>5 DEF VodInv
<1> QED
  BY <1>2, <1>3, <1>4

\* A block comes to hand: it is later than what was sent, and the rest than it.
LEMMA VodReadsBlock ==
  ASSUME VodInv, RF!ReadBlock
  PROVE  VodInv' /\ vodSent' = vodSent
<1>1. /\ st = "playing" /\ hand = <<>> /\ pos <= files[file].blocks
      /\ hand' = RF!Block(file, pos).pts /\ nap' = FALSE /\ pos' = pos + 1
      /\ vodFilm' = vodFilm /\ files' = files /\ st' = st /\ file' = file
      /\ anchored' = anchored /\ phase' = phase /\ age' = age
      /\ vodSent' = vodSent /\ lead' = lead /\ sparse' = sparse
  BY DEF RF!ReadBlock, RF!Decodes, RF!Reads, RF!Unlocked, RF!AtBlock, RF!ghosts
<1>2. Sending /\ Sending' /\ file \in 1 .. Len(files) /\ Len(files) \in Nat
  BY <1>1 DEF VodInv, VodShape, Sending
<1>3. file \in 1 .. Len(vodFilm) /\ Len(vodFilm[file].blocks) \in Nat
  BY <1>2, FilmFacts DEF VodInv, VodShape
<1>4. pos \in 1 .. Len(vodFilm[file].blocks)
  <2>1. files[file].blocks \in Nat
    <3>1. files[file] \in Written
      BY <1>2 DEF VodInv, VodShape
    <3> QED
      BY <3>1 DEF Written
  <2>2. files[file].blocks <= Len(vodFilm[file].blocks)
    BY <1>2 DEF VodInv, VodShape
  <2> QED
    BY <1>1, <1>3, <2>1, <2>2 DEF VodInv, VodShape
<1>5. hand' \in Seq(Nat) /\ hand' # <<>> /\ \A i \in 1 .. Len(hand') : hand'[i] <= MaxPts
  BY <1>1, <1>3, <1>4, FilmFacts DEF VodInv, VodShape, RF!Block
<1>6. VodShape'
  BY <1>1, <1>2, <1>5 DEF VodInv, VodShape
<1>7. VodPace'
  BY <1>1 DEF VodInv, VodPace
<1>8. VodOrder'
  <2>1. RF!GoesOn(vodFilm[file].blocks)
    BY <1>3, RtspFileAssumption DEF RF!RtspFileAssumption, VodInv, VodShape
  <2>2. ASSUME NEW b \in 1 .. Len(vodFilm[file].blocks), b >= pos + 1,
               NEW k \in 1 .. Len(RF!Block(file, b).pts), NEW i \in 1 .. Len(hand')
        PROVE  hand'[i] < RF!Block(file, b).pts[k]
    <3>1. i \in 1 .. Len(vodFilm[file].blocks[pos].pts) /\ pos < b
      BY <1>1, <1>4, <2>2 DEF RF!Block
    <3> QED
      BY <1>1, <1>4, <2>1, <2>2, <3>1 DEF RF!GoesOn, RF!Block
  <2>3. \A i \in 1 .. Len(hand') : After(hand'[i], vodFilm', file', pos')
    <3>1. ASSUME NEW i \in 1 .. Len(hand'), NEW b \in 1 .. Len(vodFilm[file].blocks), b >= pos + 1,
                 NEW k \in 1 .. Len(vodFilm[file].blocks[b].pts)
          PROVE  hand'[i] < vodFilm[file].blocks[b].pts[k]
      BY <2>2, <3>1 DEF RF!Block
    <3> QED
      BY <1>1, <3>1 DEF After
  <2>4. \A i, j \in 1 .. Len(hand') : i < j => hand'[i] < hand'[j]
    BY <1>1, <1>4, <2>1 DEF RF!GoesOn, RF!Block
  <2>5. \/ vodSent'.file < file'
        \/ /\ vodSent'.file = file' /\ After(vodSent.pts, vodFilm, file, pos)
    BY <1>1, <1>2 DEF VodInv, VodOrder
  <2>6. ASSUME After(vodSent.pts, vodFilm, file, pos)
        PROVE  After(vodSent'.pts, vodFilm', file', pos') /\ \A i \in 1 .. Len(hand') : vodSent'.pts < hand'[i]
    <3>1. \A i \in 1 .. Len(hand') : vodSent'.pts < hand'[i]
      <4>1. pos \in 1 .. Len(vodFilm[file].blocks) /\ pos >= pos
        BY <1>4
      <4>2. \A k \in 1 .. Len(vodFilm[file].blocks[pos].pts) :
              vodSent.pts < vodFilm[file].blocks[pos].pts[k]
        BY <2>6, <4>1 DEF After
      <4> QED
        BY <1>1, <4>2 DEF RF!Block
    <3>2. \A b : b >= pos + 1 /\ b \in Int => b >= pos
      BY <1>4
    <3>3. After(vodSent'.pts, vodFilm', file', pos')
      BY <1>1, <1>3, <2>6, <3>2 DEF After
    <3> QED
      BY <3>1, <3>3
  <2> QED
    BY <2>3, <2>4, <2>5, <2>6 DEF VodOrder
<1> QED
  BY <1>1, <1>6, <1>7, <1>8 DEF VodInv

\* Nothing was read: the reader stays, goes past the block or on to a later file.
LEMMA VodReadsNothing ==
  ASSUME VodInv, RF!ReadAgain \/ RF!SkipBad \/ RF!ReadEnd
  PROVE  VodInv' /\ vodSent' = vodSent
<1>1. PICK end, place, again : /\ RF!NoBlock(end, place, again) /\ place \in {pos, pos + 1}
  BY DEF RF!ReadAgain, RF!SkipBad, RF!ReadEnd
<1>2. /\ st = "playing" /\ hand = <<>>
      /\ vodFilm' = vodFilm /\ files' = files /\ phase' = phase /\ hand' = hand /\ nap' = nap
      /\ vodSent' = vodSent /\ lead' = lead /\ sparse' = sparse
  BY <1>1 DEF RF!ReadAgain, RF!SkipBad, RF!ReadEnd, RF!AtDamaged, RF!Decodes, RF!Reads, RF!Unlocked, RF!NoBlock,
     RF!ghosts
<1>3. Sending /\ file \in 1 .. Len(files) /\ Len(files) \in Nat /\ pos \in Nat \ {0}
  BY <1>2 DEF VodInv, VodShape, Sending
<1>4. \/ st' \in {"playing", "over"} /\ pos' = place /\ file' = file /\ anchored' = anchored /\ age' = age
      \/ /\ st' = "playing" /\ Len(files) # file /\ file' = Len(files) /\ pos' = RF!LastKey(file')
         /\ anchored' = FALSE /\ age' = 0
  BY <1>1, <1>2 DEF RF!NoBlock, RF!Switch, RF!Newer, RF!OpenReader
<1>5. CASE st' \in {"playing", "over"} /\ pos' = place /\ file' = file /\ anchored' = anchored /\ age' = age
  <2>1. pos' \in Nat \ {0} /\ pos' >= pos
    BY <1>1, <1>3, <1>5
  <2>2. VodShape'
    BY <1>2, <1>3, <1>5, <2>1 DEF VodInv, VodShape, Sending
  <2>3. VodPace'
    BY <1>2, <1>5 DEF VodInv, VodPace
  <2>4. VodOrder'
    <3>1. \A b \in Int : b >= pos' => b >= pos
      BY <1>3, <2>1
    <3>2. Len(hand') = 0
      BY <1>2
    <3>3. After(vodSent.pts, vodFilm, file, pos) => After(vodSent'.pts, vodFilm', file', pos')
      BY <1>2, <1>5, <3>1 DEF After
    <3>4. vodSent.file < file \/ (vodSent.file = file /\ After(vodSent.pts, vodFilm, file, pos))
      BY <1>3 DEF VodInv, VodOrder
    <3> QED
      BY <1>2, <1>5, <3>2, <3>3, <3>4 DEF VodOrder
  <2> QED
    BY <1>2, <2>2, <2>3, <2>4 DEF VodInv
<1>6. CASE /\ st' = "playing" /\ Len(files) # file /\ file' = Len(files) /\ pos' = RF!LastKey(file')
           /\ anchored' = FALSE /\ age' = 0
  <2>1. file' \in 1 .. Len(files)
    BY <1>3, <1>6
  <2>2. pos' \in Nat \ {0}
    BY <1>6, <2>1, Repositions DEF VodInv
  <2>3. VodShape'
    <3>1. /\ anchored' \in BOOLEAN
          /\ age' \in Nat /\ st' = "playing" /\ hand' = <<>> /\ file' # 0
      <4>1. anchored' \in BOOLEAN
        BY <1>6
      <4>2. age' = 0 /\ st' = "playing" /\ hand' = <<>>
        BY <1>2, <1>6
      <4>3. file' # 0
        BY <1>3, <2>1
      <4> QED
        BY <4>1, <4>2, <4>3
    <3>2. ~nap' /\ file' \in 0 .. Len(files')
      BY <1>2, <1>3, <2>1 DEF VodInv, VodShape
    <3> QED
      BY <1>2, <2>2, <3>1, <3>2 DEF VodInv, VodShape, Sending
  <2>4. VodPace'
    BY <1>2, <1>6 DEF VodInv, VodPace
  <2>5. VodOrder'
    <3>1. vodSent.file <= file /\ vodSent.file \in Nat
      BY <1>3 DEF VodInv, VodOrder, VodShape
    <3>2. vodSent'.file < file'
      BY <1>2, <1>3, <1>6, <3>1
    <3>3. Len(hand') = 0
      BY <1>2
    <3> QED
      BY <3>2, <3>3 DEF VodOrder
  <2> QED
    BY <1>2, <2>3, <2>4, <2>5 DEF VodInv
<1> QED
  BY <1>4, <1>5, <1>6

\* The arithmetic of the pace: where the reader stands against the clock after a sample of time p,
\* the one before it of time s, from a phase f and a lead l.
LEMMA LeadOfTheNext ==
  ASSUME NEW l \in Int, NEW f \in Int, NEW s \in Nat, NEW p \in Nat, l <= f + s
  PROVE  /\ l + p - s <= f + p
         /\ f + p < 0 => l + p - s <= 0
OBVIOUS

LEMMA GapOfTheNext ==
  ASSUME NEW f \in Int, NEW s \in Nat, NEW p \in Nat, NEW w \in Nat, f + s <= 0, f + p > w
  PROVE  p - s > w
OBVIOUS

\* What goes out of what is in hand.
LEMMA VodSendsOne ==
  ASSUME VodInv, hand # <<>>, RF!Sends(Head(hand)),
         st' = st, vodFilm' = vodFilm, files' = files, file' = file, pos' = pos, age' = age,
         anchored' \in BOOLEAN, phase' \in Int,
         anchored => /\ (anchored' /\ phase' + Head(hand) <= 0) \/ st = "over"
                     /\ phase' = phase \/ (phase' = -Head(hand) /\ phase + Head(hand) \notin 0 .. MaxWait),
         ~anchored /\ anchored' => phase' = -Head(hand) \/ phase' = -age - Head(hand)
  PROVE  VodInv' /\ GoesForward
<1> DEFINE p == Head(hand)
<1>1. /\ hand' = Tail(hand) /\ nap' = FALSE /\ vodSent' = [file |-> file, pts |-> p]
      /\ vodSent'.file = file /\ vodSent'.pts = p
      /\ anchored => lead' = lead + p - vodSent.pts /\ sparse' = (sparse \/ p - vodSent.pts > MaxWait)
      /\ ~anchored => lead' = -age /\ sparse' = FALSE
  BY DEF RF!Sends
<1>2. /\ hand \in Seq(Nat) /\ Len(hand) \in Nat \ {0} /\ p = hand[1] /\ p \in Nat
      /\ hand' \in Seq(Nat) /\ Len(hand') = Len(hand) - 1
      /\ \A i \in 1 .. Len(hand') : hand'[i] = hand[i + 1] /\ i + 1 \in 1 .. Len(hand)
  <2>1. hand \in Seq(Nat)
    BY DEF VodInv, VodShape
  <2>2. /\ Head(hand) \in Nat /\ Tail(hand) \in Seq(Nat) /\ Len(Tail(hand)) = Len(hand) - 1
        /\ \A i \in 1 .. Len(Tail(hand)) : Tail(hand)[i] = hand[i + 1]
    BY <2>1, HeadTailProperties
  <2>3. Len(hand) \in Nat \ {0} /\ Head(hand) = hand[1]
    BY <2>1
  <2> QED
    BY <1>1, <2>1, <2>2, <2>3
<1>3. /\ Sending /\ file \in Nat \ {0} /\ vodSent.file \in Nat /\ vodSent.pts \in Nat
      /\ phase \in Int /\ lead \in Int /\ age \in Nat /\ MaxWait \in Nat /\ anchored \in BOOLEAN
      /\ sparse \in BOOLEAN
  BY RtspFileAssumption DEF VodInv, VodShape, Sending, RF!RtspFileAssumption
<1>4. /\ lead' \in Int /\ sparse' \in BOOLEAN /\ vodSent' \in [file : Nat, pts : Nat]
      /\ vodSent'.pts <= MaxPts /\ \A i \in 1 .. Len(hand') : hand'[i] <= MaxPts
  <2>1. lead' \in Int /\ sparse' \in BOOLEAN
    <3>1. CASE anchored
      BY <1>1, <1>2, <1>3, <3>1
    <3>2. CASE ~anchored
      <4>1. lead' = -age /\ age \in Nat
        BY <1>1, <1>3, <3>2
      <4>2. sparse' \in BOOLEAN
        BY <1>1, <3>2
      <4>3. lead' \in Int
        BY <4>1
      <4> QED
        BY <4>2, <4>3
    <3> QED
      BY <1>3, <3>1, <3>2
  <2>2. vodSent' \in [file : Nat, pts : Nat]
    BY <1>1, <1>2, <1>3
  <2>3. \A i \in 1 .. Len(hand) : hand[i] <= MaxPts
    BY DEF VodInv, VodShape
  <2> QED
    BY <1>1, <1>2, <2>1, <2>2, <2>3
<1>5. VodShape'
  <2>1. st # "setup"
    BY DEF VodInv, VodShape
  <2> QED
    BY <1>1, <1>2, <1>3, <1>4, <2>1 DEF VodInv, VodShape, Sending
<1>6. GoesForward
  <2>1. \/ vodSent.file < file
        \/ vodSent.file = file /\ vodSent.pts < hand[1]
    BY <1>2, <1>3 DEF VodInv, VodOrder
  <2> QED
    BY <1>1, <1>2, <1>3, <2>1 DEF GoesForward
<1>7. VodOrder'
  <2>1. /\ \A i \in 1 .. Len(hand) : After(hand[i], vodFilm, file, pos)
        /\ \A i, j \in 1 .. Len(hand) : i < j => hand[i] < hand[j]
    BY <1>3 DEF VodInv, VodOrder
  <2>2. \A x : After(x, vodFilm, file, pos) => After(x, vodFilm', file', pos')
    BY DEF After
  <2>3. \A i \in 1 .. Len(hand') : After(hand'[i], vodFilm', file', pos')
    BY <1>2, <2>1, <2>2
  <2>4. ASSUME NEW i \in 1 .. Len(hand'), NEW j \in 1 .. Len(hand'), i < j
        PROVE  hand'[i] < hand'[j]
    <3>1. i + 1 \in 1 .. Len(hand) /\ j + 1 \in 1 .. Len(hand) /\ i + 1 < j + 1
      BY <1>2, <2>4
    <3>2. hand[i + 1] < hand[j + 1]
      BY <2>1, <3>1
    <3> QED
      BY <1>2, <3>2
  <2>5. After(vodSent'.pts, vodFilm', file', pos')
    BY <1>1, <1>2, <2>1, <2>2
  <2>6. \A i \in 1 .. Len(hand') : vodSent'.pts < hand'[i]
    BY <1>1, <1>2, <2>1
  <2> QED
    BY <1>1, <2>3, <2>4, <2>5, <2>6 DEF VodOrder
<1>8. VodPace'
  <2>1. CASE ~anchored
    BY <1>1, <1>2, <1>3, <2>1 DEF VodPace
  <2>2. CASE anchored /\ st # "over"
    <3>1. /\ (phase + vodSent.pts <= 0 /\ lead <= 0) \/ sparse
          /\ lead <= phase + vodSent.pts \/ sparse
      BY <2>2 DEF VodInv, VodPace
    <3>2. phase' + p <= 0
      BY <2>2
    <3>a. /\ lead' = lead + p - vodSent.pts
          /\ sparse \/ p - vodSent.pts > MaxWait => sparse'
      BY <1>1, <2>2
    <3>b. sparse \/ (lead + p - vodSent.pts <= phase + p /\ (phase + p < 0 => lead + p - vodSent.pts <= 0))
      BY <1>2, <1>3, <3>1, LeadOfTheNext
    <3>3. CASE phase' = phase
      <4>1. lead' <= phase' + p \/ sparse'
        BY <3>a, <3>b, <3>3
      <4> QED
        BY <1>1, <1>2, <1>3, <1>4, <2>2, <3>2, <3>3, <4>1 DEF VodPace
    <3>4. CASE phase' = -p /\ phase + p \notin 0 .. MaxWait
      <4>1. CASE phase + p < 0
        <5>1. lead' <= 0 \/ sparse'
          BY <3>a, <3>b, <4>1
        <5> QED
          BY <1>1, <1>2, <1>3, <1>4, <2>2, <3>2, <3>4, <5>1 DEF VodPace
      <4>2. CASE phase + p > MaxWait
        <5>1. sparse'
          BY <1>2, <1>3, <3>1, <3>a, <4>2, GapOfTheNext
        <5> QED
          BY <1>1, <1>2, <3>2, <3>4, <5>1 DEF VodPace
      <4> QED
        BY <1>2, <1>3, <3>4, <4>1, <4>2
    <3> QED
      BY <2>2, <3>3, <3>4
  <2>3. CASE st = "over"
    BY <2>3 DEF VodPace
  <2> QED
    BY <2>1, <2>2, <2>3
<1> QED
  BY <1>5, <1>6, <1>7, <1>8 DEF VodInv

LEMMA VodSends ==
  ASSUME VodInv, RF!Look \/ RF!Wake \/ RF!Leave
  PROVE  VodInv' /\ GoesForward
<1>1. /\ st' = st /\ vodFilm' = vodFilm /\ files' = files /\ file' = file /\ pos' = pos
      /\ age' = age /\ hand # <<>>
  BY DEF RF!Look, RF!Wake, RF!Leave, RF!reader, VodInv, VodShape
<1>2. CASE RF!Leave
  <2>1. /\ hand' = <<>> /\ nap = FALSE /\ nap' = nap /\ st = "over" /\ anchored' = anchored /\ phase' = phase
        /\ vodSent' = vodSent /\ lead' = lead /\ sparse' = sparse
    BY <1>2 DEF RF!Leave, RF!ghosts, VodInv, VodShape
  <2>2. ~Sending'
    BY <1>1, <2>1 DEF Sending
  <2>3. hand' \in Seq(Nat)
    BY <2>1
  <2> QED
    BY <1>1, <2>1, <2>2, <2>3 DEF VodInv, VodShape, VodPace, VodOrder, GoesForward
<1>3. CASE RF!Wake
  <2>1. /\ RF!Sends(Head(hand)) /\ anchored' = anchored /\ phase' = phase
        /\ phase + Head(hand) <= 0 \/ st = "over"
    BY <1>3 DEF RF!Wake
  <2> QED
    BY <1>1, <2>1, VodSendsOne DEF VodInv, VodShape
<1>4. CASE RF!Look
  <2>1. PICK p, from, w :
          p = Head(hand) /\ from = (IF anchored THEN phase ELSE -age - p) /\ w = from + p
    OBVIOUS
  <2>2. /\ p \in Nat /\ phase \in Int /\ age \in Nat /\ MaxLag \in Nat /\ MaxWait \in Nat
        /\ anchored \in BOOLEAN /\ st # "setup"
    <3>1. hand \in Seq(Nat)
      BY DEF VodInv, VodShape
    <3>2. Head(hand) \in Nat
      BY <1>1, <3>1, HeadTailProperties
    <3> QED
      BY <1>1, <2>1, <3>2, RtspFileAssumption DEF VodInv, VodShape, RF!RtspFileAssumption
  <2>3. /\ anchored' = TRUE
        /\ w \in -MaxLag .. MaxWait => phase' = from
        /\ w \notin -MaxLag .. MaxWait => phase' = -p
        /\ w \in -MaxLag .. MaxWait /\ w > 0 =>
             nap' = TRUE /\ UNCHANGED <<hand, vodSent, lead, sparse>>
        /\ ~(w \in -MaxLag .. MaxWait /\ w > 0) => RF!Sends(Head(hand))
    BY <1>4, <2>1 DEF RF!Look, RF!WaitFor, RF!ghosts
  <2>4. from \in Int /\ w \in Int /\ phase' \in Int
    BY <2>1, <2>2, <2>3
  <2>5. CASE w \in -MaxLag .. MaxWait /\ w > 0
    <3>1. anchored
      BY <2>1, <2>2, <2>5
    <3>2. /\ phase' = phase /\ nap' = TRUE /\ hand' = hand /\ vodSent' = vodSent /\ lead' = lead
          /\ sparse' = sparse /\ anchored' = anchored
      BY <2>1, <2>2, <2>3, <2>5, <3>1
    <3>3. VodShape'
      BY <1>1, <2>2, <3>2 DEF VodInv, VodShape, Sending
    <3>4. VodPace'
      BY <1>1, <3>2 DEF VodInv, VodPace
    <3>5. VodOrder'
      BY <1>1, <3>2 DEF VodInv, VodOrder, Sending
    <3> QED
      BY <3>2, <3>3, <3>4, <3>5 DEF VodInv, GoesForward
  <2>6. CASE ~(w \in -MaxLag .. MaxWait /\ w > 0)
    <3>1. RF!Sends(Head(hand)) /\ anchored' = TRUE
      BY <2>3, <2>6
    <3>2. ASSUME anchored
          PROVE  /\ phase' + Head(hand) <= 0
                 /\ \/ phase' = phase
                    \/ phase' = -Head(hand) /\ phase + Head(hand) \notin 0 .. MaxWait
      <4>1. CASE w \in -MaxLag .. MaxWait
        <5>1. phase' = phase /\ w = phase + p /\ w <= 0
          BY <2>1, <2>3, <2>4, <2>6, <3>2, <4>1
        <5> QED
          BY <2>1, <5>1
      <4>2. CASE w \notin -MaxLag .. MaxWait
        <5>1. phase' = -p /\ w = phase + p /\ w \notin 0 .. MaxWait
          BY <2>1, <2>2, <2>3, <2>4, <3>2, <4>2
        <5> QED
          BY <2>1, <2>2, <5>1
      <4> QED
        BY <4>1, <4>2
    <3>3. ~anchored => phase' = -Head(hand) \/ phase' = -age - Head(hand)
      BY <2>1, <2>3
    <3> QED
      BY <1>1, <2>4, <3>1, <3>2, <3>3, VodSendsOne
  <2> QED
    BY <2>5, <2>6
<1> QED
  BY <1>2, <1>3, <1>4

LEMMA VodTicks ==
  ASSUME VodInv, RF!Tick
  PROVE  VodInv' /\ vodSent' = vodSent
<1>1. /\ vodFilm' = vodFilm /\ files' = files /\ st' = st /\ file' = file /\ pos' = pos
      /\ anchored' = anchored /\ hand' = hand /\ nap' = nap
      /\ vodSent' = vodSent /\ sparse' = sparse
  BY DEF RF!Tick, RF!reader
<1>2. PICK floor \in Int : floor = -(MaxLag + MaxPts + 1)
  BY RtspFileAssumption DEF RF!RtspFileAssumption
<1>3. /\ phase \in Int /\ lead \in Int /\ age \in Nat /\ MaxLag \in Nat /\ floor < 0
      /\ vodSent.pts \in Nat /\ vodSent.pts <= MaxPts /\ MaxPts \in Nat
  BY <1>2, RtspFileAssumption DEF RF!RtspFileAssumption, VodInv, VodShape
<1>4. /\ phase' \in Int /\ lead' \in Int /\ age' \in Nat
      /\ lead' = IF lead - 1 < floor THEN floor ELSE lead - 1
      /\ anchored => phase' = IF phase - 1 < floor THEN floor ELSE phase - 1
  BY <1>2, <1>3 DEF RF!Tick, RF!AtLeast, RF!UpTo
<1>5. VodShape' /\ VodOrder'
  <2>1. VodShape'
    BY <1>1, <1>4 DEF VodInv, VodShape, Sending
  <2>2. VodOrder'
    BY <1>1 DEF VodInv, VodOrder, Sending, After
  <2> QED
    BY <2>1, <2>2
<1>6. VodPace'
  <2>1. ASSUME st # "over", anchored, lead <= phase + vodSent.pts
        PROVE  lead' <= phase' + vodSent.pts
    BY <1>3, <1>4, <2>1
  <2>2. ASSUME phase + vodSent.pts <= 0, anchored PROVE phase' + vodSent.pts <= 0
    <3>1. floor + vodSent.pts <= 0
      BY <1>2, <1>3
    <3> QED
      BY <1>2, <1>3, <1>4, <2>2, <3>1
  <2>3. lead <= 0 => lead' <= 0
    BY <1>3, <1>4
  <2> QED
    BY <1>1, <2>1, <2>2, <2>3 DEF VodInv, VodPace
<1> QED
  BY <1>1, <1>5, <1>6 DEF VodInv

LEMMA VodSteps ==
  ASSUME VodInv, RF!FileNext
  PROVE  VodInv' /\ GoesForward
<1>1. CASE RF!Record \/ RF!Rotate
  BY <1>1, VodRecords DEF GoesForward
<1>2. CASE RF!Describe(TRUE, Len(files))
  <2>1. Len(files) \in Nat
    BY DEF VodInv, VodShape
  <2> QED
    BY <1>2, <2>1, VodDescribes DEF GoesForward
<1>3. CASE \E f \in DOMAIN vodFilm : RF!Describe(FALSE, f)
  <2>1. DOMAIN vodFilm \subseteq Nat
    BY FilmFacts DEF VodInv, VodShape
  <2>2. PICK f \in Nat : RF!Describe(FALSE, f)
    BY <1>3, <2>1
  <2> QED
    BY <2>2, VodDescribes DEF GoesForward
<1>4. CASE RF!Setup \/ RF!Play \/ RF!Pause \/ RF!Teardown
  BY <1>4, VodPlays DEF GoesForward
<1>5. CASE RF!Pacer
  <2>1. CASE RF!ReadBlock
    BY <2>1, VodReadsBlock DEF GoesForward
  <2>2. CASE RF!ReadAgain \/ RF!SkipBad \/ RF!ReadEnd
    BY <2>2, VodReadsNothing DEF GoesForward
  <2>3. CASE RF!Look \/ RF!Wake \/ RF!Leave
    BY <2>3, VodSends
  <2> QED
    BY <1>5, <2>1, <2>2, <2>3 DEF RF!Pacer
<1>6. CASE RF!Tick
  BY <1>6, VodTicks DEF GoesForward
<1> QED
  BY <1>1, <1>2, <1>3, <1>4, <1>5, <1>6 DEF RF!FileNext

\* Whatever the recordings hold, their times going on: what a client was sent
\* since it began to play is never ahead of time, unless samples are further
\* apart than the pacer waits; and live from files nothing is sent twice or out
\* of order from one PLAY to the next.
THEOREM PacedAndOnward == Spec => RtspFileSafe
<1>1. Init => VodInv
  BY VodStarts
<1>2. VodInv /\ [Next]_vars => VodInv' /\ [GoesForward]_vodVars
  <2> SUFFICES ASSUME VodInv, [Next]_vars
               PROVE  VodInv' /\ [GoesForward]_vodVars
    OBVIOUS
  <2>1. CASE RFStep
    BY <2>1, VodSteps DEF RFStep
  <2>2. CASE vodVars' = vodVars
    BY <2>2, VodRests
  <2> QED
    BY <2>1, <2>2 DEF Next, vars, RMStep, DCStep, ONStep, PFStep, ALStep, SBStep, MOStep
<1>3. VodInv => RF!Paced
  BY DEF VodInv, VodPace, RF!Paced
<1>4. [GoesForward]_vodVars
      => [vodLive /\ vodLive' /\ vodSent' # RF!NotSent =>
            \/ vodSent' = vodSent \/ vodSent'.file > vodSent.file
            \/ vodSent'.file = vodSent.file /\ vodSent'.pts > vodSent.pts]_RF!fvars
  <2>1. RF!fvars' = RF!fvars \/ vodVars' # vodVars
    BY DEF vodVars, RF!fvars, RF!reader, RF!pacing, RF!ghosts
  <2> QED
    BY <2>1 DEF GoesForward
<1>5. Spec => []RF!Paced
  BY <1>1, <1>2, <1>3, PTL DEF Spec
<1>6. Spec => RF!Onward
  BY <1>1, <1>2, <1>4, PTL DEF Spec, RF!Onward
<1> QED
  BY <1>5, <1>6 DEF RtspFileSafe

-----------------------------------------------------------------------------
(* Onvif: a stop that went through stops *)

OrderInv ==
  /\ DOMAIN request = Threads /\ \A c \in Threads : "phase" \in DOMAIN request[c]
  /\ "moving" \in DOMAIN onvifCamera

StoppedBy(c) ==
  request[c].phase = "calls" /\ request'[c] = ON!Resting /\ seen'.does = "stop" /\ seen'.ok
  => onvifCamera'.moving = 0

\* Whatever the camera does not answer, an answer that is good means it stopped.
LEMMA OrderCalls ==
  ASSUME OrderInv, NEW c \in Threads, ON!Call(c)
  PROVE  OrderInv' /\ \A d \in Threads : StoppedBy(d)
<1>0. PICK clockRead \in BOOLEAN, answered \in BOOLEAN, again \in BOOLEAN :
        LET o == ON!Prepared(objects[request[c].holds], clockRead, answered)
            r == ON!Answer(request[c].does, o, answered, again)
        IN  /\ onvifCamera' = [onvifCamera EXCEPT !.moving = r.moving]
            /\ seen' = [does |-> request[c].does, ok |-> r.ok,
                        late |-> answered /\ o.ready /\ o.delta # onvifCamera.offset]
  BY DEF ON!Call
<1>1. PICK o, r :
        /\ r = ON!Answer(request[c].does, o, answered, again)
        /\ onvifCamera' = [onvifCamera EXCEPT !.moving = r.moving]
        /\ seen' = [does |-> request[c].does, ok |-> r.ok,
                    late |-> answered /\ o.ready /\ o.delta # onvifCamera.offset]
  BY <1>0, Zenon
<1>2. request' = [request EXCEPT ![c] = ON!Resting]
  BY DEF ON!Call
<1>3. OrderInv'
  BY <1>1, <1>2 DEF OrderInv, ON!Resting
<1>4. onvifCamera'.moving = r.moving /\ seen'.does = request[c].does /\ seen'.ok = r.ok
  BY <1>1 DEF OrderInv
<1>5. ASSUME NEW d \in Threads, request[d].phase = "calls", request'[d] = ON!Resting,
             seen'.does = "stop", seen'.ok
      PROVE  onvifCamera'.moving = 0
  <2>1. o.ready /\ r = ON!Halts(o, answered, again)
    <3>1. r.ok /\ request[c].does = "stop"
      BY <1>4, <1>5
    <3>2. ~o.ready => r = [ok |-> FALSE, client |-> o, moving |-> onvifCamera.moving]
      BY <1>1 DEF ON!Answer, ON!Refused
    <3>3. o.ready
      BY <3>1, <3>2
    <3> QED
      BY <1>1, <3>1, <3>3 DEF ON!Answer
  <2>2. r.ok => r.moving = 0
    BY <2>1 DEF ON!Halts
  <2> QED
    BY <1>4, <1>5, <2>2
<1> QED
  BY <1>3, <1>5 DEF StoppedBy

LEMMA OrderSteps ==
  ASSUME OrderInv, ON!OnvifNext
  PROVE  OrderInv' /\ \A d \in Threads : StoppedBy(d)
<1>1. CASE ON!SetClock \/ ON!Goes \/ ON!SaveRegister \/ ON!Forget
  <2>1. request' = request /\ OrderInv'
    BY <1>1 DEF OrderInv, ON!SetClock, ON!Goes, ON!SaveRegister, ON!Forget
  <2> QED
    BY <2>1 DEF StoppedBy, ON!Resting
<1>2. ASSUME NEW c \in Threads, ON!Ask(c) \/ ON!Make(c)
      PROVE  OrderInv' /\ \A d \in Threads : StoppedBy(d)
  <2>1. /\ OrderInv' /\ request'[c].phase \in {"calls", "makes"}
        /\ \A d \in Threads \ {c} : request'[d] = request[d]
    <3>1. CASE ON!Ask(c)
      BY <3>1 DEF OrderInv, ON!Ask
    <3>2. CASE ON!Make(c)
      BY <3>2 DEF OrderInv, ON!Make
    <3> QED
      BY <1>2, <3>1, <3>2
  <2> QED
    BY <2>1 DEF StoppedBy, ON!Resting
<1> QED
  BY <1>1, <1>2, OrderCalls DEF ON!OnvifNext

\* Whichever of the two ways the camera is stopped, and whatever went without an
\* answer before: a stop that was answered as done left the camera still.
THEOREM StopMeansStill == Spec => StopStops
<1>1. Init => OrderInv
  BY DEF Init, ON!OnvifInit, OrderInv, ON!Resting
<1>2. OrderInv /\ [Next]_vars => OrderInv' /\ [\A d \in Threads : StoppedBy(d)]_onvifVars
  <2> SUFFICES ASSUME OrderInv, [Next]_vars
               PROVE  OrderInv' /\ [\A d \in Threads : StoppedBy(d)]_onvifVars
    OBVIOUS
  <2>1. CASE ONStep
    BY <2>1, OrderSteps DEF ONStep
  <2>2. CASE onvifVars' = onvifVars
    BY <2>2 DEF onvifVars, OrderInv
  <2> QED
    BY <2>1, <2>2 DEF Next, vars, RMStep, DCStep, RFStep, PFStep, ALStep, SBStep, MOStep
<1>3. [\A d \in Threads : StoppedBy(d)]_onvifVars
      => [\A c \in Threads :
            request[c].phase = "calls" /\ request'[c] = ON!Resting /\ seen'.does = "stop" /\ seen'.ok
            => onvifCamera'.moving = 0]_ON!nvars
  BY DEF StoppedBy, onvifVars, ON!nvars
<1> QED
  BY <1>1, <1>2, <1>3, PTL DEF Spec, StopStops, ON!StopStops

-----------------------------------------------------------------------------
(* RtpMedia: what no fault touched comes whole, once and in order *)

\* The argument follows the pieces: each is in one packet, or in what the
\* depacketizer has, or in one sample. A unit no fault touched is in the
\* network, piece behind piece; or its first pieces were fed and are all the
\* depacketizer has, and the next one leads the network; or it is out. So what
\* the depacketizer joins, if it has nothing of a unit touched, is that unit.

\* A packet, of what it may carry.
Packs == [form : {"single", "fragment"}, pieces : Seq(Nat \X Nat),
          start : BOOLEAN, end : BOOLEAN, marker : BOOLEAN]

\* The packet of the unit's piece i, and that of two units that fit.
Carries(p, u, i) ==
  /\ p.pieces = <<RM!Piece(u, i)>>
  /\ p.form = IF rtpCodec = "raw" \/ (rtpCodec = "nal" /\ Units[u] = 1)
              THEN "single" ELSE "fragment"
  /\ p.start = (i = 1) /\ p.end = (i = Units[u])
  /\ p.marker => i = Units[u]
  /\ rtpCodec # "nal" => p.marker = (i = Units[u])

Joins(p, u) ==
  /\ rtpCodec = "nal" /\ p.form = "single"
  /\ Units[u] = 1 /\ Units[u + 1] = 1
  /\ p.pieces = <<RM!Piece(u, 1), RM!Piece(u + 1, 1)>>

Fits(p, s) ==
  \/ \E u \in 1 .. s : \E i \in 1 .. Units[u] : Carries(p, u, i)
  \/ \E u \in 1 .. (s - 1) : Joins(p, u)

\* The members of a sequence.
In(q) == {q[i] : i \in DOMAIN q}

\* The packets F in the network, of the first s units, and what came of others.
Sent(F, s) ==
  /\ s \in 0 .. Len(Units)
  /\ F \in Seq(Packs) /\ \A a \in DOMAIN F : Fits(F[a], s)

Came(s) ==
  /\ parts \in Seq(Nat \X Nat) /\ started \in BOOLEAN
  /\ rtpOut \in Seq(Seq(Nat \X Nat))
  /\ \A x \in In(parts) : x[1] <= s
  /\ \A j \in DOMAIN rtpOut : rtpOut[j] # <<>> /\ \A x \in In(rtpOut[j]) : x[1] <= s

\* A piece is in one place only.
Once(F) ==
  /\ \A a, b \in DOMAIN F : a # b => In(F[a].pieces) \cap In(F[b].pieces) = {}
  /\ \A a \in DOMAIN F : In(F[a].pieces) \cap In(parts) = {}
  /\ \A a \in DOMAIN F : \A j \in DOMAIN rtpOut : In(F[a].pieces) \cap In(rtpOut[j]) = {}

OnceOut ==
  /\ \A j \in DOMAIN rtpOut : In(parts) \cap In(rtpOut[j]) = {}
  /\ \A i, j \in DOMAIN rtpOut : i # j => In(rtpOut[i]) \cap In(rtpOut[j]) = {}

\* A unit no fault has touched: all of it in the network, its first m pieces
\* delivered, or all of them.
Away(F, u) ==
  \E k \in Nat : \A i \in 1 .. Units[u] :
    k + i \in DOMAIN F /\ RM!Piece(u, i) \in In(F[k + i].pieces)

Follow(F, u, m) ==
  /\ m \in 1 .. (Units[u] - 1)
  /\ \A i \in (m + 1) .. Units[u] :
       i - m \in DOMAIN F /\ RM!Piece(u, i) \in In(F[i - m].pieces)

Had(u, m) ==
  IF rtpCodec = "raw" THEN \A i \in 1 .. m : <<RM!Piece(u, i)>> \in In(rtpOut)
  ELSE started /\ parts = [i \in 1 .. m |-> RM!Piece(u, i)]

Under(F, u, m) == Follow(F, u, m) /\ Had(u, m)

Home(u) ==
  IF rtpCodec = "raw" THEN \A i \in 1 .. Units[u] : <<RM!Piece(u, i)>> \in In(rtpOut)
  ELSE RM!Whole(u) \in In(rtpOut)

Goes(F, u) == Away(F, u) \/ (\E m \in Nat : Under(F, u, m)) \/ Home(u)

Unhurt(s) == (1 .. s) \ hurt

\* A sample is a unit or has a piece of one touched.
Explained(s) ==
  rtpCodec # "raw" =>
    \A j \in DOMAIN rtpOut : \/ \E u \in 1 .. s : rtpOut[j] = RM!Whole(u)
                             \/ \E x \in In(rtpOut[j]) : x[1] \in hurt

\* With no fault, all goes on in order.
Ordered(F) ==
  hurt = {} =>
    /\ \A i, j \in DOMAIN rtpOut : i < j => rtpOut[i][1][1] <= rtpOut[j][1][1]
    /\ \A j \in DOMAIN rtpOut, a \in DOMAIN F :
         \A x \in In(F[a].pieces) : rtpOut[j][1][1] <= x[1]
    /\ \A a, b \in DOMAIN F : a < b =>
         \A x \in In(F[a].pieces), y \in In(F[b].pieces) : x[1] <= y[1]

RtpSound(F, s) ==
  /\ rtpCodec \in {"nal", "jpeg", "raw"}
  /\ Sent(F, s) /\ Came(s) /\ Once(F) /\ OnceOut
  /\ \A u \in Unhurt(s) : Goes(F, u)
  /\ Explained(s) /\ Ordered(F)

RtpInv == RtpSound(flight, rtpSent)

\* A unit has a piece.
LEMMA UnitLong ==
  ASSUME NEW u \in 1 .. Len(Units)
  PROVE  Units[u] \in Nat /\ Units[u] >= 1
  BY RtpAssumption DEF RM!RtpAssumption

\* What is in a packet.
LEMMA PacketHas ==
  ASSUME NEW s \in 0 .. Len(Units), NEW p, Fits(p, s)
  PROVE  /\ In(p.pieces) # {}
         /\ \A x \in In(p.pieces) :
              \E u \in 1 .. s : \E i \in 1 .. Units[u] :
                /\ x = RM!Piece(u, i) /\ x[1] = u
                /\ \/ Carries(p, u, i)
                   \/ rtpCodec = "nal" /\ p.form = "single" /\ Units[u] = 1
<1>1. CASE \E u \in 1 .. s : \E i \in 1 .. Units[u] : Carries(p, u, i)
  <2>1. PICK u \in 1 .. s : \E i \in 1 .. Units[u] : Carries(p, u, i)
    BY <1>1
  <2>2. PICK i \in 1 .. Units[u] : Carries(p, u, i)
    BY <2>1
  <2>3. In(p.pieces) = {RM!Piece(u, i)}
    BY <2>2 DEF Carries, In
  <2>4. RM!Piece(u, i)[1] = u
    BY DEF RM!Piece
  <2> QED
    BY <2>2, <2>3, <2>4
<1>2. CASE \E u \in 1 .. (s - 1) : Joins(p, u)
  <2>1. PICK u \in 1 .. (s - 1) : Joins(p, u)
    BY <1>2
  <2>2. In(p.pieces) = {RM!Piece(u, 1), RM!Piece(u + 1, 1)}
    BY <2>1 DEF Joins, In
  <2>3. u \in 1 .. s /\ u + 1 \in 1 .. s /\ 1 \in 1 .. Units[u] /\ 1 \in 1 .. Units[u + 1]
    BY <2>1 DEF Joins
  <2>4. \A v : RM!Piece(v, 1)[1] = v
    BY DEF RM!Piece
  <2> QED
    BY <2>1, <2>2, <2>3, <2>4 DEF Joins
<1> QED
  BY <1>1, <1>2 DEF Fits

\* What is left of a sequence without its first member.
LEMMA TailOf ==
  ASSUME NEW S, NEW F \in Seq(S), F # <<>>
  PROVE  /\ Tail(F) \in Seq(S) /\ Head(F) = F[1]
         /\ Len(F) \in Nat /\ Len(F) >= 1 /\ DOMAIN F = 1 .. Len(F) /\ 1 \in DOMAIN F
         /\ DOMAIN Tail(F) = 1 .. (Len(F) - 1)
         /\ \A a \in DOMAIN Tail(F) : a + 1 \in DOMAIN F /\ Tail(F)[a] = F[a + 1]
<1>1. Len(F) \in Nat /\ DOMAIN F = 1 .. Len(F) /\ Len(F) >= 1
  BY LenProperties, EmptySeq
<1>2. Tail(F) \in Seq(S) /\ Len(Tail(F)) = Len(F) - 1 /\ \A a \in 1 .. Len(Tail(F)) : Tail(F)[a] = F[a + 1]
  BY HeadTailProperties
<1>3. Head(F) = F[1]
  OBVIOUS
<1>4. DOMAIN Tail(F) = 1 .. (Len(F) - 1)
  BY <1>2, LenProperties
<1> QED
  BY <1>1, <1>2, <1>3, <1>4

\* G is F and, behind it, the packets of the units from s + 1 to t.
New(F, G) == (Len(F) + 1) .. Len(G)
Behind(F, s, G, t) ==
  /\ t \in s .. Len(Units) /\ G \in Seq(Packs) /\ Len(G) >= Len(F)
  /\ \A a \in DOMAIN F : G[a] = F[a]
  /\ \A a \in New(F, G) : Fits(G[a], t) /\ \A x \in In(G[a].pieces) : x[1] > s
  /\ \A a, b \in New(F, G) : a # b => In(G[a].pieces) \cap In(G[b].pieces) = {}
  /\ \A a, b \in New(F, G) : a < b =>
       \A x \in In(G[a].pieces), y \in In(G[b].pieces) : x[1] <= y[1]
  /\ \A u \in (s + 1) .. t : Away(G, u)

LEMMA Grown ==
  ASSUME NEW F, NEW s, RtpSound(F, s), NEW G, NEW t, Behind(F, s, G, t)
  PROVE  RtpSound(G, t)
<1> PICK N : N = New(F, G)
  OBVIOUS
<1>0. /\ t \in s .. Len(Units) /\ G \in Seq(Packs) /\ Len(G) >= Len(F)
      /\ N = (Len(F) + 1) .. Len(G) /\ \A a \in DOMAIN F : G[a] = F[a]
      /\ \A a \in N : Fits(G[a], t) /\ \A x \in In(G[a].pieces) : x[1] > s
      /\ \A a, b \in N : a # b => In(G[a].pieces) \cap In(G[b].pieces) = {}
      /\ \A a, b \in N : a < b => \A x \in In(G[a].pieces), y \in In(G[b].pieces) : x[1] <= y[1]
      /\ \A u \in (s + 1) .. t : Away(G, u)
  BY DEF Behind, New
<1> USE <1>0
<1>1. /\ s \in 0 .. Len(Units) /\ Len(Units) \in Nat /\ F \in Seq(Packs)
      /\ \A a \in DOMAIN F : Fits(F[a], s)
  BY RtpAssumption DEF RtpSound, Sent, RM!RtpAssumption
<1>2. /\ Len(F) \in Nat /\ DOMAIN F = 1 .. Len(F) /\ Len(G) \in Nat /\ DOMAIN G = 1 .. Len(G)
      /\ DOMAIN G = DOMAIN F \cup N /\ DOMAIN F \cap N = {}
  <2>1. Len(F) \in Nat /\ DOMAIN F = 1 .. Len(F) /\ Len(G) \in Nat /\ DOMAIN G = 1 .. Len(G)
    BY <1>1, LenProperties
  <2> QED
    BY <2>1
<1>3. t \in Nat /\ s \in Nat /\ s <= t /\ t \in 0 .. Len(Units)
  BY <1>1
<1>4. \A a \in DOMAIN F : \A x \in In(F[a].pieces) : x[1] \in Nat /\ x[1] <= s
  BY <1>1, PacketHas
<1>5. \A a \in N : \A x \in In(G[a].pieces) : x[1] \in Nat /\ x[1] > s
  BY <1>3, PacketHas
<1>6. Sent(G, t)
  <2>1. \A p : Fits(p, s) => Fits(p, t)
    BY <1>3 DEF Fits
  <2> QED
    BY <1>1, <1>2, <1>3, <2>1 DEF Sent
<1>7. Came(t)
  <2>1. Came(s)
    BY DEF RtpSound
  <2>2. \A x \in Nat : x <= s => x <= t
    BY <1>3
  <2>3. \A x \in In(parts) : x[1] \in Nat
    BY <2>1 DEF Came, In
  <2>4. \A j \in DOMAIN rtpOut : \A x \in In(rtpOut[j]) : x[1] \in Nat
    <3>1. \A j \in DOMAIN rtpOut : rtpOut[j] \in Seq(Nat \X Nat)
      BY <2>1 DEF Came
    <3> QED
      BY <3>1 DEF In
  <2> QED
    BY <2>1, <2>2, <2>3, <2>4 DEF Came
<1>8. Once(G)
  <2>1. Once(F) /\ Came(s)
    BY DEF RtpSound
  <2>2. \A a, b \in DOMAIN G : a # b => In(G[a].pieces) \cap In(G[b].pieces) = {}
    <3> SUFFICES ASSUME NEW a \in DOMAIN G, NEW b \in DOMAIN G, a # b,
                        NEW x \in In(G[a].pieces), x \in In(G[b].pieces)
                 PROVE  FALSE
      OBVIOUS
    <3>1. CASE a \in DOMAIN F /\ b \in DOMAIN F
      BY <2>1, <3>1 DEF Once
    <3>2. CASE a \in N /\ b \in N
      BY <3>2
    <3>3. ~((a \in DOMAIN F \/ b \in DOMAIN F) /\ (a \in N \/ b \in N))
      <4>1. a \in DOMAIN F \/ b \in DOMAIN F => x[1] \in Nat /\ x[1] <= s
        BY <1>4
      <4>2. a \in N \/ b \in N => x[1] \in Nat /\ x[1] > s
        BY <1>5
      <4> QED
        BY <1>3, <4>1, <4>2
    <3> QED
      BY <1>2, <3>1, <3>2, <3>3
  <2>3. \A a \in DOMAIN G : In(G[a].pieces) \cap In(parts) = {}
    <3> SUFFICES ASSUME NEW a \in DOMAIN G, NEW x \in In(G[a].pieces), x \in In(parts)
                 PROVE  FALSE
      OBVIOUS
    <3>1. CASE a \in DOMAIN F
      BY <2>1, <3>1 DEF Once
    <3>2. CASE a \in N
      <4>1. x[1] <= s
        BY <2>1 DEF Came
      <4> QED
        BY <1>3, <1>5, <3>2, <4>1
    <3> QED
      BY <1>2, <3>1, <3>2
  <2>4. \A a \in DOMAIN G : \A j \in DOMAIN rtpOut : In(G[a].pieces) \cap In(rtpOut[j]) = {}
    <3> SUFFICES ASSUME NEW a \in DOMAIN G, NEW j \in DOMAIN rtpOut,
                        NEW x \in In(G[a].pieces), x \in In(rtpOut[j])
                 PROVE  FALSE
      OBVIOUS
    <3>1. CASE a \in DOMAIN F
      BY <2>1, <3>1 DEF Once
    <3>2. CASE a \in N
      <4>1. x[1] <= s
        BY <2>1 DEF Came
      <4> QED
        BY <1>3, <1>5, <3>2, <4>1
    <3> QED
      BY <1>2, <3>1, <3>2
  <2> QED
    BY <2>2, <2>3, <2>4 DEF Once
<1>9. \A u, m : Under(F, u, m) => Under(G, u, m)
  BY <1>2 DEF Under, Follow
<1>10. \A u : Away(F, u) => Away(G, u)
  <2> SUFFICES ASSUME NEW u, Away(F, u) PROVE Away(G, u)
    OBVIOUS
  <2>1. PICK k \in Nat : \A i \in 1 .. Units[u] :
          k + i \in DOMAIN F /\ RM!Piece(u, i) \in In(F[k + i].pieces)
    BY DEF Away
  <2>2. \A i \in 1 .. Units[u] : k + i \in DOMAIN G /\ RM!Piece(u, i) \in In(G[k + i].pieces)
    BY <1>2, <2>1
  <2> QED
    BY <2>2 DEF Away
<1>11. \A u \in Unhurt(t) : Goes(G, u)
  <2>1. \A u \in Unhurt(s) : Goes(F, u)
    BY DEF RtpSound
  <2>2. \A u \in Unhurt(t) : u \in Unhurt(s) \/ u \in (s + 1) .. t
    BY <1>3 DEF Unhurt
  <2> QED
    BY <1>9, <1>10, <2>1, <2>2 DEF Goes
<1>13. Explained(t)
  <2>1. Explained(s) /\ \A u \in 1 .. s : u \in 1 .. t
    BY <1>3 DEF RtpSound
  <2> QED
    BY <2>1 DEF Explained
<1>14. Ordered(G)
  <2>1. Ordered(F) /\ Came(s)
    BY DEF RtpSound
  <2> SUFFICES ASSUME hurt = {} PROVE Ordered(G)
    BY DEF Ordered
  <2>2. \A j \in DOMAIN rtpOut, a \in DOMAIN G : \A x \in In(G[a].pieces) : rtpOut[j][1][1] <= x[1]
    <3> SUFFICES ASSUME NEW j \in DOMAIN rtpOut, NEW a \in DOMAIN G, NEW x \in In(G[a].pieces)
                 PROVE  rtpOut[j][1][1] <= x[1]
      OBVIOUS
    <3>1. CASE a \in DOMAIN F
      BY <2>1, <3>1 DEF Ordered
    <3>2. CASE a \in N
      <4>1. rtpOut[j] \in Seq(Nat \X Nat) /\ rtpOut[j] # <<>>
        BY <2>1 DEF Came
      <4>2. 1 \in DOMAIN rtpOut[j] /\ rtpOut[j][1] \in Nat \X Nat
        BY <4>1
      <4>3. rtpOut[j][1] \in In(rtpOut[j])
        BY <4>2 DEF In
      <4>4. rtpOut[j][1][1] <= s /\ rtpOut[j][1][1] \in Nat
        BY <2>1, <4>2, <4>3 DEF Came
      <4> QED
        BY <1>3, <1>5, <3>2, <4>4
    <3> QED
      BY <1>2, <3>1, <3>2
  <2>3. \A a, b \in DOMAIN G : a < b => \A x \in In(G[a].pieces), y \in In(G[b].pieces) : x[1] <= y[1]
    <3> SUFFICES ASSUME NEW a \in DOMAIN G, NEW b \in DOMAIN G, a < b,
                        NEW x \in In(G[a].pieces), NEW y \in In(G[b].pieces)
                 PROVE  x[1] <= y[1]
      OBVIOUS
    <3>1. CASE a \in DOMAIN F /\ b \in DOMAIN F
      BY <2>1, <3>1 DEF Ordered
    <3>2. CASE a \in N
      BY <1>2, <3>2
    <3>3. CASE a \in DOMAIN F /\ b \in N
      BY <1>3, <1>4, <1>5, <3>3
    <3> QED
      BY <1>2, <3>1, <3>2, <3>3
  <2> QED
    BY <2>1, <2>2, <2>3 DEF Ordered
<1> QED
  BY <1>6, <1>7, <1>8, <1>11, <1>13, <1>14 DEF RtpSound

LEMMA UnitsIn ==
  ASSUME NEW p \in Packs
  PROVE  RM!UnitsOf(p) = {x[1] : x \in In(p.pieces)}
<1>1. p.pieces \in Seq(Nat \X Nat)
  BY DEF Packs
<1>2. DOMAIN p.pieces = 1 .. Len(p.pieces)
  BY <1>1
<1> QED
  BY <1>2 DEF In, RM!UnitsOf

\* A fault that touches the units of the first packet leaves the others theirs.
LEMMA Disturbed ==
  ASSUME RtpInv, flight # <<>>, flight' \in Seq(Packs),
         NEW w, \A a \in DOMAIN flight' : w[a] \in DOMAIN flight /\ flight'[a] = flight[w[a]],
         \A a, b \in DOMAIN flight' : a # b => w[a] # w[b],
         UNCHANGED <<rtpCodec, rtpSent, started, parts, rtpOut>>,
         hurt \cup RM!UnitsOf(flight[1]) \subseteq hurt',
         \A u \in Unhurt(rtpSent)' : Away(flight, u) => Away(flight, u)'
  PROVE  RtpInv'
<1>1. RtpSound(flight, rtpSent)
  BY DEF RtpInv
<1>2. /\ rtpCodec' = rtpCodec /\ rtpSent' = rtpSent /\ started' = started
      /\ parts' = parts /\ rtpOut' = rtpOut /\ hurt \subseteq hurt'
  OBVIOUS
<1>3. /\ rtpSent \in 0 .. Len(Units) /\ flight \in Seq(Packs)
      /\ \A a \in DOMAIN flight : Fits(flight[a], rtpSent)
  BY <1>1 DEF RtpSound, Sent
<1>4. 1 \in DOMAIN flight /\ flight[1] \in Packs
  BY <1>3, TailOf
<1>5. \A x \in In(flight[1].pieces) : x[1] \in hurt'
  BY <1>4, UnitsIn
<1>6. hurt' # {}
  BY <1>3, <1>4, <1>5, PacketHas
<1>7. Sent(flight, rtpSent)'
  <2>1. \A p : Fits(p, rtpSent) => Fits(p, rtpSent)'
    BY <1>2 DEF Fits, Carries, Joins
  <2>2. \A a \in DOMAIN flight' : Fits(flight'[a], rtpSent)
    BY <1>3
  <2> QED
    BY <1>2, <1>3, <2>1, <2>2 DEF Sent
<1>8. Came(rtpSent)'
  BY <1>1, <1>2 DEF RtpSound, Came
<1>9. Once(flight)'
  <2>1. Once(flight)
    BY <1>1 DEF RtpSound
  <2>2. \A a, b \in DOMAIN flight' : a # b => In(flight'[a].pieces) \cap In(flight'[b].pieces) = {}
    <3> SUFFICES ASSUME NEW a \in DOMAIN flight', NEW b \in DOMAIN flight', a # b
                 PROVE  In(flight'[a].pieces) \cap In(flight'[b].pieces) = {}
      OBVIOUS
    <3>1. /\ w[a] \in DOMAIN flight /\ w[b] \in DOMAIN flight /\ w[a] # w[b]
          /\ flight'[a] = flight[w[a]] /\ flight'[b] = flight[w[b]]
      OBVIOUS
    <3>2. In(flight[w[a]].pieces) \cap In(flight[w[b]].pieces) = {}
      BY <2>1, <3>1 DEF Once
    <3> QED
      BY <3>1, <3>2
  <2>3. \A a \in DOMAIN flight' : In(flight'[a].pieces) \cap In(parts) = {}
    BY <2>1 DEF Once
  <2>4. \A a \in DOMAIN flight' : \A j \in DOMAIN rtpOut : In(flight'[a].pieces) \cap In(rtpOut[j]) = {}
    BY <2>1 DEF Once
  <2> QED
    BY <1>2, <2>2, <2>3, <2>4 DEF Once
<1>10. OnceOut'
  BY <1>1, <1>2 DEF RtpSound, OnceOut
<1>11. \A u \in Nat, m \in Nat : Under(flight, u, m) => u \in hurt' \/ u \notin 1 .. rtpSent
  <2> SUFFICES ASSUME NEW u \in 1 .. rtpSent, NEW m \in Nat, Under(flight, u, m) PROVE u \in hurt'
    OBVIOUS
  <2>1. u \in 1 .. Len(Units) /\ Units[u] \in Nat
    BY <1>3, UnitLong
  <2>2. m + 1 \in (m + 1) .. Units[u]
    BY <2>1 DEF Under, Follow
  <2>3. RM!Piece(u, m + 1) \in In(flight[1].pieces)
    BY <2>2 DEF Under, Follow
  <2>4. RM!Piece(u, m + 1)[1] = u
    BY DEF RM!Piece
  <2> QED
    BY <1>5, <2>3, <2>4
<1>12. ASSUME NEW u \in Unhurt(rtpSent)' PROVE Goes(flight, u)'
  <2>1. u \in Unhurt(rtpSent) /\ u \in Nat /\ u \in 1 .. rtpSent /\ u \notin hurt'
    BY <1>2, <1>3 DEF Unhurt
  <2>2. Goes(flight, u)
    BY <1>1, <2>1 DEF RtpSound
  <2>3. Away(flight, u) \/ Home(u)
    BY <1>11, <2>1, <2>2 DEF Goes
  <2>4. Home(u) => Home(u)'
    BY <1>2 DEF Home
  <2> QED
    BY <2>3, <2>4 DEF Goes
<1>14. Explained(rtpSent)'
  BY <1>1, <1>2 DEF RtpSound, Explained
<1>15. Ordered(flight)'
  BY <1>6 DEF Ordered
<1> QED
  BY <1>1, <1>2, <1>7, <1>8, <1>9, <1>10, <1>12, <1>14, <1>15 DEF RtpInv, RtpSound

LEMMA PacketLost ==
  ASSUME RtpInv, RM!Lose
  PROVE  RtpInv'
<1>1. flight \in Seq(Packs) /\ rtpSent \in 0 .. Len(Units)
  BY DEF RtpInv, RtpSound, Sent
<1>2. /\ flight # <<>> /\ flight' = Tail(flight) /\ hurt' = hurt \cup RM!UnitsOf(Head(flight))
      /\ UNCHANGED <<rtpCodec, rtpSent, started, parts, rtpOut>>
  BY DEF RM!Lose
<1>3. /\ flight' \in Seq(Packs) /\ Head(flight) = flight[1] /\ 1 \in DOMAIN flight
      /\ Len(flight) \in Nat /\ DOMAIN flight = 1 .. Len(flight)
      /\ DOMAIN flight' = 1 .. (Len(flight) - 1)
      /\ \A a \in DOMAIN flight' : a + 1 \in DOMAIN flight /\ flight'[a] = flight[a + 1]
  BY <1>1, <1>2, TailOf
<1>4. PICK w : w = [a \in Nat |-> a + 1]
  OBVIOUS
<1>5. \A a \in DOMAIN flight' : w[a] = a + 1
  BY <1>3, <1>4
<1>6. ASSUME NEW u \in Unhurt(rtpSent)', Away(flight, u)
      PROVE  Away(flight, u)'
  <2>1. u \in 1 .. Len(Units) /\ Units[u] \in Nat /\ Units[u] >= 1 /\ u \notin hurt'
    BY <1>1, <1>2, UnitLong DEF Unhurt
  <2>2. PICK k \in Nat : \A i \in 1 .. Units[u] :
          k + i \in DOMAIN flight /\ RM!Piece(u, i) \in In(flight[k + i].pieces)
    BY <1>6 DEF Away
  <2>3. k # 0
    <3> SUFFICES ASSUME k = 0 PROVE FALSE
      OBVIOUS
    <3>1. RM!Piece(u, 1) \in In(flight[1].pieces)
      BY <2>1, <2>2
    <3>2. RM!Piece(u, 1)[1] = u /\ flight[1] \in Packs
      BY <1>1, <1>3 DEF RM!Piece
    <3> QED
      BY <1>2, <1>3, <2>1, <3>1, <3>2, UnitsIn
  <2>4. PICK l \in Nat : l = k - 1
    BY <2>3
  <2>5. \A i \in 1 .. Units[u] :
          l + i \in DOMAIN flight' /\ RM!Piece(u, i) \in In(flight'[l + i].pieces)
    <3> TAKE i \in 1 .. Units[u]
    <3>1. k + i \in DOMAIN flight /\ RM!Piece(u, i) \in In(flight[k + i].pieces)
      BY <2>2
    <3>2. l + i \in DOMAIN flight' /\ (l + i) + 1 = k + i
      BY <1>3, <2>1, <2>4, <3>1
    <3> QED
      BY <1>3, <3>1, <3>2
  <2> QED
    BY <2>5 DEF Away
<1>7. \A a, b \in DOMAIN flight' : a # b => w[a] # w[b]
  BY <1>3, <1>5
<1>8. \A a \in DOMAIN flight' : w[a] \in DOMAIN flight /\ flight'[a] = flight[w[a]]
  BY <1>3, <1>5
<1> QED
  BY <1>2, <1>3, <1>6, <1>7, <1>8, Disturbed

LEMMA PacketOvertaken ==
  ASSUME RtpInv, RM!Overtake
  PROVE  RtpInv'
<1>1. flight \in Seq(Packs) /\ rtpSent \in 0 .. Len(Units)
  BY DEF RtpInv, RtpSound, Sent
<1>2. /\ Len(flight) >= 2
      /\ hurt' = hurt \cup RM!UnitsOf(flight[1]) \cup RM!UnitsOf(flight[2])
      /\ flight' = [flight EXCEPT ![1] = flight[2], ![2] = flight[1]]
      /\ UNCHANGED <<rtpCodec, rtpSent, started, parts, rtpOut>>
  BY DEF RM!Overtake
<1>3. /\ Len(flight) \in Nat /\ DOMAIN flight = 1 .. Len(flight) /\ 1 \in DOMAIN flight /\ 2 \in DOMAIN flight
      /\ \A a \in DOMAIN flight : flight[a] \in Packs
  BY <1>1, <1>2, LenProperties
<1>4. /\ flight' \in Seq(Packs) /\ DOMAIN flight' = DOMAIN flight
      /\ flight'[1] = flight[2] /\ flight'[2] = flight[1]
      /\ \A a \in DOMAIN flight : a # 1 /\ a # 2 => flight'[a] = flight[a]
  <2>1. /\ [flight EXCEPT ![1] = flight[2]] \in Seq(Packs)
        /\ Len([flight EXCEPT ![1] = flight[2]]) = Len(flight)
    BY <1>1, <1>3, ExceptSeq
  <2>2. flight' \in Seq(Packs)
    BY <1>2, <1>3, <2>1, ExceptSeq
  <2> QED
    BY <1>2, <1>3, <2>2
<1>5. PICK w : w = [a \in Nat |-> IF a = 1 THEN 2 ELSE IF a = 2 THEN 1 ELSE a]
  OBVIOUS
<1>6. \A a \in DOMAIN flight' : w[a] = IF a = 1 THEN 2 ELSE IF a = 2 THEN 1 ELSE a
  BY <1>3, <1>4, <1>5
<1>7. ASSUME NEW u \in Unhurt(rtpSent)', Away(flight, u)
      PROVE  Away(flight, u)'
  <2>1. u \in 1 .. Len(Units) /\ Units[u] \in Nat /\ Units[u] >= 1 /\ u \notin hurt'
    BY <1>1, <1>2, UnitLong DEF Unhurt
  <2>2. PICK k \in Nat : \A i \in 1 .. Units[u] :
          k + i \in DOMAIN flight /\ RM!Piece(u, i) \in In(flight[k + i].pieces)
    BY <1>7 DEF Away
  <2>3. \A i \in 1 .. Units[u] : k + i # 1 /\ k + i # 2
    <3>1. \A i : RM!Piece(u, i)[1] = u
      BY DEF RM!Piece
    <3>2. \A x \in In(flight[1].pieces) \cup In(flight[2].pieces) : x[1] \in hurt'
      BY <1>2, <1>3, UnitsIn
    <3> QED
      BY <2>1, <2>2, <3>1, <3>2
  <2>4. \A i \in 1 .. Units[u] :
          k + i \in DOMAIN flight' /\ RM!Piece(u, i) \in In(flight'[k + i].pieces)
    BY <1>4, <2>2, <2>3
  <2> QED
    BY <2>4 DEF Away
<1>8. \A a, b \in DOMAIN flight' : a # b => w[a] # w[b]
  BY <1>6
<1>9. \A a \in DOMAIN flight' : w[a] \in DOMAIN flight /\ flight'[a] = flight[w[a]]
  BY <1>3, <1>4, <1>6
<1>10. /\ flight # <<>> /\ hurt \cup RM!UnitsOf(flight[1]) \subseteq hurt'
       /\ UNCHANGED <<rtpCodec, rtpSent, started, parts, rtpOut>>
  BY <1>2
<1>11. flight' \in Seq(Packs)
  BY <1>4
<1> QED
  BY <1>11, <1>7, <1>8, <1>9, <1>10, Disturbed

\* The invariant speaks of the packets and of what else there is apart.
LEMMA OnlyMore ==
  ASSUME RtpSound(flight', rtpSent'), UNCHANGED <<rtpCodec, hurt, started, parts, rtpOut>>
  PROVE  RtpInv'
<1>1. /\ rtpCodec' = rtpCodec /\ hurt' = hurt /\ started' = started
      /\ parts' = parts /\ rtpOut' = rtpOut
  OBVIOUS
<1>2. Sent(flight, rtpSent)' /\ Came(rtpSent)' /\ Once(flight)' /\ OnceOut'
  <2>1. \A p : Fits(p, rtpSent') => Fits(p, rtpSent)'
    BY <1>1 DEF Fits, Carries, Joins
  <2> QED
    BY <1>1, <2>1 DEF RtpSound, Sent, Came, Once, OnceOut
<1>3. \A u, m : Under(flight', u, m) => Under(flight, u, m)'
  BY <1>1 DEF Under, Follow, Had
<1>4. \A u \in Unhurt(rtpSent)' : Goes(flight, u)'
  <2>1. \A u \in Unhurt(rtpSent') : Goes(flight', u)
    BY DEF RtpSound
  <2>2. \A u : Goes(flight', u) => Goes(flight, u)'
    BY <1>1, <1>3 DEF Goes, Away, Home
  <2> QED
    BY <1>1, <2>1, <2>2 DEF Unhurt
<1>6. Explained(rtpSent)' /\ Ordered(flight)'
  BY <1>1 DEF RtpSound, Explained, Ordered
<1> QED
  BY <1>1, <1>2, <1>4, <1>6 DEF RtpInv, RtpSound

\* The packets of the next unit go behind the others.
LEMMA OneUnit ==
  ASSUME NEW F, NEW s, RtpSound(F, s), s + 1 <= Len(Units),
         NEW last \in BOOLEAN, last \/ rtpCodec = "nal"
  PROVE  RtpSound(F \o RM!Packets(s + 1, last), s + 1)
<1>1. /\ s \in 0 .. Len(Units) /\ Len(Units) \in Nat /\ F \in Seq(Packs)
      /\ rtpCodec \in {"nal", "jpeg", "raw"}
  BY RtpAssumption DEF RtpSound, Sent, RM!RtpAssumption
<1>2. PICK u, n : u = s + 1 /\ u \in 1 .. Len(Units) /\ n = Units[u] /\ n \in Nat /\ n >= 1
  <2>1. s + 1 \in 1 .. Len(Units)
    BY <1>1
  <2> QED
    BY <2>1, UnitLong
<1>3. PICK H : H = RM!Packets(s + 1, last)
  OBVIOUS
<1>4. \A i \in 1 .. n : /\ H[i] \in Packs /\ Carries(H[i], u, i)
                        /\ In(H[i].pieces) = {RM!Piece(u, i)}
  <2> TAKE i \in 1 .. n
  <2>1. H[i] = RM!Packet(u, i, last /\ i = Units[u])
    BY <1>2, <1>3 DEF RM!Packets
  <2>2. PICK q : q = <<RM!Piece(u, i)>> /\ q \in Seq(Nat \X Nat) /\ In(q) = {RM!Piece(u, i)}
    <3>1. u \in Nat /\ i \in Nat
      BY <1>2
    <3>2. RM!Piece(u, i) \in Nat \X Nat
      BY <3>1 DEF RM!Piece
    <3>3. PICK q : q = <<RM!Piece(u, i)>>
      OBVIOUS
    <3>4. q \in Seq(Nat \X Nat)
      BY <3>2, <3>3
    <3>5. In(q) = {RM!Piece(u, i)}
      BY <3>3 DEF In
    <3> QED
      BY <3>3, <3>4, <3>5
  <2>3. H[i] = [form |-> IF rtpCodec = "raw" \/ (rtpCodec = "nal" /\ Units[u] = 1)
                         THEN "single" ELSE "fragment",
                pieces |-> q, start |-> i = 1, end |-> i = Units[u],
                marker |-> last /\ i = Units[u]]
    BY <2>1, <2>2 DEF RM!Packet
  <2>4. H[i] \in Packs
    BY <2>2, <2>3 DEF Packs
  <2>5. Carries(H[i], u, i)
    <3>1. /\ H[i].pieces = <<RM!Piece(u, i)>>
          /\ H[i].form = IF rtpCodec = "raw" \/ (rtpCodec = "nal" /\ Units[u] = 1)
                         THEN "single" ELSE "fragment"
          /\ H[i].start = (i = 1) /\ H[i].end = (i = Units[u])
          /\ H[i].marker = (last /\ i = Units[u])
      BY <2>2, <2>3
    <3>2. /\ H[i].marker => i = Units[u]
          /\ rtpCodec # "nal" => H[i].marker = (i = Units[u])
      BY <3>1
    <3> QED
      BY <3>1, <3>2 DEF Carries
  <2> QED
    BY <2>2, <2>3, <2>4, <2>5
<1>5. H \in Seq(Packs) /\ Len(H) = n
  <2>1. H = [i \in 1 .. n |-> H[i]]
    BY <1>2, <1>3 DEF RM!Packets
  <2>2. H \in [1 .. n -> Packs]
    BY <1>4, <2>1
  <2> QED
    BY <1>2, <2>2
<1>6. PICK G : G = F \o H
  OBVIOUS
<1>7. /\ Len(F) \in Nat /\ DOMAIN F = 1 .. Len(F) /\ G \in Seq(Packs) /\ Len(G) = Len(F) + n
      /\ DOMAIN G = 1 .. (Len(F) + n)
      /\ \A a \in DOMAIN F : G[a] = F[a]
      /\ \A i \in 1 .. n : Len(F) + i \in DOMAIN G /\ G[Len(F) + i] = H[i]
  <2>1. Len(F) \in Nat /\ DOMAIN F = 1 .. Len(F)
    BY <1>1, LenProperties
  <2>2. G \in Seq(Packs) /\ Len(G) = Len(F) + n
        /\ \A i \in 1 .. (Len(F) + n) : G[i] = IF i <= Len(F) THEN F[i] ELSE H[i - Len(F)]
    BY <1>1, <1>5, <1>6, ConcatProperties
  <2>3. DOMAIN G = 1 .. (Len(F) + n)
    BY <2>2, LenProperties
  <2>4. \A i \in 1 .. n : Len(F) + i \in 1 .. (Len(F) + n) /\ ~(Len(F) + i <= Len(F)) /\ (Len(F) + i) - Len(F) = i
    BY <1>2, <2>1
  <2> QED
    BY <1>2, <2>1, <2>2, <2>3, <2>4
<1>8. PICK N : N = (Len(F) + 1) .. Len(G)
  OBVIOUS
<1>9. \A a \in N : \E i \in 1 .. n : a = Len(F) + i
  <2> TAKE a \in N
  <2>1. a - Len(F) \in 1 .. n /\ a = Len(F) + (a - Len(F))
    BY <1>2, <1>7, <1>8
  <2> QED
    BY <2>1
<1>10. \A a \in N : \E i \in 1 .. n : /\ a = Len(F) + i /\ Carries(G[a], u, i)
                                      /\ In(G[a].pieces) = {RM!Piece(u, i)}
  <2> TAKE a \in N
  <2>1. PICK i \in 1 .. n : a = Len(F) + i
    BY <1>9
  <2>2. G[a] = H[i]
    BY <1>7, <2>1
  <2> QED
    BY <1>4, <2>1, <2>2
<1>11. \A i : RM!Piece(u, i)[1] = u /\ RM!Piece(u, i)[2] = i
  BY DEF RM!Piece
<1>12. \A a \in N : Fits(G[a], s + 1) /\ \A x \in In(G[a].pieces) : x[1] > s
  <2> TAKE a \in N
  <2>1. PICK i \in 1 .. n : Carries(G[a], u, i) /\ In(G[a].pieces) = {RM!Piece(u, i)}
    BY <1>10
  <2>2. u \in 1 .. (s + 1) /\ i \in 1 .. Units[u] /\ u > s
    BY <1>1, <1>2
  <2>3. Fits(G[a], s + 1)
    BY <2>1, <2>2 DEF Fits
  <2> QED
    BY <1>11, <2>1, <2>2, <2>3
<1>13. \A a, b \in N : a # b => In(G[a].pieces) \cap In(G[b].pieces) = {}
  <2> SUFFICES ASSUME NEW a \in N, NEW b \in N, NEW x \in In(G[a].pieces), x \in In(G[b].pieces)
               PROVE  a = b
    OBVIOUS
  <2>1. PICK i \in 1 .. n : a = Len(F) + i /\ In(G[a].pieces) = {RM!Piece(u, i)}
    BY <1>10
  <2>2. PICK j \in 1 .. n : b = Len(F) + j /\ In(G[b].pieces) = {RM!Piece(u, j)}
    BY <1>10
  <2>3. x[2] = i /\ x[2] = j
    BY <1>11, <2>1, <2>2
  <2> QED
    BY <2>1, <2>2, <2>3
<1>14. \A a, b \in N : a < b => \A x \in In(G[a].pieces), y \in In(G[b].pieces) : x[1] <= y[1]
  <2>1. ASSUME NEW a \in N, NEW x \in In(G[a].pieces) PROVE x[1] = u
    <3>1. PICK i \in 1 .. n : In(G[a].pieces) = {RM!Piece(u, i)}
      BY <1>10
    <3> QED
      BY <1>11, <3>1
  <2>2. u <= u
    BY <1>2
  <2> QED
    BY <2>1, <2>2
<1>15. \A v \in (s + 1) .. (s + 1) : Away(G, v)
  <2>1. \A i \in 1 .. Units[u] : Len(F) + i \in DOMAIN G /\ RM!Piece(u, i) \in In(G[Len(F) + i].pieces)
    BY <1>2, <1>4, <1>7
  <2>2. Away(G, u)
    BY <1>7, <2>1 DEF Away
  <2> QED
    BY <1>1, <1>2, <2>2
<1>16. s + 1 \in s .. Len(Units) /\ Len(G) >= Len(F)
  BY <1>1, <1>2, <1>7
<1>17. G \in Seq(Packs) /\ \A a \in DOMAIN F : G[a] = F[a]
  BY <1>7
<1>18. /\ u \in s .. Len(Units)
       /\ \A a \in N : Fits(G[a], u) /\ \A x \in In(G[a].pieces) : x[1] > s
       /\ \A v \in (s + 1) .. u : Away(G, v)
  BY <1>2, <1>12, <1>15, <1>16
<1>19. Behind(F, s, G, u)
  BY <1>8, <1>13, <1>14, <1>16, <1>17, <1>18 DEF Behind, New
<1>23. RtpSound(G, u)
  BY <1>19, Grown
<1> QED
  BY <1>2, <1>3, <1>6, <1>23

LEMMA UnitsPushed ==
  ASSUME RtpInv, RM!Push
  PROVE  RtpInv'
<1>1. PICK n \in 1 .. 2 :
        /\ rtpCodec = "nal" \/ n = 1
        /\ rtpSent + n <= Len(Units) /\ rtpSent' = rtpSent + n
        /\ flight' = IF n = 1 THEN flight \o RM!Packets(rtpSent + 1, TRUE)
                     ELSE flight \o RM!Packets(rtpSent + 1, FALSE) \o RM!Packets(rtpSent + 2, TRUE)
        /\ UNCHANGED <<rtpCodec, hurt, started, parts, rtpOut>>
  BY DEF RM!Push
<1>2. RtpSound(flight, rtpSent) /\ rtpSent \in Nat /\ Len(Units) \in Nat
  BY RtpAssumption DEF RtpInv, RtpSound, Sent, RM!RtpAssumption
<1>3. CASE n = 1
  <2>1. RtpSound(flight', rtpSent')
    BY <1>1, <1>2, <1>3, OneUnit
  <2> QED
    BY <1>1, <2>1, OnlyMore
<1>4. CASE n = 2
  <2>1. PICK G : G = flight \o RM!Packets(rtpSent + 1, FALSE)
    OBVIOUS
  <2>6. rtpSent + 1 <= Len(Units) /\ (rtpSent + 1) + 1 <= Len(Units) /\ rtpCodec = "nal"
    BY <1>1, <1>2, <1>4
  <2>2. RtpSound(G, rtpSent + 1)
    BY <1>2, <2>1, <2>6, OneUnit
  <2>3. RtpSound(G \o RM!Packets((rtpSent + 1) + 1, TRUE), (rtpSent + 1) + 1)
    BY <2>2, <2>6, OneUnit
  <2>4. (rtpSent + 1) + 1 = rtpSent + 2 /\ n # 1
    BY <1>2, <1>4
  <2>5. RtpSound(flight', rtpSent')
    BY <1>1, <1>4, <2>1, <2>3, <2>4
  <2> QED
    BY <1>1, <2>5, OnlyMore
<1> QED
  BY <1>3, <1>4

LEMMA UnitsTogether ==
  ASSUME RtpInv, RM!Aggregate
  PROVE  RtpInv'
<1>1. RtpSound(flight, rtpSent)
  BY DEF RtpInv
<1>2. /\ rtpSent \in Nat /\ Len(Units) \in Nat /\ flight \in Seq(Packs)
      /\ Len(flight) \in Nat /\ DOMAIN flight = 1 .. Len(flight)
  BY <1>1, LenProperties, RtpAssumption DEF RtpSound, Sent, RM!RtpAssumption
<1>3. PICK u, v : u = rtpSent + 1 /\ v = rtpSent + 2 /\ v = u + 1 /\ u \in 1 .. (v - 1)
  <2>1. rtpSent + 2 = (rtpSent + 1) + 1 /\ rtpSent + 1 \in 1 .. ((rtpSent + 2) - 1)
    BY <1>2
  <2> QED
    BY <2>1
<1>4. PICK q : q = <<RM!Piece(u, 1), RM!Piece(v, 1)>>
  OBVIOUS
<1>5. PICK p : p = [form |-> "single", pieces |-> q, start |-> FALSE, end |-> FALSE, marker |-> TRUE]
  OBVIOUS
<1>6. /\ rtpCodec = "nal" /\ v <= Len(Units) /\ Units[u] = 1 /\ Units[v] = 1
      /\ flight' = Append(flight, p) /\ rtpSent' = v
      /\ UNCHANGED <<rtpCodec, hurt, started, parts, rtpOut>>
  BY <1>3, <1>4, <1>5 DEF RM!Aggregate
<1>7. q \in Seq(Nat \X Nat) /\ In(q) = {RM!Piece(u, 1), RM!Piece(v, 1)}
  <2>1. u \in Nat /\ v \in Nat
    BY <1>2, <1>3
  <2>2. RM!Piece(u, 1) \in Nat \X Nat /\ RM!Piece(v, 1) \in Nat \X Nat
    BY <2>1 DEF RM!Piece
  <2>3. q \in Seq(Nat \X Nat)
    BY <1>4, <2>2
  <2>4. In(q) = {RM!Piece(u, 1), RM!Piece(v, 1)}
    BY <1>4 DEF In
  <2> QED
    BY <2>3, <2>4
<1>8. p \in Packs /\ p.pieces = q /\ p.form = "single"
  BY <1>5, <1>7 DEF Packs
<1>9. Fits(p, v)
  BY <1>3, <1>4, <1>6, <1>8 DEF Fits, Joins
<1>10. PICK a : a = Len(flight) + 1
  OBVIOUS
<1>11. /\ flight' \in Seq(Packs) /\ Len(flight') = a /\ DOMAIN flight' = 1 .. a
       /\ \A b \in DOMAIN flight : flight'[b] = flight[b]
       /\ flight'[a] = p /\ (Len(flight) + 1) .. Len(flight') = {a} /\ a >= Len(flight) /\ a \in 1 .. a
  <2>1. flight' \in Seq(Packs) /\ Len(flight') = a /\ flight'[a] = p
        /\ \A b \in 1 .. Len(flight) : flight'[b] = flight[b]
    BY <1>2, <1>6, <1>8, <1>10, AppendProperties
  <2>2. DOMAIN flight' = 1 .. a
    BY <2>1, LenProperties
  <2> QED
    BY <1>2, <1>10, <2>1, <2>2
<1>12. \A w : RM!Piece(w, 1)[1] = w
  BY DEF RM!Piece
<1>13. \A x \in In(p.pieces) : x[1] > rtpSent
  BY <1>2, <1>3, <1>7, <1>8, <1>12
<1>14. \A w \in (rtpSent + 1) .. v : Away(flight', w)
  <2> TAKE w \in (rtpSent + 1) .. v
  <2>1. w \in {u, v} /\ Units[w] = 1
    BY <1>2, <1>3, <1>6
  <2>2. RM!Piece(w, 1) \in In(flight'[Len(flight) + 1].pieces)
    BY <1>7, <1>8, <1>10, <1>11, <2>1
  <2>3. \A i \in 1 .. Units[w] : i = 1
    BY <2>1
  <2>4. \A i \in 1 .. Units[w] :
          Len(flight) + i \in DOMAIN flight' /\ RM!Piece(w, i) \in In(flight'[Len(flight) + i].pieces)
    BY <1>10, <1>11, <2>2, <2>3
  <2> QED
    BY <1>2, <2>4 DEF Away
<1>15. v \in rtpSent .. Len(Units)
  BY <1>2, <1>3, <1>6
<1>16. PICK N : N = (Len(flight) + 1) .. Len(flight') /\ N = {a}
  BY <1>11
<1>17. \A b \in N : Fits(flight'[b], v) /\ \A x \in In(flight'[b].pieces) : x[1] > rtpSent
  BY <1>9, <1>11, <1>13, <1>16
<1>18. \A b, c \in N : b # c => In(flight'[b].pieces) \cap In(flight'[c].pieces) = {}
  BY <1>16
<1>19. \A b, c \in N : b < c => \A x \in In(flight'[b].pieces), y \in In(flight'[c].pieces) : x[1] <= y[1]
  BY <1>2, <1>10, <1>16
<1>20. RtpSound(flight', v)
  <2>1. Behind(flight, rtpSent, flight', v)
    BY <1>11, <1>14, <1>15, <1>16, <1>17, <1>18, <1>19 DEF Behind, New
  <2> QED
    BY <1>1, <2>1, Grown
<1> QED
  BY <1>6, <1>20, OnlyMore

\* Of the first packet and the others.
LEMMA HeadFacts ==
  ASSUME RtpInv, flight # <<>>, flight' = Tail(flight)
  PROVE  /\ rtpSent \in 0 .. Len(Units) /\ rtpSent \in Nat /\ flight \in Seq(Packs) /\ flight' \in Seq(Packs)
         /\ flight[1] \in Packs /\ Head(flight) = flight[1] /\ Fits(flight[1], rtpSent)
         /\ Len(flight) \in Nat /\ 1 \in DOMAIN flight /\ DOMAIN flight = 1 .. Len(flight)
         /\ DOMAIN flight' = 1 .. (Len(flight) - 1)
         /\ \A a \in DOMAIN flight' : a + 1 \in DOMAIN flight /\ flight'[a] = flight[a + 1]
<1>1. /\ rtpSent \in 0 .. Len(Units) /\ flight \in Seq(Packs)
      /\ \A a \in DOMAIN flight : Fits(flight[a], rtpSent)
  BY DEF RtpInv, RtpSound, Sent
<1>2. rtpSent \in Nat
  BY <1>1, RtpAssumption DEF RM!RtpAssumption
<1>3. 1 \in DOMAIN flight /\ flight[1] \in Packs
  BY <1>1, TailOf
<1> QED
  BY <1>1, <1>2, <1>3, TailOf

\* The units of which the first packet has a piece.
LEMMA HeadIsNext ==
  ASSUME RtpInv, flight # <<>>, flight' = Tail(flight),
         NEW u \in Unhurt(rtpSent), NEW i \in 1 .. Units[u],
         RM!Piece(u, i) \in In(flight[1].pieces)
  PROVE  /\ i = 1 \/ Under(flight, u, i - 1)
         /\ i < Units[u] => Follow(flight', u, i)
<1>1. /\ 1 \in DOMAIN flight /\ DOMAIN flight = 1 .. Len(flight) /\ Len(flight) \in Nat
      /\ DOMAIN flight' = 1 .. (Len(flight) - 1)
      /\ \A a \in DOMAIN flight' : a + 1 \in DOMAIN flight /\ flight'[a] = flight[a + 1]
  BY HeadFacts
<1>2. /\ u \in 1 .. Len(Units) /\ Units[u] \in Nat /\ Units[u] >= 1 /\ i \in Nat
  <2>1. u \in 1 .. Len(Units)
    BY HeadFacts DEF Unhurt
  <2> QED
    BY <2>1, UnitLong
<1>3. Once(flight) /\ Goes(flight, u)
  BY DEF RtpInv, RtpSound
<1>4. \A a \in DOMAIN flight : RM!Piece(u, i) \in In(flight[a].pieces) => a = 1
  BY <1>1, <1>3 DEF Once
<1>5. CASE Away(flight, u)
  <2>1. PICK k \in Nat : \A j \in 1 .. Units[u] :
          k + j \in DOMAIN flight /\ RM!Piece(u, j) \in In(flight[k + j].pieces)
    BY <1>5 DEF Away
  <2>2. k + i = 1
    BY <1>4, <2>1
  <2>3. k = 0 /\ i = 1
    BY <1>2, <2>2
  <2>4. \A j \in (1 + 1) .. Units[u] :
          j - 1 \in DOMAIN flight' /\ RM!Piece(u, j) \in In(flight'[j - 1].pieces)
    <3> TAKE j \in (1 + 1) .. Units[u]
    <3>1. j \in 1 .. Units[u] /\ k + j = j /\ j >= 2
      BY <1>2, <2>3
    <3>2. j \in DOMAIN flight /\ RM!Piece(u, j) \in In(flight[j].pieces)
      BY <2>1, <3>1
    <3>3. j - 1 \in DOMAIN flight' /\ (j - 1) + 1 = j
      BY <1>1, <3>1, <3>2
    <3> QED
      BY <1>1, <3>2, <3>3
  <2>5. i < Units[u] => 1 \in 1 .. (Units[u] - 1)
    BY <1>2, <2>3
  <2> QED
    BY <2>3, <2>4, <2>5 DEF Follow
<1>6. CASE \E m \in Nat : Under(flight, u, m)
  <2>1. PICK m \in Nat : Under(flight, u, m)
    BY <1>6
  <2>2. /\ m \in 1 .. (Units[u] - 1)
        /\ \A j \in (m + 1) .. Units[u] :
             j - m \in DOMAIN flight /\ RM!Piece(u, j) \in In(flight[j - m].pieces)
    BY <2>1 DEF Under, Follow
  <2>3. ~(i <= m)
    <3> SUFFICES ASSUME i <= m PROVE FALSE
      OBVIOUS
    <3>0. i \in 1 .. m
      BY <1>2
    <3>1. CASE rtpCodec = "raw"
      <4>1. <<RM!Piece(u, i)>> \in In(rtpOut)
        BY <2>1, <3>0, <3>1 DEF Under, Had
      <4>2. PICK j \in DOMAIN rtpOut : rtpOut[j] = <<RM!Piece(u, i)>>
        BY <4>1 DEF In
      <4>3. RM!Piece(u, i) \in In(rtpOut[j])
        BY <4>2 DEF In
      <4> QED
        BY <1>1, <1>3, <4>3 DEF Once
    <3>2. CASE rtpCodec # "raw"
      <4>1. parts = [j \in 1 .. m |-> RM!Piece(u, j)]
        BY <2>1, <3>2 DEF Under, Had
      <4>2. RM!Piece(u, i) \in In(parts)
        BY <3>0, <4>1 DEF In
      <4> QED
        BY <1>1, <1>3, <4>2 DEF Once
    <3> QED
      BY <3>1, <3>2
  <2>4. i \in (m + 1) .. Units[u]
    BY <1>2, <2>3
  <2>5. i - m = 1
    BY <1>4, <2>2, <2>4
  <2>6. i - 1 = m
    BY <1>2, <2>5
  <2>7. \A j \in (i + 1) .. Units[u] :
          j - i \in DOMAIN flight' /\ RM!Piece(u, j) \in In(flight'[j - i].pieces)
    <3> TAKE j \in (i + 1) .. Units[u]
    <3>1. j \in (m + 1) .. Units[u] /\ j - m = (j - i) + 1 /\ j - i >= 1 /\ j - i \in Nat
      BY <1>2, <2>6
    <3>2. j - m \in DOMAIN flight /\ RM!Piece(u, j) \in In(flight[j - m].pieces)
      BY <2>2, <3>1
    <3>3. j - i \in DOMAIN flight'
      BY <1>1, <3>1, <3>2
    <3> QED
      BY <1>1, <3>1, <3>2, <3>3
  <2>8. i < Units[u] => i \in 1 .. (Units[u] - 1)
    BY <1>2
  <2> QED
    BY <2>1, <2>6, <2>7, <2>8 DEF Follow
<1>7. ~Home(u)
  <2> SUFFICES ASSUME Home(u) PROVE FALSE
    OBVIOUS
  <2>1. \E j \in DOMAIN rtpOut : RM!Piece(u, i) \in In(rtpOut[j])
    <3>1. CASE rtpCodec = "raw"
      <4>1. <<RM!Piece(u, i)>> \in In(rtpOut)
        BY <3>1 DEF Home
      <4>2. PICK j \in DOMAIN rtpOut : rtpOut[j] = <<RM!Piece(u, i)>>
        BY <4>1 DEF In
      <4>3. RM!Piece(u, i) \in In(rtpOut[j])
        BY <4>2 DEF In
      <4> QED
        BY <4>3
    <3>2. CASE rtpCodec # "raw"
      <4>1. PICK j \in DOMAIN rtpOut : rtpOut[j] = RM!Whole(u)
        BY <3>2 DEF Home, In
      <4>2. RM!Whole(u)[i] = RM!Piece(u, i) /\ i \in DOMAIN RM!Whole(u)
        BY DEF RM!Whole
      <4>3. RM!Piece(u, i) \in In(rtpOut[j])
        BY <4>1, <4>2 DEF In
      <4> QED
        BY <4>3
    <3> QED
      BY <3>1, <3>2
  <2> QED
    BY <1>1, <1>3, <2>1 DEF Once
<1> QED
  BY <1>3, <1>5, <1>6, <1>7 DEF Goes

\* A unit no fault touched goes on, if its piece in the first packet is joined.
LEMMA GoesOn ==
  ASSUME RtpInv, flight # <<>>, flight' = Tail(flight), rtpCodec' = rtpCodec,
         In(rtpOut) \subseteq In(rtpOut'),
         NEW u \in Unhurt(rtpSent),
         \A i \in 1 .. Units[u] :
           RM!Piece(u, i) \in In(flight[1].pieces) /\ (i = 1 \/ Under(flight, u, i - 1)) =>
             IF i = Units[u] THEN Home(u)' ELSE Had(u, i)'
  PROVE  Goes(flight, u)'
<1>1. /\ 1 \in DOMAIN flight /\ DOMAIN flight = 1 .. Len(flight) /\ Len(flight) \in Nat
      /\ DOMAIN flight' = 1 .. (Len(flight) - 1)
      /\ \A a \in DOMAIN flight' : a + 1 \in DOMAIN flight /\ flight'[a] = flight[a + 1]
  BY HeadFacts
<1>2. /\ u \in 1 .. Len(Units) /\ Units[u] \in Nat /\ Units[u] >= 1
  <2>1. u \in 1 .. Len(Units)
    BY HeadFacts DEF Unhurt
  <2> QED
    BY <2>1, UnitLong
<1>3. Goes(flight, u)
  BY DEF RtpInv, RtpSound
<1>4. ASSUME NEW i \in 1 .. Units[u], RM!Piece(u, i) \in In(flight[1].pieces)
      PROVE  Goes(flight, u)'
  <2>1. (i = 1 \/ Under(flight, u, i - 1)) /\ (i < Units[u] => Follow(flight', u, i))
    BY <1>4, HeadIsNext
  <2>2. IF i = Units[u] THEN Home(u)' ELSE Had(u, i)'
    BY <1>4, <2>1
  <2>3. i # Units[u] => Under(flight, u, i)' /\ i \in Nat
    <3>1. i # Units[u] => i < Units[u] /\ i \in Nat
      BY <1>2
    <3>2. Follow(flight', u, i) => Follow(flight, u, i)'
      BY DEF Follow
    <3> QED
      BY <2>1, <2>2, <3>1, <3>2 DEF Under
  <2> QED
    BY <2>2, <2>3 DEF Goes
<1>5. CASE Away(flight, u)
  <2>1. PICK k \in Nat : \A j \in 1 .. Units[u] :
          k + j \in DOMAIN flight /\ RM!Piece(u, j) \in In(flight[k + j].pieces)
    BY <1>5 DEF Away
  <2>2. CASE k = 0
    <3>1. 1 \in 1 .. Units[u] /\ k + 1 = 1
      BY <1>2, <2>2
    <3> QED
      BY <1>4, <2>1, <3>1
  <2>3. CASE k # 0
    <3>1. PICK l \in Nat : l = k - 1
      BY <2>3
    <3>2. \A j \in 1 .. Units[u] :
            l + j \in DOMAIN flight' /\ RM!Piece(u, j) \in In(flight'[l + j].pieces)
      <4> TAKE j \in 1 .. Units[u]
      <4>1. k + j \in DOMAIN flight /\ RM!Piece(u, j) \in In(flight[k + j].pieces)
        BY <2>1
      <4>2. l + j \in DOMAIN flight' /\ (l + j) + 1 = k + j
        BY <1>1, <1>2, <3>1, <4>1
      <4> QED
        BY <1>1, <4>1, <4>2
    <3>3. Away(flight, u)'
      BY <3>2 DEF Away
    <3> QED
      BY <3>3 DEF Goes
  <2> QED
    BY <2>2, <2>3
<1>6. CASE \E m \in Nat : Under(flight, u, m)
  <2>1. PICK m \in Nat : Under(flight, u, m)
    BY <1>6
  <2>2. m + 1 \in (m + 1) .. Units[u] /\ m + 1 \in 1 .. Units[u] /\ (m + 1) - m = 1
    BY <1>2, <2>1 DEF Under, Follow
  <2>3. RM!Piece(u, m + 1) \in In(flight[1].pieces)
    BY <2>1, <2>2 DEF Under, Follow
  <2> QED
    BY <1>4, <2>2, <2>3
<1>7. CASE Home(u)
  <2>1. Home(u)'
    BY <1>7 DEF Home
  <2> QED
    BY <2>1 DEF Goes
<1> QED
  BY <1>3, <1>5, <1>6, <1>7 DEF Goes

\* A packet fed makes the samples N, of its pieces and of those there were.
Makes(N) ==
  LET p == flight[1] IN
  /\ flight' = Tail(flight) /\ UNCHANGED <<rtpCodec, rtpSent, hurt>>
  /\ N \in Seq(Seq(Nat \X Nat)) /\ rtpOut' = rtpOut \o N
  /\ started' \in BOOLEAN /\ parts' \in Seq(Nat \X Nat)
  /\ In(parts') \subseteq In(parts) \cup In(p.pieces)
  /\ \A j \in DOMAIN N :
       /\ N[j] # <<>> /\ In(N[j]) \subseteq In(parts) \cup In(p.pieces)
       /\ In(N[j]) \cap In(parts') = {}
       /\ \A i \in DOMAIN N : i # j => In(N[i]) \cap In(N[j]) = {}
       /\ rtpCodec # "raw" => \/ \E u \in 1 .. rtpSent : N[j] = RM!Whole(u)
                              \/ \E x \in In(N[j]) : x[1] \in hurt
       /\ hurt = {} => /\ \E x \in In(p.pieces) : N[j][1][1] = x[1]
                       /\ \A i \in DOMAIN N : i < j => N[i][1][1] <= N[j][1][1]

LEMMA Fed ==
  ASSUME RtpInv, flight # <<>>, NEW N, Makes(N)
  PROVE  /\ Sent(flight, rtpSent)' /\ Came(rtpSent)' /\ Once(flight)' /\ OnceOut'
         /\ Explained(rtpSent)' /\ Ordered(flight)'
         /\ In(rtpOut) \subseteq In(rtpOut') /\ In(N) \subseteq In(rtpOut')
<1> PICK p : p = flight[1]
  OBVIOUS
<1>1. /\ flight' = Tail(flight) /\ rtpCodec' = rtpCodec /\ rtpSent' = rtpSent /\ hurt' = hurt
      /\ N \in Seq(Seq(Nat \X Nat)) /\ rtpOut' = rtpOut \o N
      /\ started' \in BOOLEAN /\ parts' \in Seq(Nat \X Nat)
      /\ In(parts') \subseteq In(parts) \cup In(p.pieces)
      /\ \A j \in DOMAIN N : /\ N[j] # <<>> /\ In(N[j]) \subseteq In(parts) \cup In(p.pieces)
                             /\ In(N[j]) \cap In(parts') = {}
  BY DEF Makes
<1>2. /\ \A i, j \in DOMAIN N : i # j => In(N[i]) \cap In(N[j]) = {}
      /\ rtpCodec # "raw" => \A j \in DOMAIN N : \/ \E u \in 1 .. rtpSent : N[j] = RM!Whole(u)
                                                 \/ \E x \in In(N[j]) : x[1] \in hurt
      /\ hurt = {} => \A j \in DOMAIN N : \E x \in In(p.pieces) : N[j][1][1] = x[1]
      /\ hurt = {} => \A i, j \in DOMAIN N : i < j => N[i][1][1] <= N[j][1][1]
  BY DEF Makes
<1>3. /\ rtpSent \in 0 .. Len(Units) /\ rtpSent \in Nat /\ flight \in Seq(Packs) /\ flight' \in Seq(Packs)
      /\ Fits(p, rtpSent) /\ 1 \in DOMAIN flight /\ DOMAIN flight = 1 .. Len(flight) /\ Len(flight) \in Nat
      /\ DOMAIN flight' = 1 .. (Len(flight) - 1)
      /\ \A a \in DOMAIN flight' : a + 1 \in DOMAIN flight /\ flight'[a] = flight[a + 1]
  BY <1>1, HeadFacts
<1>4. /\ \A a \in DOMAIN flight : Fits(flight[a], rtpSent)
      /\ Came(rtpSent) /\ Once(flight) /\ OnceOut /\ Explained(rtpSent) /\ Ordered(flight)
  BY DEF RtpInv, RtpSound, Sent
<1>5. PICK l \in Nat : /\ l = Len(rtpOut) /\ DOMAIN rtpOut = 1 .. l
  BY <1>4, LenProperties DEF Came
<1>6. PICK n \in Nat : n = Len(N) /\ DOMAIN N = 1 .. n
  BY <1>1, LenProperties
<1>7. /\ rtpOut' \in Seq(Seq(Nat \X Nat)) /\ DOMAIN rtpOut' = 1 .. (l + n)
      /\ \A j \in DOMAIN rtpOut : j \in DOMAIN rtpOut' /\ rtpOut'[j] = rtpOut[j]
      /\ \A j \in DOMAIN N : l + j \in DOMAIN rtpOut' /\ rtpOut'[l + j] = N[j]
      /\ \A j \in DOMAIN rtpOut' : j \in DOMAIN rtpOut \/ (j - l \in DOMAIN N /\ rtpOut'[j] = N[j - l])
  <2>1. rtpOut \in Seq(Seq(Nat \X Nat))
    BY <1>4 DEF Came
  <2>2. /\ rtpOut' \in Seq(Seq(Nat \X Nat)) /\ Len(rtpOut') = l + n
        /\ \A j \in 1 .. (l + n) : rtpOut'[j] = IF j <= l THEN rtpOut[j] ELSE N[j - l]
    BY <1>1, <1>5, <1>6, <2>1, ConcatProperties
  <2>3. DOMAIN rtpOut' = 1 .. (l + n)
    BY <2>2, LenProperties
  <2>4. \A j \in 1 .. l : j \in 1 .. (l + n) /\ j <= l
    BY <1>5, <1>6
  <2>5. \A j \in 1 .. n : l + j \in 1 .. (l + n) /\ ~(l + j <= l) /\ (l + j) - l = j
    BY <1>5, <1>6
  <2>6. \A j \in 1 .. (l + n) : j \in 1 .. l \/ (j - l \in 1 .. n /\ ~(j <= l))
    BY <1>5, <1>6
  <2>7. \A j \in DOMAIN rtpOut : j \in DOMAIN rtpOut' /\ rtpOut'[j] = rtpOut[j]
    BY <1>5, <2>2, <2>3, <2>4
  <2>8. \A j \in DOMAIN N : l + j \in DOMAIN rtpOut' /\ rtpOut'[l + j] = N[j]
    BY <1>6, <2>2, <2>3, <2>5
  <2>9. \A j \in DOMAIN rtpOut' : j \in DOMAIN rtpOut \/ (j - l \in DOMAIN N /\ rtpOut'[j] = N[j - l])
    BY <1>5, <1>6, <2>2, <2>3, <2>6
  <2> QED
    BY <2>2, <2>3, <2>7, <2>8, <2>9
<1>8. \A x \in In(p.pieces) : x[1] \in Nat /\ x[1] <= rtpSent
  BY <1>3, PacketHas
<1>9. \A x \in In(parts) \cup In(p.pieces) : x[1] <= rtpSent
  BY <1>4, <1>8 DEF Came
<1>10. Sent(flight, rtpSent)'
  <2>1. \A q : Fits(q, rtpSent) => Fits(q, rtpSent)'
    BY <1>1 DEF Fits, Carries, Joins
  <2>2. \A a \in DOMAIN flight' : Fits(flight'[a], rtpSent)
    BY <1>3, <1>4
  <2> QED
    BY <1>1, <1>3, <2>1, <2>2 DEF Sent
<1>11. Came(rtpSent)'
  <2>1. \A j \in DOMAIN rtpOut' : rtpOut'[j] # <<>> /\ \A x \in In(rtpOut'[j]) : x[1] <= rtpSent
    <3> TAKE j \in DOMAIN rtpOut'
    <3>1. CASE j \in DOMAIN rtpOut
      BY <1>4, <1>7, <3>1 DEF Came
    <3>2. CASE j - l \in DOMAIN N /\ rtpOut'[j] = N[j - l]
      BY <1>1, <1>9, <3>2
    <3> QED
      BY <1>7, <3>1, <3>2
  <2>2. \A x \in In(parts') : x[1] <= rtpSent
    BY <1>1, <1>9
  <2> QED
    BY <1>1, <1>7, <2>1, <2>2 DEF Came
<1>12. \A a \in DOMAIN flight' : /\ In(flight'[a].pieces) \cap In(p.pieces) = {}
                                 /\ In(flight'[a].pieces) \cap In(parts) = {}
  <2> TAKE a \in DOMAIN flight'
  <2>1. a + 1 \in DOMAIN flight /\ a + 1 # 1 /\ flight'[a] = flight[a + 1]
    BY <1>3
  <2> QED
    BY <1>3, <1>4, <2>1 DEF Once
<1>13. Once(flight)'
  <2>1. \A a, b \in DOMAIN flight' : a # b => In(flight'[a].pieces) \cap In(flight'[b].pieces) = {}
    <3> SUFFICES ASSUME NEW a \in DOMAIN flight', NEW b \in DOMAIN flight', a # b
                 PROVE  In(flight'[a].pieces) \cap In(flight'[b].pieces) = {}
      OBVIOUS
    <3>1. /\ a + 1 \in DOMAIN flight /\ b + 1 \in DOMAIN flight /\ a + 1 # b + 1
          /\ flight'[a] = flight[a + 1] /\ flight'[b] = flight[b + 1]
      BY <1>3
    <3>2. In(flight[a + 1].pieces) \cap In(flight[b + 1].pieces) = {}
      BY <1>4, <3>1 DEF Once
    <3> QED
      BY <3>1, <3>2
  <2>2. \A a \in DOMAIN flight' : In(flight'[a].pieces) \cap In(parts') = {}
    BY <1>1, <1>12
  <2>3. \A a \in DOMAIN flight' : \A j \in DOMAIN rtpOut' : In(flight'[a].pieces) \cap In(rtpOut'[j]) = {}
    <3> TAKE a \in DOMAIN flight'
    <3> TAKE j \in DOMAIN rtpOut'
    <3>1. CASE j \in DOMAIN rtpOut
      <4>1. a + 1 \in DOMAIN flight /\ flight'[a] = flight[a + 1] /\ rtpOut'[j] = rtpOut[j]
        BY <1>3, <1>7, <3>1
      <4> QED
        BY <1>4, <3>1, <4>1 DEF Once
    <3>2. CASE j - l \in DOMAIN N /\ rtpOut'[j] = N[j - l]
      <4>1. In(rtpOut'[j]) \subseteq In(parts) \cup In(p.pieces)
        BY <1>1, <3>2
      <4> QED
        BY <1>12, <4>1
    <3> QED
      BY <1>7, <3>1, <3>2
  <2> QED
    BY <2>1, <2>2, <2>3 DEF Once
<1>14. \A j \in DOMAIN rtpOut : (In(parts) \cup In(p.pieces)) \cap In(rtpOut[j]) = {}
  BY <1>3, <1>4 DEF Once, OnceOut
<1>15. OnceOut'
  <2>1. \A j \in DOMAIN rtpOut' : In(parts') \cap In(rtpOut'[j]) = {}
    <3> TAKE j \in DOMAIN rtpOut'
    <3>1. CASE j \in DOMAIN rtpOut
      BY <1>1, <1>7, <1>14, <3>1
    <3>2. CASE j - l \in DOMAIN N /\ rtpOut'[j] = N[j - l]
      BY <1>1, <3>2
    <3> QED
      BY <1>7, <3>1, <3>2
  <2>2. \A i, j \in DOMAIN rtpOut' : i # j => In(rtpOut'[i]) \cap In(rtpOut'[j]) = {}
    <3> SUFFICES ASSUME NEW i \in DOMAIN rtpOut', NEW j \in DOMAIN rtpOut', i # j,
                        NEW x \in In(rtpOut'[i]), x \in In(rtpOut'[j])
                 PROVE  FALSE
      OBVIOUS
    <3>1. \A k \in DOMAIN rtpOut' : k - l \in DOMAIN N /\ rtpOut'[k] = N[k - l] =>
            In(rtpOut'[k]) \subseteq In(parts) \cup In(p.pieces)
      BY <1>1
    <3>2. CASE i \in DOMAIN rtpOut /\ j \in DOMAIN rtpOut
      BY <1>4, <1>7, <3>2 DEF OnceOut
    <3>3. CASE i \in DOMAIN rtpOut /\ j - l \in DOMAIN N /\ rtpOut'[j] = N[j - l]
      BY <1>7, <1>14, <3>1, <3>3
    <3>4. CASE j \in DOMAIN rtpOut /\ i - l \in DOMAIN N /\ rtpOut'[i] = N[i - l]
      BY <1>7, <1>14, <3>1, <3>4
    <3>5. CASE i - l \in DOMAIN N /\ rtpOut'[i] = N[i - l] /\ j - l \in DOMAIN N /\ rtpOut'[j] = N[j - l]
      <4>1. i - l # j - l
        BY <1>5, <1>7
      <4> QED
        BY <1>2, <3>5, <4>1
    <3> QED
      BY <1>7, <3>2, <3>3, <3>4, <3>5
  <2> QED
    BY <2>1, <2>2 DEF OnceOut
<1>16. Explained(rtpSent)'
  <2> SUFFICES ASSUME rtpCodec # "raw", NEW j \in DOMAIN rtpOut'
               PROVE  \/ \E u \in 1 .. rtpSent : rtpOut'[j] = RM!Whole(u)
                      \/ \E x \in In(rtpOut'[j]) : x[1] \in hurt
    BY <1>1 DEF Explained
  <2>1. CASE j \in DOMAIN rtpOut
    <3>1. rtpOut'[j] = rtpOut[j]
      BY <1>7, <2>1
    <3> QED
      BY <1>4, <2>1, <3>1 DEF Explained
  <2>2. CASE j - l \in DOMAIN N /\ rtpOut'[j] = N[j - l]
    <3>1. PICK k \in DOMAIN N : rtpOut'[j] = N[k]
      BY <2>2
    <3> QED
      BY <1>2, <3>1
  <2> QED
    BY <1>7, <2>1, <2>2
<1>17. Ordered(flight)'
  <2> SUFFICES ASSUME hurt = {} PROVE Ordered(flight)'
    BY <1>1 DEF Ordered
  <2>1. /\ \A i, j \in DOMAIN rtpOut : i < j => rtpOut[i][1][1] <= rtpOut[j][1][1]
        /\ \A j \in DOMAIN rtpOut, a \in DOMAIN flight :
             \A x \in In(flight[a].pieces) : rtpOut[j][1][1] <= x[1]
        /\ \A a, b \in DOMAIN flight : a < b =>
             \A x \in In(flight[a].pieces), y \in In(flight[b].pieces) : x[1] <= y[1]
    BY <1>4 DEF Ordered
  <2>2. \A i, j \in DOMAIN rtpOut' : i < j => rtpOut'[i][1][1] <= rtpOut'[j][1][1]
    <3> SUFFICES ASSUME NEW i \in DOMAIN rtpOut', NEW j \in DOMAIN rtpOut', i < j
                 PROVE  rtpOut'[i][1][1] <= rtpOut'[j][1][1]
      OBVIOUS
    <3>1. CASE i \in DOMAIN rtpOut /\ j \in DOMAIN rtpOut
      BY <1>7, <2>1, <3>1
    <3>2. CASE i \in DOMAIN rtpOut /\ j - l \in DOMAIN N /\ rtpOut'[j] = N[j - l]
      <4>1. PICK x \in In(p.pieces) : rtpOut'[j][1][1] = x[1]
        BY <1>2, <3>2
      <4>2. rtpOut[i][1][1] <= x[1] /\ rtpOut'[i] = rtpOut[i]
        BY <1>3, <1>7, <2>1, <3>2
      <4> QED
        BY <4>1, <4>2
    <3>3. CASE i - l \in DOMAIN N /\ rtpOut'[i] = N[i - l]
      <4>1. j - l \in DOMAIN N /\ rtpOut'[j] = N[j - l] /\ i - l < j - l
        <5>1. j \notin DOMAIN rtpOut /\ i - l < j - l
          BY <1>5, <1>6, <1>7, <3>3
        <5> QED
          BY <1>7, <5>1
      <4> QED
        BY <1>2, <3>3, <4>1
    <3> QED
      BY <1>7, <3>1, <3>2, <3>3
  <2>3. \A j \in DOMAIN rtpOut', a \in DOMAIN flight' :
          \A x \in In(flight'[a].pieces) : rtpOut'[j][1][1] <= x[1]
    <3> TAKE j \in DOMAIN rtpOut', a \in DOMAIN flight'
    <3> TAKE x \in In(flight'[a].pieces)
    <3>1. a + 1 \in DOMAIN flight /\ 1 < a + 1 /\ x \in In(flight[a + 1].pieces)
      BY <1>3
    <3>2. CASE j \in DOMAIN rtpOut
      BY <1>7, <2>1, <3>1, <3>2
    <3>3. CASE j - l \in DOMAIN N /\ rtpOut'[j] = N[j - l]
      <4>1. PICK y \in In(p.pieces) : rtpOut'[j][1][1] = y[1]
        BY <1>2, <3>3
      <4> QED
        BY <1>3, <2>1, <3>1, <4>1
    <3> QED
      BY <1>7, <3>2, <3>3
  <2>4. \A a, b \in DOMAIN flight' : a < b =>
          \A x \in In(flight'[a].pieces), y \in In(flight'[b].pieces) : x[1] <= y[1]
    <3> SUFFICES ASSUME NEW a \in DOMAIN flight', NEW b \in DOMAIN flight', a < b,
                        NEW x \in In(flight'[a].pieces), NEW y \in In(flight'[b].pieces)
                 PROVE  x[1] <= y[1]
      OBVIOUS
    <3>1. /\ a + 1 \in DOMAIN flight /\ b + 1 \in DOMAIN flight /\ a + 1 < b + 1
          /\ x \in In(flight[a + 1].pieces) /\ y \in In(flight[b + 1].pieces)
      BY <1>3
    <3> QED
      BY <2>1, <3>1
  <2> QED
    BY <2>2, <2>3, <2>4 DEF Ordered
<1>18. In(rtpOut) \subseteq In(rtpOut')
  BY <1>7 DEF In
<1>19. In(N) \subseteq In(rtpOut')
  BY <1>7 DEF In
<1> QED
  BY <1>10, <1>11, <1>13, <1>15, <1>16, <1>17, <1>18, <1>19

\* It is enough that every unit no fault touched has its piece where it belongs.
LEMMA FedSound ==
  ASSUME RtpInv, flight # <<>>, NEW N, Makes(N),
         \A u \in Unhurt(rtpSent) : \A i \in 1 .. Units[u] :
           RM!Piece(u, i) \in In(flight[1].pieces) /\ (i = 1 \/ Under(flight, u, i - 1)) =>
             IF i = Units[u] THEN Home(u)' ELSE Had(u, i)'
  PROVE  RtpInv'
<1>1. /\ Sent(flight, rtpSent)' /\ Came(rtpSent)' /\ Once(flight)' /\ OnceOut'
      /\ Explained(rtpSent)' /\ Ordered(flight)' /\ In(rtpOut) \subseteq In(rtpOut')
  BY Fed
<1>2. flight' = Tail(flight) /\ rtpCodec' = rtpCodec /\ rtpSent' = rtpSent /\ hurt' = hurt
  BY DEF Makes
<1>3. \A u \in Unhurt(rtpSent) : Goes(flight, u)'
  BY <1>1, <1>2, GoesOn
<1>4. Unhurt(rtpSent)' = Unhurt(rtpSent)
  BY <1>2 DEF Unhurt
<1>5. rtpCodec \in {"nal", "jpeg", "raw"}
  BY DEF RtpInv, RtpSound
<1> QED
  BY <1>1, <1>2, <1>3, <1>4, <1>5 DEF RtpInv, RtpSound

LEMMA WholeOfOne ==
  ASSUME NEW u, Units[u] = 1
  PROVE  RM!Whole(u) = <<RM!Piece(u, 1)>>
<1>1. 1 .. Units[u] = {1} /\ \A i \in 1 .. Units[u] : i = 1
  OBVIOUS
<1>2. PICK x : x = RM!Piece(u, 1)
  OBVIOUS
<1>3. RM!Whole(u) = [i \in {1} |-> x]
  BY <1>1, <1>2 DEF RM!Whole
<1>4. <<x>> = [i \in {1} |-> x]
  OBVIOUS
<1> QED
  BY <1>2, <1>3, <1>4

LEMMA OneMore ==
  ASSUME NEW u \in Nat, NEW m \in Nat
  PROVE  [i \in 1 .. m |-> RM!Piece(u, i)] \o <<RM!Piece(u, m + 1)>> = [i \in 1 .. (m + 1) |-> RM!Piece(u, i)]
<1> PICK S : S = Nat \X Nat
  OBVIOUS
<1>1. \A i \in Nat : RM!Piece(u, i) \in S
  BY DEF RM!Piece
<1>2. PICK q : q = [i \in 1 .. m |-> RM!Piece(u, i)]
  OBVIOUS
<1>3. PICK r : r = [i \in 1 .. (m + 1) |-> RM!Piece(u, i)]
  OBVIOUS
<1>4. PICK x : x = RM!Piece(u, m + 1) /\ x \in S
  BY <1>1
<1>5. q \in Seq(S) /\ Len(q) = m /\ r \in Seq(S) /\ Len(r) = m + 1
  <2>1. q \in [1 .. m -> S] /\ r \in [1 .. (m + 1) -> S]
    <3>1. (\A i \in 1 .. m : RM!Piece(u, i) \in S) /\ \A i \in 1 .. (m + 1) : RM!Piece(u, i) \in S
      BY <1>1
    <3>2. [i \in 1 .. m |-> RM!Piece(u, i)] \in [1 .. m -> S]
      BY <3>1
    <3>3. [i \in 1 .. (m + 1) |-> RM!Piece(u, i)] \in [1 .. (m + 1) -> S]
      BY <3>1
    <3> QED
      BY <1>2, <1>3, <3>2, <3>3
  <2>2. \A k \in Nat : \A f \in [1 .. k -> S] : f \in Seq(S) /\ Len(f) = k
    OBVIOUS
  <2> QED
    BY <2>1, <2>2
<1>6. <<x>> \in Seq(S) /\ Len(<<x>>) = 1 /\ <<x>>[1] = x
  BY <1>4
<1>7. /\ q \o <<x>> \in Seq(S) /\ Len(q \o <<x>>) = m + 1
      /\ \A i \in 1 .. (m + 1) : (q \o <<x>>)[i] = IF i <= m THEN q[i] ELSE <<x>>[i - m]
  BY <1>5, <1>6, ConcatProperties
<1>8. \A i \in 1 .. (m + 1) : (q \o <<x>>)[i] = r[i]
  <2> TAKE i \in 1 .. (m + 1)
  <2>1. CASE i <= m
    BY <1>2, <1>3, <1>7, <2>1
  <2>2. CASE ~(i <= m)
    <3>1. i = m + 1 /\ i - m = 1
      BY <2>2
    <3> QED
      BY <1>3, <1>4, <1>6, <1>7, <2>2, <3>1
  <2> QED
    BY <2>1, <2>2
<1>9. q \o <<x>> = r
  BY <1>5, <1>7, <1>8, SeqEqual
<1> QED
  BY <1>2, <1>3, <1>4, <1>9

\* Units that fit, alone or together, and raw audio.
LEMMA SinglesFed ==
  ASSUME RtpInv, RM!Feed, flight[1].form = "single"
  PROVE  RtpInv'
<1>1. flight # <<>> /\ flight' = Tail(flight)
  BY DEF RM!Feed
<1>2. /\ rtpSent \in 0 .. Len(Units) /\ rtpSent \in Nat /\ 1 \in DOMAIN flight
      /\ flight[1] \in Packs /\ Head(flight) = flight[1] /\ Fits(flight[1], rtpSent)
  BY <1>1, HeadFacts
<1>3. PICK p, q, n : p = flight[1] /\ q = p.pieces /\ n = Len(q)
  OBVIOUS
<1>4. q \in Seq(Nat \X Nat) /\ n \in Nat /\ DOMAIN q = 1 .. n /\ \A j \in 1 .. n : q[j] \in Nat \X Nat
  BY <1>2, <1>3 DEF Packs
<1>5. PICK N : N = [j \in 1 .. n |-> <<q[j]>>]
  OBVIOUS
<1>6. /\ rtpOut' = rtpOut \o N /\ started' = started /\ parts' = parts
      /\ UNCHANGED <<rtpCodec, rtpSent, hurt>>
  BY <1>2, <1>3, <1>5 DEF RM!Feed, RM!Single
<1>7. /\ DOMAIN N = 1 .. n
      /\ \A j \in 1 .. n : /\ N[j] = <<q[j]>> /\ N[j] # <<>> /\ N[j][1] = q[j]
                           /\ In(N[j]) = {q[j]} /\ q[j] \in In(q)
  <2>1. \A j \in 1 .. n : N[j] = <<q[j]>>
    BY <1>5
  <2>2. \A x : In(<<x>>) = {x} /\ <<x>> # <<>> /\ <<x>>[1] = x
    BY DEF In
  <2>3. \A j \in 1 .. n : q[j] \in In(q)
    BY <1>4 DEF In
  <2> QED
    BY <1>5, <2>1, <2>2, <2>3
<1>8. N \in Seq(Seq(Nat \X Nat))
  <2>1. \A j \in 1 .. n : <<q[j]>> \in Seq(Nat \X Nat)
    BY <1>4
  <2> QED
    BY <1>4, <1>5, <2>1
<1>9. /\ \A i, j \in 1 .. n : i < j => q[i][1] \in Nat /\ q[j][1] \in Nat /\ q[i][1] < q[j][1]
      /\ rtpCodec # "raw" => \A x \in In(q) : x[1] \in 1 .. rtpSent /\ Units[x[1]] = 1 /\ x = RM!Piece(x[1], 1)
  <2>1. CASE \E u \in 1 .. rtpSent : \E i \in 1 .. Units[u] : Carries(p, u, i)
    <3>1. PICK u \in 1 .. rtpSent : \E i \in 1 .. Units[u] : Carries(p, u, i)
      BY <2>1
    <3>2. PICK i \in 1 .. Units[u] : Carries(p, u, i)
      BY <3>1
    <3>3. q = <<RM!Piece(u, i)>> /\ n = 1 /\ In(q) = {RM!Piece(u, i)}
      BY <1>3, <3>2 DEF Carries, In
    <3>4. rtpCodec # "raw" => Units[u] = 1
      BY <1>3, <3>2 DEF Carries
    <3>5. rtpCodec # "raw" => i = 1
      BY <3>4
    <3>6. RM!Piece(u, i)[1] = u
      BY DEF RM!Piece
    <3>7. \A k, j \in 1 .. n : ~(k < j)
      BY <3>3
    <3> QED
      BY <3>3, <3>4, <3>5, <3>6, <3>7
  <2>2. CASE \E u \in 1 .. (rtpSent - 1) : Joins(p, u)
    <3>1. PICK u \in 1 .. (rtpSent - 1) : Joins(p, u)
      BY <2>2
    <3>2. PICK v : v = u + 1 /\ v \in 1 .. rtpSent /\ u \in 1 .. rtpSent /\ u < v /\ u \in Nat /\ v \in Nat
      BY <1>2
    <3>3. Units[u] = 1 /\ Units[v] = 1 /\ q = <<RM!Piece(u, 1), RM!Piece(v, 1)>>
      BY <1>3, <3>1, <3>2 DEF Joins
    <3>4. n = 2 /\ q[1] = RM!Piece(u, 1) /\ q[2] = RM!Piece(v, 1)
      BY <1>3, <3>3
    <3>5. In(q) = {RM!Piece(u, 1), RM!Piece(v, 1)}
      BY <3>3 DEF In
    <3>6. RM!Piece(u, 1)[1] = u /\ RM!Piece(v, 1)[1] = v
      BY DEF RM!Piece
    <3>7. \A i, j \in 1 .. n : i < j => i = 1 /\ j = 2
      BY <3>4
    <3>8. \A i, j \in 1 .. n : i < j => q[i][1] \in Nat /\ q[j][1] \in Nat /\ q[i][1] < q[j][1]
      BY <3>2, <3>4, <3>6, <3>7
    <3> QED
      BY <3>2, <3>3, <3>5, <3>6, <3>8
  <2> QED
    BY <1>2, <1>3, <2>1, <2>2 DEF Fits
<1>10. In(q) \cap In(parts) = {}
  BY <1>2, <1>3 DEF RtpInv, RtpSound, Once
<1>11. Makes(N)
  <2>1. started' \in BOOLEAN /\ parts' \in Seq(Nat \X Nat)
    BY <1>6 DEF RtpInv, RtpSound, Came
  <2>2. ASSUME NEW j \in DOMAIN N
        PROVE  /\ N[j] # <<>> /\ In(N[j]) \subseteq In(parts) \cup In(q)
               /\ In(N[j]) \cap In(parts') = {}
    BY <1>6, <1>7, <1>10
  <2>3. ASSUME NEW j \in DOMAIN N, NEW i \in DOMAIN N, i # j
        PROVE  In(N[i]) \cap In(N[j]) = {}
    <3>1. i < j \/ j < i
      BY <1>7, <2>3
    <3>2. q[i] # q[j]
      BY <1>7, <1>9, <3>1
    <3> QED
      BY <1>7, <3>2
  <2>4. ASSUME NEW j \in DOMAIN N, rtpCodec # "raw"
        PROVE  \E u \in 1 .. rtpSent : N[j] = RM!Whole(u)
    <3>1. PICK u : u = q[j][1] /\ u \in 1 .. rtpSent /\ Units[u] = 1 /\ q[j] = RM!Piece(u, 1)
      BY <1>7, <1>9, <2>4
    <3>2. RM!Whole(u) = <<RM!Piece(u, 1)>>
      BY <3>1, WholeOfOne
    <3>3. N[j] = <<q[j]>>
      BY <1>7
    <3> QED
      BY <3>1, <3>2, <3>3
  <2>5. ASSUME NEW j \in DOMAIN N
        PROVE  \E x \in In(q) : N[j][1][1] = x[1]
    BY <1>7
  <2>6. ASSUME NEW j \in DOMAIN N, NEW i \in DOMAIN N, i < j
        PROVE  N[i][1][1] <= N[j][1][1]
    <3>1. q[i][1] \in Nat /\ q[j][1] \in Nat /\ q[i][1] < q[j][1]
      BY <1>7, <1>9, <2>6
    <3> QED
      BY <1>7, <3>1
  <2> QED
    BY <1>1, <1>3, <1>6, <1>8, <2>1, <2>2, <2>3, <2>4, <2>5, <2>6 DEF Makes
<1>12. \A x \in In(q) : <<x>> \in In(rtpOut')
  <2>1. In(N) \subseteq In(rtpOut')
    BY <1>1, <1>11, Fed
  <2>2. \A x \in In(q) : \E j \in 1 .. n : x = q[j]
    BY <1>4 DEF In
  <2>3. \A j \in 1 .. n : N[j] \in In(N)
    BY <1>7 DEF In
  <2> QED
    BY <1>7, <2>1, <2>2, <2>3
<1>13. ASSUME NEW u \in Unhurt(rtpSent), NEW i \in 1 .. Units[u],
              RM!Piece(u, i) \in In(q), i = 1 \/ Under(flight, u, i - 1)
       PROVE  IF i = Units[u] THEN Home(u)' ELSE Had(u, i)'
  <2>1. <<RM!Piece(u, i)>> \in In(rtpOut')
    BY <1>12, <1>13
  <2>2. u \in 1 .. Len(Units) /\ Units[u] \in Nat
    BY <1>2, UnitLong DEF Unhurt
  <2>3. CASE rtpCodec = "raw"
    <3>1. In(rtpOut) \subseteq In(rtpOut')
      BY <1>1, <1>11, Fed
    <3>2. \A k \in 1 .. i : k = i \/ (i # 1 /\ k \in 1 .. (i - 1))
      BY <2>2
    <3>3. i # 1 => \A k \in 1 .. (i - 1) : <<RM!Piece(u, k)>> \in In(rtpOut)
      BY <1>13, <2>3 DEF Under, Had
    <3>4. \A k \in 1 .. i : <<RM!Piece(u, k)>> \in In(rtpOut')
      BY <2>1, <3>1, <3>2, <3>3
    <3>5. rtpCodec' = "raw"
      BY <1>6, <2>3
    <3> QED
      BY <3>4, <3>5 DEF Home, Had
  <2>4. CASE rtpCodec # "raw"
    <3>1. RM!Piece(u, i)[1] = u /\ RM!Piece(u, i)[2] = i /\ RM!Piece(u, 1)[2] = 1
      BY DEF RM!Piece
    <3>2. Units[u] = 1 /\ i = 1
      BY <1>9, <1>13, <2>4, <3>1
    <3>3. RM!Whole(u) \in In(rtpOut')
      BY <2>1, <3>2, WholeOfOne
    <3> QED
      BY <1>6, <2>4, <3>2, <3>3 DEF Home
  <2> QED
    BY <2>3, <2>4
<1> QED
  BY <1>1, <1>3, <1>11, <1>13, FedSound

\* The pieces of a unit that does not fit, joined: those of a unit no fault
\* touched, from its first on, or with one of a unit touched.
LEMMA JoinedIs ==
  ASSUME RtpInv, flight # <<>>, flight' = Tail(flight),
         NEW u \in 1 .. rtpSent, NEW i \in 1 .. Units[u], Carries(flight[1], u, i),
         flight[1].form = "fragment",
         NEW J, J = RM!Begins(flight[1]) \o flight[1].pieces
  PROVE  /\ rtpCodec # "raw" /\ J \in Seq(Nat \X Nat) /\ J # <<>>
         /\ In(J) \subseteq In(parts) \cup In(flight[1].pieces)
         /\ IF u \in hurt THEN \E x \in In(J) : x[1] \in hurt
            ELSE /\ J = [j \in 1 .. i |-> RM!Piece(u, j)]
                 /\ i # 1 => started
<1> PICK p : p = flight[1]
  OBVIOUS
<1>1. /\ rtpSent \in Nat /\ p \in Packs /\ u \in Nat /\ u \in 1 .. Len(Units)
      /\ Units[u] \in Nat /\ i \in Nat
  <2>1. rtpSent \in Nat /\ rtpSent \in 0 .. Len(Units) /\ p \in Packs
    BY HeadFacts
  <2>2. u \in 1 .. Len(Units) /\ u \in Nat
    BY <2>1
  <2> QED
    BY <2>1, <2>2, UnitLong
<1>2. p.pieces = <<RM!Piece(u, i)>> /\ p.start = (i = 1)
  BY DEF Carries
<1>3. rtpCodec # "raw"
  BY DEF Carries
<1>4. PICK x : x = RM!Piece(u, i) /\ x \in Nat \X Nat /\ x[1] = u
  <2>1. RM!Piece(u, i) \in Nat \X Nat /\ RM!Piece(u, i)[1] = u
    BY <1>1 DEF RM!Piece
  <2> QED
    BY <2>1
<1>5. PICK b : b = RM!Begins(p) /\ b = (IF i = 1 THEN <<>> ELSE parts)
  BY <1>2 DEF RM!Begins
<1>6. b \in Seq(Nat \X Nat) /\ In(b) \subseteq In(parts)
  <2>1. parts \in Seq(Nat \X Nat)
    BY DEF RtpInv, RtpSound, Came
  <2>2. <<>> \in Seq(Nat \X Nat) /\ In(<<>>) = {}
    BY DEF In
  <2> QED
    BY <1>5, <2>1, <2>2
<1>7. PICK n \in Nat : n = Len(b) /\ DOMAIN b = 1 .. n
  BY <1>6, LenProperties
<1>8. /\ J \in Seq(Nat \X Nat) /\ Len(J) = n + 1 /\ DOMAIN J = 1 .. (n + 1)
      /\ \A j \in 1 .. n : J[j] = b[j]
      /\ J[n + 1] = x
  <2>1. <<x>> \in Seq(Nat \X Nat) /\ Len(<<x>>) = 1 /\ <<x>>[1] = x
    BY <1>4
  <2>2. J = b \o <<x>>
    BY <1>2, <1>4, <1>5
  <2>3. /\ J \in Seq(Nat \X Nat) /\ Len(J) = n + 1
        /\ \A j \in 1 .. (n + 1) : J[j] = IF j <= n THEN b[j] ELSE <<x>>[j - n]
    BY <1>6, <1>7, <2>1, <2>2, ConcatProperties
  <2>4. DOMAIN J = 1 .. (n + 1)
    BY <2>3, LenProperties
  <2>5. \A j \in 1 .. n : j \in 1 .. (n + 1) /\ j <= n
    BY <1>7
  <2>6. n + 1 \in 1 .. (n + 1) /\ ~(n + 1 <= n) /\ (n + 1) - n = 1
    BY <1>7
  <2> QED
    BY <2>1, <2>3, <2>4, <2>5, <2>6
<1>9. In(J) \subseteq In(parts) \cup In(p.pieces) /\ J # <<>> /\ x \in In(J)
  <2>1. In(p.pieces) = {x}
    BY <1>2, <1>4 DEF In
  <2>2. \A j \in DOMAIN J : J[j] = x \/ J[j] \in In(b)
    <3> TAKE j \in DOMAIN J
    <3>1. j \in 1 .. n \/ j = n + 1
      BY <1>7, <1>8
    <3> QED
      BY <1>7, <1>8, <3>1 DEF In
  <2>3. In(J) \subseteq In(b) \cup {x}
    BY <2>2 DEF In
  <2>4. n + 1 \in DOMAIN J
    BY <1>7, <1>8
  <2>5. x \in In(J)
    BY <1>8, <2>4 DEF In
  <2>6. Len(J) # 0 /\ Len(<<>>) = 0
    BY <1>7, <1>8
  <2> QED
    BY <1>6, <2>1, <2>3, <2>5, <2>6
<1>10. CASE u \in hurt
  BY <1>3, <1>4, <1>8, <1>9, <1>10
<1>11. CASE u \notin hurt
  <2>1. u \in Unhurt(rtpSent) /\ RM!Piece(u, i) \in In(flight[1].pieces)
    BY <1>2, <1>11 DEF Unhurt, In
  <2>2. i = 1 \/ Under(flight, u, i - 1)
    BY <2>1, HeadIsNext
  <2>3. CASE i = 1
    <3>1. b = <<>> /\ n = 0
      BY <1>5, <1>7, <2>3
    <3>2. J = <<x>>
      BY <1>2, <1>4, <1>5, <2>3
    <3>3. 1 .. i = {1} /\ \A j \in 1 .. i : j = 1
      BY <2>3
    <3>4. [j \in 1 .. i |-> RM!Piece(u, j)] = [j \in {1} |-> x]
      BY <1>4, <2>3, <3>3
    <3>5. <<x>> = [j \in {1} |-> x]
      OBVIOUS
    <3> QED
      BY <1>3, <1>8, <1>9, <1>11, <2>3, <3>2, <3>4, <3>5
  <2>4. CASE i # 1
    <3>1. PICK m \in Nat : m = i - 1 /\ i = m + 1
      BY <1>1, <2>4
    <3>2. started /\ parts = [j \in 1 .. m |-> RM!Piece(u, j)]
      BY <1>3, <2>2, <2>4, <3>1 DEF Under, Had
    <3>3. J = [j \in 1 .. m |-> RM!Piece(u, j)] \o <<RM!Piece(u, m + 1)>>
      BY <1>2, <1>5, <2>4, <3>1, <3>2
    <3>4. J = [j \in 1 .. (m + 1) |-> RM!Piece(u, j)]
      BY <1>1, <3>3, OneMore
    <3> QED
      BY <1>3, <1>8, <1>9, <1>11, <3>1, <3>2, <3>4
  <2> QED
    BY <2>3, <2>4
<1> QED
  BY <1>10, <1>11

\* The fragments of a unit.
LEMMA FragmentFed ==
  ASSUME RtpInv, RM!Feed, flight[1].form # "single"
  PROVE  RtpInv'
<1>1. flight # <<>> /\ flight' = Tail(flight) /\ UNCHANGED <<rtpCodec, rtpSent, hurt>>
  BY DEF RM!Feed
<1>2. /\ rtpSent \in 0 .. Len(Units) /\ rtpSent \in Nat /\ 1 \in DOMAIN flight
      /\ flight[1] \in Packs /\ Head(flight) = flight[1] /\ Fits(flight[1], rtpSent)
  BY <1>1, HeadFacts
<1>3. PICK p : p = flight[1]
  OBVIOUS
<1>4. p.form = "fragment" /\ RM!Join(p) /\ p.start \in BOOLEAN
  BY <1>2, <1>3 DEF RM!Feed, Packs
<1>5. PICK u \in 1 .. rtpSent : \E i \in 1 .. Units[u] : Carries(p, u, i)
  BY <1>2, <1>3, <1>4 DEF Fits, Joins
<1>6. PICK i \in 1 .. Units[u] : Carries(p, u, i)
  BY <1>5
<1>7. PICK J : J = RM!Begins(p) \o p.pieces
  OBVIOUS
<1>8. /\ rtpCodec # "raw" /\ J \in Seq(Nat \X Nat) /\ J # <<>>
      /\ In(J) \subseteq In(parts) \cup In(p.pieces)
      /\ IF u \in hurt THEN \E x \in In(J) : x[1] \in hurt
         ELSE /\ J = [j \in 1 .. i |-> RM!Piece(u, j)]
              /\ i # 1 => started
  BY <1>1, <1>3, <1>4, <1>6, <1>7, JoinedIs
<1>9. u \in Nat /\ Units[u] \in Nat /\ i \in Nat /\ u \in 1 .. Len(Units)
  <2>1. u \in 1 .. Len(Units) /\ u \in Nat
    BY <1>2
  <2> QED
    BY <2>1, UnitLong
<1>10. In(p.pieces) = {RM!Piece(u, i)} /\ RM!Piece(u, i)[1] = u
  BY <1>6 DEF Carries, In, RM!Piece
<1>11. \A v, j : RM!Piece(v, j) \in In(p.pieces) => v = u /\ j = i
  <2>1. \A v, j : RM!Piece(v, j)[1] = v /\ RM!Piece(v, j)[2] = j
    BY DEF RM!Piece
  <2> QED
    BY <1>10, <2>1
<1>12. p.start = (i = 1)
  BY <1>6 DEF Carries
<1>13. parts \in Seq(Nat \X Nat) /\ started \in BOOLEAN
  BY DEF RtpInv, RtpSound, Came
<1>14. <<>> \in Seq(Seq(Nat \X Nat)) /\ DOMAIN <<>> = {} /\ rtpOut \o <<>> = rtpOut
  BY ConcatEmptySeq DEF RtpInv, RtpSound, Came
<1>15. CASE ~p.start /\ ~started
  <2>1. started' = started /\ parts' = parts /\ rtpOut' = rtpOut
    BY <1>4, <1>15 DEF RM!Join
  <2>2. Makes(<<>>)
    BY <1>1, <1>13, <1>14, <2>1 DEF Makes
  <2>3. ASSUME NEW v \in Unhurt(rtpSent), NEW j \in 1 .. Units[v],
               RM!Piece(v, j) \in In(p.pieces), j = 1 \/ Under(flight, v, j - 1)
        PROVE  FALSE
    <3>1. v = u /\ j = i /\ u \notin hurt
      BY <1>11, <2>3 DEF Unhurt
    <3> QED
      BY <1>8, <1>12, <1>15, <3>1
  <2> QED
    BY <1>1, <1>3, <2>2, <2>3, FedSound
<1>16. CASE p.start \/ started
  <2>1. PICK done \in BOOLEAN : done = ((rtpCodec = "nal" /\ p.end) \/ p.marker)
    OBVIOUS
  <2>2. /\ started' = ~done
        /\ parts' = (IF done THEN <<>> ELSE J)
        /\ rtpOut' = (IF done THEN Append(rtpOut, J) ELSE rtpOut)
    BY <1>4, <1>7, <1>16, <2>1 DEF RM!Join
  <2>3. done <=> i = Units[u]
    BY <1>6, <2>1 DEF Carries
  <2>4. CASE ~done
    <3>1. started' = TRUE /\ parts' = J /\ rtpOut' = rtpOut
      BY <2>2, <2>4
    <3>2. Makes(<<>>)
      BY <1>1, <1>3, <1>8, <1>14, <3>1 DEF Makes
    <3>3. ASSUME NEW v \in Unhurt(rtpSent), NEW j \in 1 .. Units[v],
                 RM!Piece(v, j) \in In(p.pieces), j = 1 \/ Under(flight, v, j - 1)
          PROVE  IF j = Units[v] THEN Home(v)' ELSE Had(v, j)'
      <4>1. v = u /\ j = i /\ u \notin hurt
        BY <1>11, <3>3 DEF Unhurt
      <4>2. Had(u, i)'
        BY <1>1, <1>8, <3>1, <4>1 DEF Had
      <4> QED
        BY <2>3, <2>4, <4>1, <4>2
    <3> QED
      BY <1>1, <1>3, <3>2, <3>3, FedSound
  <2>5. CASE done
    <3>1. started' = FALSE /\ parts' = <<>> /\ rtpOut' = Append(rtpOut, J)
      BY <2>2, <2>5
    <3>2. PICK N : N = <<J>>
      OBVIOUS
    <3>3. /\ N \in Seq(Seq(Nat \X Nat)) /\ DOMAIN N = {1} /\ N[1] = J
          /\ rtpOut' = rtpOut \o N
      <4>1. rtpOut \in Seq(Seq(Nat \X Nat))
        BY DEF RtpInv, RtpSound, Came
      <4> QED
        BY <1>8, <3>1, <3>2, <4>1, AppendIsConcat
    <3>4. In(<<>>) = {} /\ <<>> \in Seq(Nat \X Nat)
      BY DEF In
    <3>5. u \notin hurt => J = RM!Whole(u) /\ 1 \in 1 .. i /\ J[1] = RM!Piece(u, 1) /\ J[1][1] = u
      <4>1. u \notin hurt => J = RM!Whole(u)
        BY <1>8, <2>3, <2>5 DEF RM!Whole
      <4>2. 1 \in 1 .. i
        BY <1>9
      <4>3. u \notin hurt => J[1] = RM!Piece(u, 1)
        BY <1>8, <4>2
      <4>4. RM!Piece(u, 1)[1] = u
        BY DEF RM!Piece
      <4> QED
        BY <4>1, <4>2, <4>3, <4>4
    <3>6. Makes(N)
      <4>1. /\ J # <<>> /\ In(J) \subseteq In(parts) \cup In(p.pieces) /\ In(J) \cap In(parts') = {}
            /\ \/ \E w \in 1 .. rtpSent : J = RM!Whole(w)
               \/ \E x \in In(J) : x[1] \in hurt
        BY <1>8, <3>1, <3>4, <3>5
      <4>2. hurt = {} => \E x \in In(p.pieces) : J[1][1] = x[1]
        BY <1>10, <3>5
      <4>3. \A j \in DOMAIN N : j = 1 /\ N[j] = J /\ ~(j < j)
        BY <3>3
      <4>4. \A j \in DOMAIN N :
              /\ N[j] # <<>> /\ In(N[j]) \subseteq In(parts) \cup In(p.pieces)
              /\ In(N[j]) \cap In(parts') = {}
              /\ \A k \in DOMAIN N : k # j => In(N[k]) \cap In(N[j]) = {}
              /\ rtpCodec # "raw" => \/ \E w \in 1 .. rtpSent : N[j] = RM!Whole(w)
                                     \/ \E x \in In(N[j]) : x[1] \in hurt
              /\ hurt = {} => /\ \E x \in In(p.pieces) : N[j][1][1] = x[1]
                              /\ \A k \in DOMAIN N : k < j => N[k][1][1] <= N[j][1][1]
        BY <4>1, <4>2, <4>3
      <4>5. started' \in BOOLEAN /\ parts' \in Seq(Nat \X Nat) /\ In(parts') \subseteq In(parts) \cup In(p.pieces)
        BY <3>1, <3>4
      <4> QED
        BY <1>1, <1>3, <3>3, <4>4, <4>5 DEF Makes
    <3>7. ASSUME NEW v \in Unhurt(rtpSent), NEW j \in 1 .. Units[v],
                 RM!Piece(v, j) \in In(p.pieces), j = 1 \/ Under(flight, v, j - 1)
          PROVE  IF j = Units[v] THEN Home(v)' ELSE Had(v, j)'
      <4>1. v = u /\ j = i /\ u \notin hurt
        BY <1>11, <3>7 DEF Unhurt
      <4>2. J \in In(N) /\ In(N) \subseteq In(rtpOut')
        BY <1>1, <3>3, <3>6, Fed DEF In
      <4>3. RM!Whole(u) \in In(rtpOut')
        BY <3>5, <4>1, <4>2
      <4>4. Home(u)'
        BY <1>1, <1>8, <4>3 DEF Home
      <4> QED
        BY <2>3, <2>5, <4>1, <4>4
    <3> QED
      BY <1>1, <1>3, <3>6, <3>7, FedSound
  <2> QED
    BY <2>4, <2>5
<1> QED
  BY <1>15, <1>16

LEMMA RtpStarts ==
  ASSUME RM!RtpInit
  PROVE  RtpInv
<1>1. /\ rtpCodec \in {"nal", "jpeg", "raw"} /\ rtpSent = 0 /\ flight = <<>> /\ hurt = {}
      /\ started = FALSE /\ parts = <<>> /\ rtpOut = <<>>
  BY DEF RM!RtpInit
<1>2. /\ <<>> \in Seq(Packs) /\ <<>> \in Seq(Nat \X Nat) /\ <<>> \in Seq(Seq(Nat \X Nat))
      /\ DOMAIN <<>> = {} /\ In(<<>>) = {}
  BY DEF In
<1>3. 0 \in 0 .. Len(Units) /\ 1 .. 0 = {}
  BY RtpAssumption DEF RM!RtpAssumption
<1>4. Sent(flight, rtpSent) /\ Came(rtpSent)
  BY <1>1, <1>2, <1>3 DEF Sent, Came
<1>5. Once(flight) /\ OnceOut
  BY <1>1, <1>2 DEF Once, OnceOut
<1>6. \A u \in Unhurt(rtpSent) : Goes(flight, u)
  BY <1>1, <1>3 DEF Unhurt
<1>7. Explained(rtpSent) /\ Ordered(flight)
  BY <1>1, <1>2 DEF Explained, Ordered
<1> QED
  BY <1>1, <1>4, <1>5, <1>6, <1>7 DEF RtpInv, RtpSound

LEMMA RtpRests ==
  ASSUME RtpInv, rtpVars' = rtpVars
  PROVE  RtpInv'
<1>1. /\ flight' = flight /\ rtpSent' = rtpSent
      /\ UNCHANGED <<rtpCodec, hurt, started, parts, rtpOut>>
  BY DEF rtpVars
<1>2. RtpSound(flight', rtpSent')
  BY <1>1 DEF RtpInv
<1> QED
  BY <1>1, <1>2, OnlyMore

LEMMA RtpSteps ==
  ASSUME RtpInv, RM!RtpNext
  PROVE  RtpInv'
<1>1. CASE RM!Push
  BY <1>1, UnitsPushed
<1>2. CASE RM!Aggregate
  BY <1>2, UnitsTogether
<1>3. CASE RM!Lose
  BY <1>3, PacketLost
<1>4. CASE RM!Overtake
  BY <1>4, PacketOvertaken
<1>5. CASE RM!Feed
  BY <1>5, SinglesFed, FragmentFed
<1> QED
  BY <1>1, <1>2, <1>3, <1>4, <1>5 DEF RM!RtpNext

LEMMA SeenWhole ==
  ASSUME RtpInv
  PROVE  RM!SeenThrough
<1>1. /\ rtpSent \in 0 .. Len(Units) /\ rtpSent \in Nat /\ Len(Units) \in Nat
      /\ flight \in Seq(Packs) /\ DOMAIN flight = 1 .. Len(flight)
      /\ \A a \in DOMAIN flight : flight[a] \in Packs
      /\ Came(rtpSent) /\ OnceOut /\ Explained(rtpSent) /\ Ordered(flight)
      /\ \A u \in Unhurt(rtpSent) : Goes(flight, u)
  <2>1. rtpSent \in 0 .. Len(Units) /\ Len(Units) \in Nat /\ flight \in Seq(Packs)
    BY RtpAssumption DEF RtpInv, RtpSound, Sent, RM!RtpAssumption
  <2>2. DOMAIN flight = 1 .. Len(flight) /\ \A a \in DOMAIN flight : flight[a] \in Packs
    BY <2>1
  <2> QED
    BY <2>1, <2>2 DEF RtpInv, RtpSound
<1>2. \A j \in DOMAIN rtpOut : /\ rtpOut[j] \in Seq(Nat \X Nat) /\ 1 \in DOMAIN rtpOut[j]
                               /\ DOMAIN rtpOut[j] = 1 .. Len(rtpOut[j])
                               /\ rtpOut[j][1] \in Nat \X Nat /\ rtpOut[j][1][1] \in Nat
                               /\ rtpOut[j][1] \in In(rtpOut[j])
  <2> TAKE j \in DOMAIN rtpOut
  <2>1. rtpOut[j] \in Seq(Nat \X Nat) /\ rtpOut[j] # <<>>
    BY <1>1 DEF Came
  <2>2. 1 \in DOMAIN rtpOut[j] /\ DOMAIN rtpOut[j] = 1 .. Len(rtpOut[j])
    BY <2>1, TailOf
  <2>3. rtpOut[j][1] \in Nat \X Nat
    BY <2>1, <2>2
  <2> QED
    BY <2>1, <2>2, <2>3 DEF In
<1>3. DOMAIN rtpOut = 1 .. Len(rtpOut) /\ RM!ToSet(rtpOut) = In(rtpOut)
  BY <1>1 DEF Came, In, RM!ToSet
<1>4. ASSUME NEW u \in 1 .. rtpSent, RM!Arrived(u), u \notin hurt
      PROVE  RM!Comes(u)
  <2>1. u \in 1 .. Len(Units) /\ Units[u] \in Nat /\ Units[u] >= 1 /\ u \in Unhurt(rtpSent)
    BY <1>1, <1>4, UnitLong DEF Unhurt
  <2>2. \A a \in DOMAIN flight : \A i : RM!Piece(u, i) \notin In(flight[a].pieces)
    <3>1. \A i : RM!Piece(u, i)[1] = u
      BY DEF RM!Piece
    <3>2. \A a \in DOMAIN flight : \A x \in In(flight[a].pieces) : x[1] \in RM!UnitsOf(flight[a])
      BY <1>1, UnitsIn
    <3> QED
      BY <1>1, <1>4, <3>1, <3>2 DEF RM!Arrived
  <2>3. ~Away(flight, u)
    <3>1. 1 \in 1 .. Units[u]
      BY <2>1
    <3> QED
      BY <2>2, <3>1 DEF Away
  <2>4. \A m \in Nat : ~Under(flight, u, m)
    <3> SUFFICES ASSUME NEW m \in Nat, Under(flight, u, m) PROVE FALSE
      OBVIOUS
    <3>1. m + 1 \in (m + 1) .. Units[u]
      BY <2>1 DEF Under, Follow
    <3> QED
      BY <2>2, <3>1 DEF Under, Follow
  <2>5. Home(u)
    BY <1>1, <2>1, <2>3, <2>4 DEF Goes
  <2> QED
    BY <1>3, <2>5 DEF Home, RM!Comes
<1>5. ASSUME NEW o \in RM!Bad, rtpCodec # "raw"
      PROVE  \E i \in 1 .. Len(o) : o[i][1] \in hurt
  <2>1. o \in In(rtpOut) /\ \A u \in 1 .. Len(Units) : o # RM!Whole(u)
    BY <1>3 DEF RM!Bad
  <2>2. PICK j \in DOMAIN rtpOut : o = rtpOut[j]
    BY <2>1 DEF In
  <2>3. \A u \in 1 .. rtpSent : u \in 1 .. Len(Units)
    BY <1>1
  <2>4. \E x \in In(o) : x[1] \in hurt
    BY <1>1, <1>5, <2>1, <2>2, <2>3 DEF Explained
  <2> QED
    BY <1>2, <2>2, <2>4 DEF In
<1>6. RM!IsInjective(rtpOut)
  <2>1. ASSUME NEW i \in DOMAIN rtpOut, NEW j \in DOMAIN rtpOut, i # j
        PROVE  rtpOut[i] # rtpOut[j]
    BY <1>1, <1>2, <2>1 DEF OnceOut
  <2> QED
    BY <2>1 DEF RM!IsInjective
<1>7. ASSUME hurt = {}, NEW i \in DOMAIN rtpOut, NEW j \in DOMAIN rtpOut, i < j
      PROVE  \/ rtpOut[i][1][1] < rtpOut[j][1][1]
             \/ rtpCodec = "raw" /\ rtpOut[i][1][1] = rtpOut[j][1][1]
  <2>1. rtpOut[i][1][1] <= rtpOut[j][1][1] /\ rtpOut[i][1][1] \in Nat /\ rtpOut[j][1][1] \in Nat
    BY <1>1, <1>2, <1>7 DEF Ordered
  <2>2. rtpCodec # "raw" => rtpOut[i][1][1] # rtpOut[j][1][1]
    <3> SUFFICES ASSUME rtpCodec # "raw", rtpOut[i][1][1] = rtpOut[j][1][1] PROVE FALSE
      OBVIOUS
    <3>1. \A k \in DOMAIN rtpOut : \E u \in 1 .. rtpSent : rtpOut[k] = RM!Whole(u)
      BY <1>1, <1>7 DEF Explained
    <3>2. \A u \in 1 .. rtpSent : RM!Whole(u)[1][1] = u
      <4> TAKE u \in 1 .. rtpSent
      <4>1. u \in 1 .. Len(Units) /\ Units[u] \in Nat /\ Units[u] >= 1
        BY <1>1, UnitLong
      <4>2. RM!Whole(u)[1] = RM!Piece(u, 1)
        BY <4>1 DEF RM!Whole
      <4> QED
        BY <4>2 DEF RM!Piece
    <3>3. rtpOut[i] = rtpOut[j]
      BY <3>1, <3>2
    <3>4. i # j
      BY <1>1, <1>3, <1>7, LenProperties DEF Came
    <3> QED
      BY <1>1, <1>2, <3>3, <3>4 DEF OnceOut
  <2> QED
    BY <2>1, <2>2
<1> QED
  BY <1>3, <1>4, <1>5, <1>6, <1>7 DEF RM!SeenThrough

\* Whatever the units, the number of packets lost or overtaken and that of
\* packets on the way: each unit whose packets all came in order comes out
\* whole, once and in its place; a sample that is no unit has a piece of one
\* that a fault touched. The depacketizers look at no sequence number.
THEOREM UntouchedComeWhole == Spec => []SeenThrough
<1>1. Init => RtpInv
  BY RtpStarts DEF Init
<1>2. RtpInv /\ [Next]_vars => RtpInv'
  <2> SUFFICES ASSUME RtpInv, [Next]_vars PROVE RtpInv'
    OBVIOUS
  <2>1. CASE RMStep
    BY <2>1, RtpSteps DEF RMStep
  <2>2. CASE rtpVars' = rtpVars
    BY <2>2, RtpRests
  <2> QED
    BY <2>1, <2>2 DEF Next, vars, DCStep, ONStep, RFStep, PFStep, ALStep, SBStep, MOStep
<1>3. RtpInv => SeenThrough
  BY SeenWhole DEF SeenThrough
<1> QED
  BY <1>1, <1>2, <1>3, PTL DEF Spec

-----------------------------------------------------------------------------
(* The motion detector *)

\* What is left of a distance after one more frame.
Nearer(x) == x - (x * Alpha) \div Unit

\* The place in Left of a picture shown n times.
Place(n) == IF n < Len(Left) THEN n + 1 ELSE Len(Left)

Apart(f, b, c) == MO!Abs(f[c] * Unit - b[c])

\* The background is within what Left allows of a picture shown again.
MotionInv ==
  /\ grid \in Nat \ {0}
  /\ background \in [1 .. grid -> 0 .. (Top * Unit)]
  /\ same \in Nat /\ (same = 0 <=> ~known)
  /\ same > 0 => /\ motionShown \in [1 .. grid -> 0 .. Top]
                 /\ \A c \in 1 .. grid :
                      Apart(motionShown, background, c) <= Left[Place(same)]
  /\ MO!StillSettles

LEMMA LumaFacts ==
  /\ Unit \in Nat /\ Unit >= 1 /\ Alpha \in Nat /\ Alpha >= 1 /\ Alpha <= Unit
  /\ Delta \in Nat /\ Delta >= 1 /\ Top \in Nat /\ Top * Unit \in Nat
  /\ Threshold \in Nat /\ Threshold >= 1
BY MotionAssumption DEF MO!MotionAssumption

LEMMA LeftFacts ==
  /\ Len(Left) \in Nat /\ Len(Left) >= 1 /\ Left[1] = Top * Unit
  /\ \A n \in 1 .. Len(Left) : Left[n] \in Nat
  /\ \A n \in 1 .. (Len(Left) - 1) : Left[n + 1] = Nearer(Left[n])
  /\ Left[Len(Left)] <= (Delta - 1) * Unit
<1>1. Left \in Seq(Nat) /\ Left # <<>>
  BY MotionAssumption DEF MO!MotionAssumption
<1>2. Len(Left) \in Nat /\ Len(Left) >= 1 /\ \A n \in 1 .. Len(Left) : Left[n] \in Nat
  BY <1>1
<1> QED
  BY <1>2, MotionAssumption DEF MO!MotionAssumption, Nearer

LEMMA Dividing ==
  ASSUME NEW a \in Int, NEW k \in Nat, k >= 1
  PROVE  /\ a \div k \in Int
         /\ k * (a \div k) <= a /\ a < k * (a \div k) + k
BY SMT

\* A larger factor makes a larger product.
LEMMA Times ==
  ASSUME NEW k \in Nat, NEW a \in Int, NEW b \in Int, a <= b
  PROVE  k * a <= k * b
BY SMT

\* If k times one is less than k times the other and one more, it is no larger.
LEMMA NoLarger ==
  ASSUME NEW k \in Nat, k >= 1, NEW a \in Int, NEW b \in Int, k * a < k * b + k
  PROVE  a <= b
<1>1. SUFFICES ASSUME b + 1 <= a PROVE FALSE
  OBVIOUS
<1>2. k * (b + 1) <= k * a
  BY <1>1, Times
<1>3. k * (b + 1) = k * b + k /\ k * a \in Int /\ k * b \in Int
  OBVIOUS
<1> QED
  BY <1>2, <1>3

\* The part of a distance that goes is no more than the distance.
LEMMA PartOf ==
  ASSUME NEW x \in Nat
  PROVE  /\ (x * Alpha) \div Unit \in Nat
         /\ (x * Alpha) \div Unit <= x
         /\ Nearer(x) \in 0 .. x
<1> DEFINE p == x * Alpha
<1>1. p \in Nat
  BY LumaFacts
<1>2. p <= Unit * x
  <2>1. x * Alpha <= x * Unit
    BY LumaFacts, Times
  <2>2. x * Unit = Unit * x
    BY LumaFacts
  <2> QED
    BY <2>1, <2>2
<1> HIDE DEF p
<1> DEFINE q == p \div Unit
<1>3. q \in Int /\ Unit * q <= p /\ p < Unit * q + Unit
  BY <1>1, LumaFacts, Dividing
<1> HIDE DEF q
<1>4. Unit * q < Unit * x + Unit
  BY <1>1, <1>2, <1>3, LumaFacts
<1>5. q <= x
  BY <1>3, <1>4, LumaFacts, NoLarger
<1>6. Unit * 0 < Unit * q + Unit
  BY <1>1, <1>3, LumaFacts
<1>7. 0 <= q
  BY <1>3, <1>6, LumaFacts, NoLarger
<1> QED
  BY <1>3, <1>5, <1>7 DEF Nearer, q, p

\* A smaller distance stays the smaller one.
LEMMA NearerKeeps ==
  ASSUME NEW x \in Nat, NEW y \in Nat, x <= y
  PROVE  Nearer(x) <= Nearer(y)
<1> DEFINE p == x * Alpha
           r == y * Alpha
<1>1. p \in Nat /\ r \in Nat
  BY LumaFacts
<1>2. r <= p + Unit * (y - x)
  <2>1. (y - x) * Alpha <= (y - x) * Unit
    BY LumaFacts, Times
  <2>2. (y - x) * Alpha = r - p /\ (y - x) * Unit = Unit * (y - x)
    BY LumaFacts
  <2> QED
    BY <1>1, <2>1, <2>2, LumaFacts
<1> HIDE DEF p, r
<1> DEFINE q == p \div Unit
           s == r \div Unit
<1>3. q \in Int /\ Unit * q <= p /\ p < Unit * q + Unit
  BY <1>1, LumaFacts, Dividing
<1>4. s \in Int /\ Unit * s <= r /\ r < Unit * s + Unit
  BY <1>1, LumaFacts, Dividing
<1> HIDE DEF q, s
<1>5. Unit * (q + (y - x)) = Unit * q + Unit * (y - x)
  BY <1>3, LumaFacts
<1>6. Unit * s < Unit * (q + (y - x)) + Unit
  BY <1>1, <1>2, <1>3, <1>4, <1>5, LumaFacts
<1>7. s <= q + (y - x)
  BY <1>3, <1>4, <1>6, LumaFacts, NoLarger
<1> QED
  BY <1>3, <1>4, <1>7 DEF Nearer, q, s, p, r

\* A cell of the background that follows comes nearer, and not past the frame.
LEMMA CellFollows ==
  ASSUME NEW f \in 0 .. Top, NEW b \in 0 .. (Top * Unit), NEW d \in Nat,
         MO!Abs(f * Unit - b) <= d,
         NEW n, n = b + MO!Quotient((f * Unit - b) * Alpha, Unit)
  PROVE  n \in 0 .. (Top * Unit) /\ MO!Abs(f * Unit - n) <= Nearer(d)
<1> DEFINE g == f * Unit
<1>1. g \in 0 .. (Top * Unit)
  <2>1. Unit * 0 <= Unit * f /\ Unit * f <= Unit * Top
    BY LumaFacts, Times
  <2> QED
    BY <2>1, LumaFacts
<1> HIDE DEF g
<1>2. CASE g >= b
  <2> DEFINE x == g - b
  <2>1. x \in Nat /\ x <= d
    BY <1>1, <1>2, LumaFacts DEF MO!Abs, g
  <2>2. n = b + (x * Alpha) \div Unit
    <3>1. x * Alpha >= 0
      BY <2>1, LumaFacts
    <3> QED
      BY <3>1 DEF MO!Quotient, g
  <2> HIDE DEF x
  <2>3. g - n = Nearer(x) /\ n \in Nat
    <3>1. x = g - b
      BY DEF x
    <3>2. PICK q \in Nat : q = (x * Alpha) \div Unit
      BY <2>1, PartOf
    <3> QED
      BY <1>1, <2>2, <3>1, <3>2, LumaFacts DEF Nearer
  <2>4. Nearer(x) <= Nearer(d) /\ Nearer(x) \in Nat
    BY <2>1, NearerKeeps, PartOf
  <2> QED
    BY <1>1, <2>3, <2>4, LumaFacts DEF MO!Abs, g
<1>3. CASE g < b
  <2> DEFINE x == b - g
  <2>1. x \in Nat /\ x >= 1 /\ x <= d
    BY <1>1, <1>3, LumaFacts DEF MO!Abs, g
  <2>2. n = b - (x * Alpha) \div Unit
    <3>1. (g - b) * Alpha = -(x * Alpha) /\ x * Alpha \in Nat
      BY <1>1, <2>1, LumaFacts
    <3>2. x * Alpha >= 1
      <4>1. x * 1 <= x * Alpha
        BY <2>1, LumaFacts, Times
      <4> QED
        BY <2>1, <3>1, <4>1
    <3>3. PICK p \in Nat : p = x * Alpha
      BY <3>1
    <3>4. PICK q \in Nat : q = p \div Unit
      BY <2>1, <3>3, PartOf
    <3>5. MO!Quotient(-p, Unit) = -q
      <4>1. ~(-p >= 0) /\ -(-p) = p
        BY <3>2, <3>3
      <4> QED
        BY <3>4, <4>1 DEF MO!Quotient
    <3>6. n = b + (-q)
      BY <3>1, <3>3, <3>5 DEF g
    <3> QED
      BY <1>1, <3>3, <3>4, <3>6, LumaFacts
  <2> HIDE DEF x
  <2>3. n - g = Nearer(x) /\ n \in Int /\ n <= b
    <3>1. x = b - g
      BY DEF x
    <3>2. PICK q \in Nat : q = (x * Alpha) \div Unit
      BY <2>1, PartOf
    <3> QED
      BY <1>1, <2>2, <3>1, <3>2, LumaFacts DEF Nearer
  <2>4. Nearer(x) <= Nearer(d) /\ Nearer(x) \in Nat
    BY <2>1, NearerKeeps, PartOf
  <2> QED
    BY <1>1, <2>3, <2>4, LumaFacts DEF MO!Abs, g
<1> QED
  BY <1>1, <1>2, <1>3, LumaFacts

\* Near enough to the background, a cell has not moved.
LEMMA CellStill ==
  ASSUME NEW f \in 0 .. Top, NEW b \in 0 .. (Top * Unit),
         MO!Abs(f * Unit - b) <= (Delta - 1) * Unit
  PROVE  ~(MO!Abs(f - b \div Unit) >= Delta)
<1> DEFINE q == b \div Unit
           g == Unit * f
<1>1. q \in Int /\ Unit * q <= b /\ b < Unit * q + Unit
  BY LumaFacts, Dividing
<1>2. g = f * Unit /\ g \in Nat
  BY LumaFacts
<1> HIDE DEF q
<1>3. (Delta - 1) * Unit = Unit * (Delta - 1) /\ (Delta - 1) * Unit \in Nat
  BY LumaFacts
<1> HIDE DEF g
<1>4. g - b <= Unit * (Delta - 1) /\ b - g <= Unit * (Delta - 1)
  BY <1>2, <1>3, LumaFacts DEF MO!Abs
<1>5. f <= q + (Delta - 1)
  <2>1. Unit * (q + (Delta - 1)) = Unit * q + Unit * (Delta - 1)
    BY <1>1, LumaFacts
  <2>2. Unit * f < Unit * (q + (Delta - 1)) + Unit
    BY <1>1, <1>2, <1>3, <1>4, <2>1, LumaFacts DEF g
  <2> QED
    BY <1>1, <2>2, LumaFacts, NoLarger
<1>6. q <= f + (Delta - 1)
  <2>1. Unit * (f + (Delta - 1)) = Unit * f + Unit * (Delta - 1)
    BY LumaFacts
  <2>2. Unit * q < Unit * (f + (Delta - 1)) + Unit
    BY <1>1, <1>2, <1>3, <1>4, <2>1, LumaFacts DEF g
  <2> QED
    BY <1>1, <2>2, LumaFacts, NoLarger
<1> QED
  BY <1>1, <1>5, <1>6, LumaFacts DEF MO!Abs, q

LEMMA NothingMoved ==
  MO!Cardinality({}) = 0
<1>1. MO!Cardinality({}) = Cardinality({})
  BY Zenon DEF MO!Cardinality, Cardinality
<1> QED
  BY <1>1, FS_EmptySet

LEMMA MotionStarts ==
  ASSUME MO!MotionInit
  PROVE  MotionInv
<1>1. grid \in Nat \ {0} /\ Top * Unit \in Nat
  BY MotionAssumption, LumaFacts DEF MO!MotionInit, MO!MotionAssumption
<1> QED
  BY <1>1, LeftFacts DEF MO!MotionInit, MotionInv, MO!Blank, MO!StillSettles

LEMMA MotionRests ==
  ASSUME MotionInv, motionVars' = motionVars
  PROVE  MotionInv'
BY DEF MotionInv, motionVars, MO!StillSettles, Apart, Place, MO!Abs

\* Each frame of a still picture finds the background as near as Left says,
\* and leaves it as near as the place behind says.
LEMMA MotionFeeds ==
  ASSUME MotionInv, NEW f \in [MO!Cells -> Levels], NEW gap \in Gaps, MO!Feed(f, gap)
  PROVE  MotionInv'
<1> DEFINE C == 1 .. grid
           k == IF f = motionShown /\ same > 0 THEN Place(same) ELSE 1
           seeded == background' = MO!Seed(f)
<1>1. /\ grid' = grid /\ motionShown' = f /\ known' = TRUE
      /\ same' = IF f = motionShown THEN same + 1 ELSE 1
      /\ seeded \/ background' = MO!Follows(f)
  BY DEF MO!Feed
<1>2. /\ grid \in Nat /\ grid >= 1 /\ background \in [C -> 0 .. (Top * Unit)]
      /\ same \in Nat /\ (same = 0 <=> ~known)
  BY DEF MotionInv
<1>3. f \in [C -> 0 .. Top]
  BY MotionAssumption DEF MO!MotionAssumption, MO!Cells
<1>4. k \in 1 .. Len(Left) /\ Left[k] \in Nat
  BY <1>2, LeftFacts DEF Place
<1>5. ASSUME NEW c \in C
      PROVE  MO!Abs(f[c] * Unit - background[c]) <= Left[k]
  <2>1. CASE f = motionShown /\ same > 0
    BY <1>5, <2>1 DEF MotionInv, Apart
  <2>2. CASE ~(f = motionShown /\ same > 0)
    <3>1. k = 1
      BY <2>2
    <3>2. f[c] \in 0 .. Top /\ background[c] \in 0 .. (Top * Unit)
      BY <1>2, <1>3, <1>5
    <3>3. Unit * 0 <= Unit * f[c] /\ Unit * f[c] <= Unit * Top
      BY <3>2, LumaFacts, Times
    <3>4. f[c] * Unit \in 0 .. (Top * Unit)
      BY <3>2, <3>3, LumaFacts
    <3>5. PICK g \in 0 .. (Top * Unit) : g = f[c] * Unit
      BY <3>4
    <3>6. Left[k] = Top * Unit
      BY <3>1, LeftFacts
    <3>7. MO!Abs(g - background[c]) <= Top * Unit
      BY <3>2, <3>5, LumaFacts DEF MO!Abs
    <3> QED
      BY <3>5, <3>6, <3>7
  <2> QED
    BY <2>1, <2>2
<1>6. same' \in Nat /\ same' >= 1
  BY <1>1, <1>2
<1>7. k = IF same' < Len(Left) THEN same' ELSE Len(Left)
  <2>1. CASE f = motionShown /\ same > 0
    <3>1. k = Place(same) /\ same' = same + 1
      BY <1>1, <2>1
    <3> QED
      BY <1>2, <3>1, LeftFacts DEF Place
  <2>2. CASE ~(f = motionShown /\ same > 0)
    <3>1. k = 1 /\ same' = 1
      BY <1>1, <1>2, <2>2
    <3> QED
      BY <3>1, LeftFacts
  <2> QED
    BY <2>1, <2>2
<1> HIDE DEF k
<1>8. Left[Place(same')] \in Nat
      /\ (Left[Place(same')] = Nearer(Left[k]) \/ Left[Place(same')] = Left[k])
  <2>1. k = IF same' < Len(Left) THEN same' ELSE Len(Left)
    BY <1>7
  <2>2. CASE same' < Len(Left)
    <3>1. k = same' /\ Place(same') = k + 1
      BY <2>1, <2>2 DEF Place
    <3>2. k \in 1 .. (Len(Left) - 1) /\ k + 1 \in 1 .. Len(Left)
      <4>1. Len(Left) \in Nat /\ k \in Nat /\ k >= 1 /\ k < Len(Left)
        BY <1>4, <1>6, <2>2, <3>1, LeftFacts
      <4> QED
        BY <4>1
    <3>3. Left[k + 1] = Nearer(Left[k]) /\ Left[k + 1] \in Nat
      BY <3>2, LeftFacts
    <3> QED
      BY <3>1, <3>3
  <2>3. CASE ~(same' < Len(Left))
    <3>1. Place(same') = k
      BY <2>1, <2>3 DEF Place
    <3> QED
      BY <1>4, <3>1
  <2> QED
    BY <2>2, <2>3
<1>9. ASSUME NEW c \in C
      PROVE  /\ background'[c] \in 0 .. (Top * Unit)
             /\ MO!Abs(f[c] * Unit - background'[c]) <= Left[Place(same')]
  <2>1. f[c] \in 0 .. Top /\ background[c] \in 0 .. (Top * Unit)
    BY <1>2, <1>3, <1>9
  <2>2. CASE seeded
    <3>1. background'[c] = f[c] * Unit
      BY <1>9, <2>2 DEF MO!Seed, MO!Cells
    <3>2. Unit * 0 <= Unit * f[c] /\ Unit * f[c] <= Unit * Top
      BY <2>1, LumaFacts, Times
    <3>3. f[c] * Unit \in 0 .. (Top * Unit)
      BY <2>1, <3>2, LumaFacts
    <3> QED
      BY <1>8, <3>1, <3>3, LumaFacts DEF MO!Abs
  <2>3. CASE background' = MO!Follows(f)
    <3>1. background'[c] = background[c] + MO!Quotient((f[c] * Unit - background[c]) * Alpha, Unit)
      BY <1>9, <2>3 DEF MO!Follows, MO!Cells
    <3>2. /\ background'[c] \in 0 .. (Top * Unit)
          /\ MO!Abs(f[c] * Unit - background'[c]) <= Nearer(Left[k])
      BY <1>4, <1>5, <1>9, <2>1, <3>1, CellFollows
    <3>3. Nearer(Left[k]) \in 0 .. Left[k]
      BY <1>4, PartOf
    <3>4. MO!Abs(f[c] * Unit - background'[c]) \in Int
      BY <2>1, <3>2, LumaFacts DEF MO!Abs
    <3> QED
      BY <1>4, <1>8, <3>2, <3>3, <3>4
  <2> QED
    BY <1>1, <2>2, <2>3
<1>10. background' \in [C -> 0 .. (Top * Unit)]
  <2>1. background' = [c \in C |-> background'[c]]
    BY <1>1 DEF MO!Seed, MO!Follows, MO!Cells
  <2> QED
    BY <1>9, <2>1
<1>11. same' >= Len(Left) => verdict' = "still"
  <2> SUFFICES ASSUME same' >= Len(Left) PROVE verdict' = "still"
    OBVIOUS
  <2>1. k = Len(Left)
    BY <1>6, <1>7, LeftFacts
  <2>2. ASSUME NEW c \in C PROVE ~(MO!Abs(f[c] - background[c] \div Unit) >= Delta)
    <3>1. f[c] \in 0 .. Top /\ background[c] \in 0 .. (Top * Unit)
      BY <1>2, <1>3, <2>2
    <3>2. MO!Abs(f[c] * Unit - background[c]) \in Int /\ (Delta - 1) * Unit \in Int
      BY <3>1, LumaFacts DEF MO!Abs
    <3>3. MO!Abs(f[c] * Unit - background[c]) <= (Delta - 1) * Unit
      BY <1>4, <1>5, <2>1, <2>2, <3>2, LeftFacts
    <3> QED
      BY <3>1, <3>3, CellStill
  <2>3. MO!Moved(f) = {}
    BY <2>2 DEF MO!Moved, MO!Cells
  <2>4. 100 * MO!Cardinality(MO!Moved(f)) < Threshold * grid
    <3>1. Threshold * 1 <= Threshold * grid
      BY <1>2, LumaFacts, Times
    <3>2. Threshold * grid >= 1
      BY <1>2, <3>1, LumaFacts
    <3>3. 100 * MO!Cardinality(MO!Moved(f)) = 0
      BY <2>3, NothingMoved
    <3> QED
      BY <1>2, <3>2, <3>3, LumaFacts
  <2> QED
    BY <2>4 DEF MO!Feed
<1>12. \A c \in C : Apart(motionShown', background', c) <= Left[Place(same')]
  BY <1>1, <1>9 DEF Apart
<1>13. MO!StillSettles'
  BY <1>11 DEF MO!StillSettles
<1>14. grid' \in Nat \ {0} /\ background' \in [1 .. grid' -> 0 .. (Top * Unit)]
       /\ motionShown' \in [1 .. grid' -> 0 .. Top] /\ (same' = 0 <=> ~known')
  BY <1>1, <1>2, <1>3, <1>6, <1>10
<1>15. \A c \in 1 .. grid' :
         (Apart(motionShown, background, c) <= Left[Place(same)])'
  BY <1>1, <1>12 DEF Apart, Place
<1> QED
  BY <1>6, <1>13, <1>14, <1>15 DEF MotionInv

LEMMA MotionSteps ==
  ASSUME MotionInv, MO!MotionNext
  PROVE  MotionInv'
<1>1. CASE \E f \in [MO!Cells -> Levels], gap \in Gaps : MO!Feed(f, gap)
  BY <1>1, MotionFeeds
<1>2. CASE MO!Reset
  BY <1>2, LeftFacts DEF MO!Reset, MotionInv, MO!StillSettles
<1>3. ASSUME NEW g \in Grids, MO!Regrid(g)
      PROVE  MotionInv'
  <2>1. g \in Nat \ {0} /\ Top * Unit \in Nat
    BY MotionAssumption, LumaFacts DEF MO!MotionAssumption
  <2>2. grid' = g /\ known' = FALSE /\ same' = 0 /\ background' = [c \in 1 .. g |-> 0]
    BY <1>3 DEF MO!Regrid, MO!Blank
  <2> QED
    BY <2>1, <2>2, LeftFacts DEF MotionInv, MO!StillSettles
<1> QED
  BY <1>1, <1>2, <1>3 DEF MO!MotionNext

\* A picture that stays as it is stops being motion, for any grid, levels and
\* share the background takes: after as many frames as it takes the largest
\* difference to get below what counts as one, whatever was shown before, with
\* the division that rounds toward zero and the shift that rounds down.
THEOREM StillStopsMoving == Spec => []StillSettles
<1>1. Init => MotionInv
  BY MotionStarts DEF Init
<1>2. MotionInv /\ [Next]_vars => MotionInv'
  <2> SUFFICES ASSUME MotionInv, [Next]_vars PROVE MotionInv'
    OBVIOUS
  <2>1. CASE MOStep
    BY <2>1, MotionSteps DEF MOStep
  <2>2. CASE motionVars' = motionVars
    BY <2>2, MotionRests
  <2> QED
    BY <2>1, <2>2 DEF Next, vars, RMStep, DCStep, ONStep, RFStep, PFStep, ALStep, SBStep
<1>3. MotionInv => StillSettles
  BY DEF MotionInv, StillSettles
<1> QED
  BY <1>1, <1>2, <1>3, PTL DEF Spec
===============================================================================
