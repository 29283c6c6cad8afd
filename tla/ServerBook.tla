----------------------------- MODULE ServerBook -----------------------------
(* The servers the app knows (client/src/servers.rs, Registro) and the       *)
(* requests it forwards to one of them (client/src/app.rs, encaminhar).      *)
(*                                                                           *)
(* One server is modelled: what is registered of it is its routes and its    *)
(* password.  Every request runs on a thread of its own and takes the two    *)
(* locks, of the list and of the routes chosen, one at a time and never      *)
(* across a probe: between two of its steps the page may have saved another  *)
(* registration.  A save writes the file over itself, then the list, then    *)
(* drops the routes chosen, then replaces the text the page reads back.      *)
EXTENDS Naturals, Sequences

CONSTANTS
  Requests,   \* the threads that serve the page
  Books,      \* what may be registered: [routes: Seq([url, tail]), pass]
  Validity,   \* VALIDADE: how long a chosen route is used unprobed
  Slow,       \* the longest a request takes to choose a route
  MaxSaves,   \* bound: saves by the page
  MaxStarts,  \* bound: starts of the app
  None

ServerBookAssumption ==
  /\ {Validity, Slow, MaxSaves} \subseteq Nat /\ MaxStarts \in Nat \ {0} /\ None \notin Books
  /\ \A b \in Books : /\ Len(b.routes) \in Nat \ {0}
                       /\ DOMAIN b.routes = 1 .. Len(b.routes)

VARIABLES
  disk,    \* servers.json; None = not there, or cut short by a crash
  book,    \* Registro.servidores
  choice,  \* Registro.escolha: [url, age], or None
  shown,   \* App.servers_json
  up,      \* the addresses that answer
  req,     \* what each thread is at
  since,   \* time since the list was last replaced
  saves, starts

svars == <<disk, book, choice, shown, up, req, since, saves, starts>>

UrlsOf(b) == IF b = None THEN {} ELSE {b.routes[i].url : i \in DOMAIN b.routes}

Urls == UNION {UrlsOf(b) : b \in Books}

Idle == [at |-> "idle"]

\* A time past every limit tells nothing more.
Ages == 0 .. Validity

Long == Slow + Validity + 1

StoredTypeOK ==
  /\ {disk, book, shown} \subseteq Books \cup {None}
  /\ choice = None \/ choice \in [url : Urls, age : Ages]
  /\ up \subseteq Urls /\ since \in 0 .. Long
  /\ saves \in 0 .. MaxSaves /\ starts \in 1 .. MaxStarts

\* App::new: what the file says.
BookInit ==
  /\ disk \in Books \cup {None}
  /\ book = disk /\ shown = disk /\ choice = None /\ up = {}
  /\ req = [r \in Requests |-> Idle]
  /\ since = Long /\ saves = 0 /\ starts = 1

At(r, stage) == req[r].at = stage

Becomes(r, x) == req' = [req EXCEPT ![r] = x]

----------------------------------------------------------------------------
(* A forwarded request: url_de, credencial, the answer *)

Fresh == choice /= None /\ choice.age < Validity

\* Wrong on purpose: a hit renews the choice.
LookRenews(r) ==
  /\ At(r, "idle")
  /\ IF Fresh
       THEN /\ Becomes(r, [at |-> "send", url |-> choice.url])
            /\ choice' = [choice EXCEPT !.age = 0]
       ELSE Becomes(r, [at |-> "find"]) /\ UNCHANGED choice
  /\ UNCHANGED <<disk, book, shown, up, since, saves, starts>>

\* url_de: a route chosen not long ago is used as it is.
Look(r) ==
  /\ At(r, "idle")
  /\ Becomes(r, IF Fresh THEN [at |-> "send", url |-> choice.url] ELSE [at |-> "find"])
  /\ UNCHANGED <<disk, book, choice, shown, up, since, saves, starts>>

\* achar: the request goes on with a copy of the registration, if there is one.
Find(r) ==
  /\ At(r, "find")
  /\ Becomes(r, CASE book = None -> Idle
                  [] book /= None /\ Len(book.routes) = 1 ->
                       [at |-> "keep", url |-> book.routes[1].url]
                  [] OTHER -> [at |-> "probe", of |-> book, i |-> 1, age |-> 0])
  /\ UNCHANGED <<disk, book, choice, shown, up, since, saves, starts>>

\* When no route answers: the first of the tailnet, else the first of all.
Otherwise(b) ==
  LET tails == {i \in DOMAIN b.routes : b.routes[i].tail}
  IN  b.routes[IF tails = {} THEN 1
               ELSE CHOOSE i \in tails : \A j \in tails : i <= j].url

\* escolher: one route after the other, those of the tailnet left aside, with
\* no lock held.
Probe(r) ==
  /\ At(r, "probe")
  /\ LET b == req[r].of
         i == req[r].i
     IN  Becomes(r, CASE i > Len(b.routes) -> [at |-> "keep", url |-> Otherwise(b)]
                      [] i <= Len(b.routes) /\ ~b.routes[i].tail /\ b.routes[i].url \in up ->
                           [at |-> "keep", url |-> b.routes[i].url]
                      [] OTHER -> [req[r] EXCEPT !.i = i + 1])
  /\ UNCHANGED <<disk, book, choice, shown, up, since, saves, starts>>

\* url_de: the route chosen is kept.
Keep(r) ==
  /\ At(r, "keep")
  /\ choice' = [url |-> req[r].url, age |-> 0]
  /\ Becomes(r, [at |-> "send", url |-> req[r].url])
  /\ UNCHANGED <<disk, book, shown, up, since, saves, starts>>

\* credencial: the password is looked up on its own, whatever is registered
\* by now.
Send(r) ==
  /\ At(r, "send")
  /\ Becomes(r, [at |-> "wait", url |-> req[r].url,
                 pass |-> IF book = None THEN None ELSE book.pass])
  /\ UNCHANGED <<disk, book, choice, shown, up, since, saves, starts>>

\* encaminhar: the answer goes back to the page; no answer, and the route is
\* chosen anew the next time.
Answer(r) ==
  /\ At(r, "wait") /\ Becomes(r, Idle)
  /\ choice' = IF req[r].url \in up THEN choice ELSE None
  /\ UNCHANGED <<disk, book, shown, up, since, saves, starts>>

----------------------------------------------------------------------------
(* The page saves the servers: app_servers, carregar *)

\* The file is emptied, then written.
Save(r, b) ==
  /\ At(r, "idle") /\ saves < MaxSaves /\ saves' = saves + 1
  /\ disk' = None /\ Becomes(r, [at |-> "write", new |-> b])
  /\ UNCHANGED <<book, choice, shown, up, since, starts>>

Written(r) ==
  /\ At(r, "write") /\ disk' = req[r].new
  /\ Becomes(r, [req[r] EXCEPT !.at = "load"])
  /\ UNCHANGED <<book, choice, shown, up, since, saves, starts>>

\* The disk refuses: the page is told, and the file stays as the write left it.
NotWritten(r) ==
  /\ At(r, "write") /\ Becomes(r, Idle)
  /\ UNCHANGED <<disk, book, choice, shown, up, since, saves, starts>>

Load(r) ==
  /\ At(r, "load") /\ book' = req[r].new /\ since' = 0
  /\ Becomes(r, [req[r] EXCEPT !.at = "drop"])
  /\ UNCHANGED <<disk, choice, shown, up, saves, starts>>

DropChoices(r) ==
  /\ At(r, "drop") /\ choice' = None
  /\ Becomes(r, [req[r] EXCEPT !.at = "show"])
  /\ UNCHANGED <<disk, book, shown, up, since, saves, starts>>

Show(r) ==
  /\ At(r, "show") /\ shown' = req[r].new /\ Becomes(r, Idle)
  /\ UNCHANGED <<disk, book, choice, up, since, saves, starts>>

----------------------------------------------------------------------------
(* The rest of the world *)

\* Time passes; a request chooses within Slow, a save between two ticks.
Tick ==
  /\ \A r \in Requests : /\ req[r].at \notin {"find", "keep", "load", "drop"}
                         /\ At(r, "probe") => req[r].age < Slow
  /\ since' = IF since = Long THEN since ELSE since + 1
  /\ choice' = IF Fresh THEN [choice EXCEPT !.age = @ + 1] ELSE choice
  /\ req' = [r \in Requests |-> IF At(r, "probe") THEN [req[r] EXCEPT !.age = @ + 1] ELSE req[r]]
  /\ UNCHANGED <<disk, book, shown, up, saves, starts>>

\* An address begins or ceases to answer.
Flip(u) ==
  /\ up' = (up \ {u}) \cup ({u} \ up)
  /\ UNCHANGED <<disk, book, choice, shown, req, since, saves, starts>>

\* The app ends, at any step of any thread, and is opened again.
Reopen ==
  /\ starts < MaxStarts /\ starts' = starts + 1
  /\ book' = disk /\ shown' = disk /\ choice' = None
  /\ req' = [r \in Requests |-> Idle] /\ since' = 0
  /\ UNCHANGED <<disk, up, saves>>

BookNext ==
  \/ \E r \in Requests :
       \/ Look(r) \/ Find(r) \/ Probe(r) \/ Keep(r) \/ Send(r) \/ Answer(r)
       \/ Written(r) \/ NotWritten(r) \/ Load(r) \/ DropChoices(r) \/ Show(r)
       \/ \E b \in Books : Save(r, b)
  \/ Tick \/ Reopen
  \/ \E u \in Urls : Flip(u)

BookSpec == BookInit /\ [][BookNext]_svars

----------------------------------------------------------------------------
(* Correctness *)

\* A request that found the old registration may keep its route after the save
\* dropped the routes chosen.  It is not used for ever: once a request's
\* longest choice and one validity have passed since the list was replaced, a
\* route in use is one of the registration in force.
OldRouteFades ==
  Fresh /\ choice.url \notin UrlsOf(book) => since <= Slow + Validity

\* What the app remembers, what it shows and what it will read when it is
\* opened again are one, whenever no save is under way.
OneRegistration ==
  (\A r \in Requests : req[r].at \notin {"write", "load", "drop", "show"}) =>
    disk = book /\ shown = book

\* A request takes to an address the password registered with it.
Paired ==
  \A r \in Requests : At(r, "wait") =>
    \E b \in Books : req[r].url \in UrlsOf(b) /\ req[r].pass = b.pass
=============================================================================
