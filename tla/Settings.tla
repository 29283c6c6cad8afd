------------------------------ MODULE Settings ------------------------------
(* The settings of the server: the schema and its defaults (server/src/db.rs, *)
(* ensure_schema), the one import of the old json (server/src/config.rs), the *)
(* page that changes them (api/admin.rs, settings_post) and the tuning of the *)
(* analysis, which takes effect without a restart (analytics/mod.rs,          *)
(* AnalyticsRig; the hook of main.rs).                                        *)
(*                                                                            *)
(* Nothing here is a transaction: every statement is written by itself, and   *)
(* the server may die between any two of them.  A camera is registered when   *)
(* it has a row; it is whole when it has addresses too.                       *)
EXTENDS Naturals, Sequences, FiniteSets

CONSTANTS
  Keys,       \* the settings, "enabled" and "tune" among them
  Values,     \* what they may be
  Least,      \* the smallest tuning honoured; what is below counts as it
  Json,       \* vmsserver.json: [Keys -> Values]
  JsonOrder,  \* the order in which import_config writes them
  Defaults,   \* what the schema seeds
  Cameras,    \* the cameras there may be
  JsonCams,   \* those of the json, in its order
  Tables,     \* how many tables the schema makes
  Requests,   \* the threads that serve the page
  MaxStarts, MaxPosts,  \* bounds: starts of the server, requests
  On, None

SettingsAssumption ==
  /\ {"enabled", "tune"} \subseteq Keys /\ On \in Values /\ None \notin Nat \cup Requests
  /\ Values \subseteq Nat /\ Least \in Values
  /\ Json \in [Keys -> Values] /\ Defaults \in [Keys -> Values]
  /\ JsonOrder \in Seq(Keys) /\ {JsonOrder[i] : i \in DOMAIN JsonOrder} = Keys
  /\ JsonCams \in Seq(Cameras)
  /\ {Tables, MaxStarts, MaxPosts} \subseteq Nat

VARIABLES
  made,      \* tables made; the version is written once all are
  seeded,    \* the script of the schema ran to its end: user_version is 1
  set,       \* the table setting
  rows,      \* the tables camera and camera_endpoint: "none", "bare" or "whole"
  imported,  \* db_meta.config_imported_at_ms is there
  main,      \* what the start is at
  boot,      \* the tuning the rig's builder holds; None = no analysis
  works,     \* the workers: [cfg, next, told: adjusted since it was made], or None
  hook,      \* who holds the lock of on_analytics
  posts,     \* what each thread is at
  unheard,   \* a tuning was written by a request that then failed
  starts, asked

gvars == <<made, seeded, set, rows, imported, main, boot, works, hook, posts, unheard, starts, asked>>

database == <<made, seeded, set, rows, imported>>
process == <<boot, works, hook, posts, unheard>>

Idle == [at |-> "idle"]
NoWorkers == [c \in Cameras |-> None]

SettingTypeOK ==
  /\ made \in 0 .. Tables /\ {seeded, imported, unheard} \subseteq BOOLEAN
  /\ set \in [Keys -> Values \cup {None}]
  /\ rows \in [Cameras -> {"none", "bare", "whole"}]
  /\ boot \in Values \cup {None}
  /\ hook \in Requests \cup {None}

SettingInit ==
  /\ made = 0 /\ seeded = FALSE /\ set = [k \in Keys |-> None]
  /\ rows = [c \in Cameras |-> "none"] /\ imported = FALSE
  /\ main = [at |-> "schema", i |-> 0] /\ boot = None /\ works = NoWorkers
  /\ hook = None /\ posts = [r \in Requests |-> Idle]
  /\ unheard = FALSE /\ starts = 1 /\ asked = 0

\* The analysis does not take every number it is given.
Clamped(v) == IF v < Least THEN Least ELSE v

\* parse_server_json: a setting as the json has it, made valid.
FromJson(k) == IF k = "tune" THEN Clamped(Json[k]) ELSE Json[k]

\* load_analytics: the tuning as the table has it, made valid.
LoadTuning == Clamped(set["tune"])

----------------------------------------------------------------------------
(* The start: ensure_schema, importar_json_se_preciso, load *)

\* The script of the schema, statement by statement; a table that is there
\* already is an error, and the server does not start.
MakeTable ==
  /\ main.at = "schema" /\ ~seeded /\ main.i < Tables
  /\ IF made > main.i
       THEN /\ main' = [at |-> "refused"]
            /\ UNCHANGED made
       ELSE /\ made' = made + 1
            /\ main' = [main EXCEPT !.i = @ + 1]
  /\ UNCHANGED <<seeded, set, rows, imported, process, starts, asked>>

\* The end of the script; or, the version being there, the defaults alone: a
\* setting that is there stays.
Seed ==
  /\ main.at = "schema" /\ (seeded \/ main.i = Tables)
  /\ seeded' = TRUE
  /\ set' = [k \in Keys |-> IF set[k] = None THEN Defaults[k] ELSE set[k]]
  /\ main' = [at |-> "asks"]
  /\ UNCHANGED <<made, rows, imported, process, starts, asked>>

\* config_imported: marked, and not a set of cameras without one address.
Imported ==
  /\ imported
  /\ (\E c \in Cameras : rows[c] /= "none") => \E c \in Cameras : rows[c] = "whole"

ImportOrNot ==
  /\ main.at = "asks"
  /\ main' = IF Imported THEN [at |-> "load"] ELSE [at |-> "keys", i |-> 1]
  /\ UNCHANGED <<database, process, starts, asked>>

\* import_config: each setting over the one that is there.
ImportKey ==
  /\ main.at = "keys"
  /\ IF main.i <= Len(JsonOrder)
       THEN /\ set' = [set EXCEPT ![JsonOrder[main.i]] = FromJson(JsonOrder[main.i])]
            /\ main' = [main EXCEPT !.i = @ + 1]
       ELSE /\ main' = [at |-> "cams", i |-> 1]
            /\ UNCHANGED set
  /\ UNCHANGED <<made, seeded, rows, imported, process, starts, asked>>

\* save_camera: the row; its addresses deleted; its addresses written.
ImportCamera ==
  /\ main.at = "cams" /\ main.i <= Len(JsonCams)
  /\ LET c == JsonCams[main.i]
     IN  IF rows[c] = "bare"
           THEN /\ rows' = [rows EXCEPT ![c] = "whole"]
                /\ main' = [main EXCEPT !.i = @ + 1]
           ELSE /\ rows' = [rows EXCEPT ![c] = "bare"]
                /\ UNCHANGED main
  /\ UNCHANGED <<made, seeded, set, imported, process, starts, asked>>

\* Wrong on purpose: the mark before the cameras.
ImportMarkEarly ==
  /\ main.at = "cams"
  /\ imported' = TRUE /\ main' = [at |-> "load"]
  /\ UNCHANGED <<made, seeded, set, rows, process, starts, asked>>

\* import_config: everything written, the import is marked.
ImportMark ==
  /\ main.at = "cams" /\ main.i > Len(JsonCams)
  /\ imported' = TRUE /\ main' = [at |-> "load"]
  /\ UNCHANGED <<made, seeded, set, rows, process, starts, asked>>

\* A statement fails: it is logged, and the server starts with what is there.
ImportFails ==
  /\ main.at \in {"keys", "cams"} /\ main' = [at |-> "load"]
  /\ UNCHANGED <<database, process, starts, asked>>

\* load: the settings and the cameras, as the tables have them.
Load ==
  /\ main.at = "load"
  /\ main' = [at |-> "rig", on |-> set["enabled"] = On, tune |-> LoadTuning,
               cams |-> {c \in Cameras : rows[c] /= "none"}]
  /\ UNCHANGED <<database, process, starts, asked>>

\* AnalyticsRig::build: when the analysis is on, one worker for every camera;
\* the builder keeps a copy of the tuning for later ones.
Rig ==
  /\ main.at = "rig" /\ main' = [at |-> "up"]
  /\ IF main.on
       THEN /\ boot' = main.tune
            /\ works' = [c \in Cameras |->
                 IF c \in main.cams THEN [cfg |-> main.tune, next |-> None, told |-> TRUE]
                 ELSE None]
       ELSE /\ boot' = None
            /\ works' = NoWorkers
  /\ UNCHANGED <<database, hook, posts, unheard, starts, asked>>

\* The server dies, or is stopped, at any step, and is started again.
Restart ==
  /\ starts < MaxStarts /\ starts' = starts + 1
  /\ main' = [at |-> "schema", i |-> 0]
  /\ boot' = None /\ works' = NoWorkers /\ hook' = None
  /\ posts' = [r \in Requests |-> Idle] /\ unheard' = FALSE
  /\ UNCHANGED <<database, asked>>

----------------------------------------------------------------------------
(* The page: settings_post *)

Up == main.at = "up"
At(r, stage) == posts[r].at = stage
Becomes(r, x) == posts' = [posts EXCEPT ![r] = x]
IsTuning(k) == k \in {"enabled", "tune"}

\* A request asks for some settings to be what it says.
Ask(r, keys, v) ==
  /\ Up /\ At(r, "idle") /\ asked < MaxPosts /\ asked' = asked + 1
  /\ Becomes(r, [at |-> "put", keys |-> keys, v |-> v, tunes |-> FALSE])
  /\ UNCHANGED <<database, main, boot, works, hook, unheard, starts>>

\* One UPDATE.
Put(r) ==
  /\ Up /\ At(r, "put") /\ posts[r].keys /= {}
  /\ \E k \in posts[r].keys :
       /\ set' = [set EXCEPT ![k] = posts[r].v]
       /\ Becomes(r, [posts[r] EXCEPT !.keys = @ \ {k}, !.tunes = @ \/ IsTuning(k)])
  /\ UNCHANGED <<made, seeded, rows, imported, main, boot, works, hook, unheard, starts, asked>>

\* An UPDATE fails: what was written before it stays, and nobody is told.
PutFails(r) ==
  /\ Up /\ At(r, "put") /\ posts[r].keys /= {}
  /\ unheard' = (unheard \/ posts[r].tunes)
  /\ Becomes(r, Idle)
  /\ UNCHANGED <<database, main, boot, works, hook, starts, asked>>

Answered(r) ==
  /\ Up /\ At(r, "put") /\ posts[r].keys = {} /\ ~posts[r].tunes
  /\ Becomes(r, Idle)
  /\ UNCHANGED <<database, main, boot, works, hook, unheard, starts, asked>>

\* on_analytics: under its lock, the tuning is read back whole.
Tell(r) ==
  /\ Up /\ At(r, "put") /\ posts[r].keys = {} /\ posts[r].tunes
  /\ hook = None /\ hook' = r
  /\ Becomes(r, [at |-> "apply", cfg |-> LoadTuning])
  /\ unheard' = FALSE
  /\ UNCHANGED <<database, main, boot, works, starts, asked>>

\* AnalyticsRig::ajustar, and the answer: it holds already.
Apply(r) ==
  /\ Up /\ At(r, "apply")
  /\ works' = [c \in Cameras |->
       IF works[c] = None THEN None
       ELSE [works[c] EXCEPT !.next = posts[r].cfg, !.told = TRUE]]
  /\ hook' = None /\ Becomes(r, Idle)
  /\ UNCHANGED <<database, main, boot, unheard, starts, asked>>

\* AnalyticsWorker: the tuning it was given, at its next round.
TakesUp(c) ==
  /\ Up /\ works[c] /= None /\ works[c].next /= None
  /\ works' = [works EXCEPT ![c].cfg = works[c].next, ![c].next = None]
  /\ UNCHANGED <<database, main, boot, hook, posts, unheard, starts, asked>>

----------------------------------------------------------------------------
(* A camera saved by the page: config_cameras_post, reconciliar *)

\* The row, and its addresses deleted.
SaveCamera(r, c) ==
  /\ Up /\ At(r, "idle") /\ asked < MaxPosts /\ asked' = asked + 1
  /\ rows' = [rows EXCEPT ![c] = "bare"]
  /\ Becomes(r, [at |-> "addresses", cam |-> c])
  /\ UNCHANGED <<made, seeded, set, imported, main, boot, works, hook, unheard, starts>>

\* The addresses written, the camera is noted for the main loop.
SaveAddresses(r) ==
  /\ Up /\ At(r, "addresses")
  /\ rows' = [rows EXCEPT ![posts[r].cam] = "whole"]
  /\ Becomes(r, [posts[r] EXCEPT !.at = "noted"])
  /\ UNCHANGED <<made, seeded, set, imported, main, boot, works, hook, unheard, starts, asked>>

\* An INSERT fails: the camera stays without addresses, and is not noted.
AddressFails(r) ==
  /\ Up /\ At(r, "addresses") /\ Becomes(r, Idle)
  /\ UNCHANGED <<database, main, boot, works, hook, unheard, starts, asked>>

\* reconciliar, add_camera: a camera without a worker gets one, tuned as the
\* builder was made.
Reconcile(r) ==
  /\ Up /\ At(r, "noted")
  /\ works' = IF boot = None \/ works[posts[r].cam] /= None THEN works
              ELSE [works EXCEPT ![posts[r].cam] = [cfg |-> boot, next |-> None, told |-> FALSE]]
  /\ Becomes(r, Idle)
  /\ UNCHANGED <<database, main, boot, hook, unheard, starts, asked>>

SettingNext ==
  \/ MakeTable \/ Seed \/ ImportOrNot \/ ImportKey \/ ImportCamera \/ ImportMark
  \/ ImportFails \/ Load \/ Rig \/ Restart
  \/ \E r \in Requests :
       \/ \E keys \in SUBSET Keys \ {{}}, v \in Values : Ask(r, keys, v)
       \/ Put(r) \/ PutFails(r) \/ Answered(r) \/ Tell(r) \/ Apply(r)
       \/ \E c \in Cameras : SaveCamera(r, c)
       \/ SaveAddresses(r) \/ AddressFails(r) \/ Reconcile(r)
  \/ \E c \in Cameras : TakesUp(c)

SettingSpec == SettingInit /\ [][SettingNext]_gvars

----------------------------------------------------------------------------
(* Correctness *)

Given(w) == IF w.next /= None THEN w.next ELSE w.cfg

Quiet == \A r \in Requests : posts[r].at \notin {"put", "apply"}

\* Two requests may save tunings at once, and the one that wrote last need not
\* be the one told last.  When none is under way, and none failed half way,
\* every worker that was ever told has been given the tuning that is saved.
LastTuningWins ==
  Up /\ Quiet /\ ~unheard =>
    \A c \in Cameras : works[c] /= None /\ works[c].told => Given(works[c]) = LoadTuning

\* The same of every worker, those of cameras registered since included.
NewLikeOld ==
  Up /\ Quiet /\ ~unheard =>
    \A c \in Cameras : works[c] /= None => Given(works[c]) = LoadTuning

\* An analysis switched on or off is on or off.
SaidInForce ==
  Up /\ Quiet /\ ~unheard => (boot /= None <=> set["enabled"] = On)

\* However often the server died half way through it, an import is marked as
\* done only with every setting and every camera of the json in the tables.
ImportedWhole ==
  [][~imported /\ imported' =>
       /\ \A k \in Keys : set'[k] = FromJson(k)
       /\ \A i \in DOMAIN JsonCams : rows'[JsonCams[i]] = "whole"]_gvars

\* The json is imported once: with the import marked, no start writes a
\* setting over one that is there.
ImportedOnce ==
  [][imported /\ ~Up => \A k \in Keys : set[k] /= None => set'[k] = set[k]]_gvars

\* The schema is made as a whole: a server that died while making it starts.
StartsAgain == main.at /= "refused"
=============================================================================
