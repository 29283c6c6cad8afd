----------------------------- MODULE MCSettings -----------------------------
(***************************************************************************)
(* The settings of a server by themselves, for the run about a start that  *)
(* dies while it makes the schema: two tables, one setting of each kind,   *)
(* one camera in the json.                                                 *)
(***************************************************************************)
EXTENDS Settings

TheJson == [enabled |-> 1, tune |-> 0]
TheOrder == <<"enabled", "tune">>
TheDefaults == [enabled |-> 0, tune |-> 0]
TheCams == <<"c">>
=============================================================================
