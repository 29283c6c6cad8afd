---------------------------- MODULE MCRecordingFile ----------------------------
(***************************************************************************)
(* Small instances of RecordingFile: the faults each run allows.           *)
(***************************************************************************)
EXTENDS RecordingFile

Faults(kill, power, io, open) ==
  [kill |-> kill, power |-> power, io |-> io, open |-> open]

\* The process dying twice with a write failing in between, a power loss on its
\* own, and a recording that does not open at the start after a kill.
Ordinary == {Faults(2, 0, 1, 0), Faults(0, 1, 0, 0), Faults(1, 0, 0, 1)}

\* A power loss, and another fault while the repair it left is going on.
PowerAndMore == {Faults(1, 2, 1, 0)}

\* A write that fails and nothing else.
OneFailedWrite == {Faults(0, 0, 1, 0)}

=============================================================================
