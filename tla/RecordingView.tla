---------------------------- MODULE RecordingView ----------------------------
(***************************************************************************)
(* What a recording promises to those who read it (the server's API, the   *)
(* players): a log of blocks that only grows at its end while it is being   *)
(* recorded and stays as it is once it is closed.  The one thing that may   *)
(* cut it is a power loss.  RecordingFile implements it.                    *)
(***************************************************************************)
EXTENDS Naturals, Sequences

VARIABLES
  log,     \* the blocks, in the order they were recorded
  closed,  \* the footer is in
  losses   \* power losses so far

vars == <<log, closed, losses>>

Init == log = <<>> /\ closed = FALSE /\ losses = 0

\* The recorder adds the next block.
Record ==
  /\ ~closed
  /\ log' = Append(log, Len(log) + 1)
  /\ UNCHANGED <<closed, losses>>

\* The recording is closed, by its writer or by a repair.
Close ==
  /\ ~closed
  /\ closed' = TRUE
  /\ UNCHANGED <<log, losses>>

\* A power loss cuts the log anywhere, and may take the footer.
Lose ==
  /\ losses' = losses + 1
  /\ \E n \in 0..Len(log) : log' = SubSeq(log, 1, n)
  /\ closed' \in {closed, FALSE}
  /\ closed' => log' = log

Next == Record \/ Close \/ Lose

Spec == Init /\ [][Next]_vars

=============================================================================
