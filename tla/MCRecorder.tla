----------------------------- MODULE MCRecorder -----------------------------
(***************************************************************************)
(* Small instances of Recorder, under names of their own, so that the       *)
(* recorder and the recordings it fills can be reasoned about together.     *)
(***************************************************************************)
EXTENDS Naturals

CONSTANTS RecordAudio, WaitAudioMs, RotateMs, GraceMs, BlockSamples, BlockMs,
          MaxPending, MaxTaken, MaxSessions, MaxFaults, MaxNow

VARIABLES rec, disk, failed, now, up, session, taken

RD == INSTANCE Recorder WITH faults <- failed

ASSUME RecorderAssumption == RD!RecorderAssumption

RecorderSpec == RD!Spec

\* What is recorded is recorded once, in order and under the header of its
\* session, in the one file that is open (write_block, rotate, close).
FilesSound == RD!FilesSound

\* What an error loses is one run of samples, no more than what was in hand.
LostToFaults == RD!LostToFaults

=============================================================================
