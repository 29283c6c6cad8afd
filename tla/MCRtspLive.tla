------------------------------ MODULE MCRtspLive ------------------------------
(***************************************************************************)
(* Small instances of RtspLive.                                            *)
(***************************************************************************)
EXTENDS RtspLive

V1 == [codec |-> "h264", size |-> 1]
V2 == [codec |-> "h265", size |-> 1]
V3 == [codec |-> "h264", size |-> 2]

\* Another codec, and another resolution.
TwoCodecs == {V1, V2}
TwoSizes == {V1, V3}

=============================================================================
