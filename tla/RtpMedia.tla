------------------------------ MODULE RtpMedia ------------------------------
(***************************************************************************)
(* Media over RTP: a sender cuts its units (a NAL of H.264 or H.265, a     *)
(* JPEG, raw audio) into packets (server/src/rtsp/packetizer.rs, or a      *)
(* camera), a network that may lose and reorder packets, and the           *)
(* depacketizer that joins them again (shared/src/depk).  A unit is so     *)
(* many pieces of the size of a packet; a packet has one piece, or several *)
(* small units (a camera's STAP-A or AP).                                  *)
(***************************************************************************)
EXTENDS Naturals, FiniteSets, Sequences, SequencesExt

CONSTANTS
  Units,      \* the lengths of the units to send, in packets; 1 is one that fits
  MaxFaults,  \* bound: packets lost or overtaken
  MaxFlight   \* bound: packets in the network

RtpAssumption == Units \in Seq(Nat \ {0}) /\ {MaxFaults, MaxFlight} \subseteq Nat

VARIABLES
  codec,    \* "nal" (H.264, H.265), "jpeg" or "raw"
  sent,     \* units sent so far
  flight,   \* packets in the network
  faults,   \* packets lost or overtaken so far
  hurt,     \* ghost: the units some packet of which was lost or overtaken
  started,  \* the depacketizer is inside a unit
  parts,    \* the pieces it has of it
  out       \* the samples it gave: the pieces of each

mvars == <<codec, sent, flight, faults, hurt, started, parts, out>>

RtpInit ==
  /\ codec \in {"nal", "jpeg", "raw"}
  /\ sent = 0 /\ flight = <<>> /\ faults = 0 /\ hurt = {} /\ started = FALSE /\ parts = <<>> /\ out = <<>>

-----------------------------------------------------------------------------
(* The sender.                                                             *)

Piece(u, i) == <<u, i>>
Whole(u) == [i \in 1 .. Units[u] |-> Piece(u, i)]

\* One packet: alone when its unit fits; else a fragment, the first and the
\* last told by their bits (a JPEG's by its offset and by the marker).
Packet(u, i, marker) ==
  [form |-> IF codec = "raw" \/ (codec = "nal" /\ Units[u] = 1) THEN "single" ELSE "fragment",
   pieces |-> <<Piece(u, i)>>, start |-> i = 1, end |-> i = Units[u], marker |-> marker]

Packets(u, last) == [i \in 1 .. Units[u] |-> Packet(u, i, last /\ i = Units[u])]

\* Packetizer::push, of a sample of the next n units: a marker on its last.
Push ==
  \E n \in 1 .. 2 :
    /\ codec = "nal" \/ n = 1
    /\ sent + n <= Len(Units) /\ sent' = sent + n
    /\ flight' = IF n = 1 THEN flight \o Packets(sent + 1, TRUE)
                 ELSE flight \o Packets(sent + 1, FALSE) \o Packets(sent + 2, TRUE)
    /\ Len(flight') <= MaxFlight
    /\ UNCHANGED <<codec, faults, hurt, started, parts, out>>

\* A camera may put units that fit in one packet (external).
Aggregate ==
  /\ codec = "nal" /\ sent + 2 <= Len(Units) /\ Units[sent + 1] = 1 /\ Units[sent + 2] = 1 /\ Len(flight) < MaxFlight
  /\ flight' = Append(flight, [form |-> "single", pieces |-> <<Piece(sent + 1, 1), Piece(sent + 2, 1)>>,
                               start |-> FALSE, end |-> FALSE, marker |-> TRUE])
  /\ sent' = sent + 2
  /\ UNCHANGED <<codec, faults, hurt, started, parts, out>>

UnitsOf(p) == {p.pieces[i][1] : i \in 1 .. Len(p.pieces)}

\* The network loses a packet, or delivers one after the next.
Lose ==
  /\ faults < MaxFaults /\ flight # <<>> /\ flight' = Tail(flight) /\ faults' = faults + 1
  /\ hurt' = hurt \cup UnitsOf(Head(flight))
  /\ UNCHANGED <<codec, sent, started, parts, out>>

Overtake ==
  /\ faults < MaxFaults /\ Len(flight) >= 2 /\ faults' = faults + 1
  /\ hurt' = hurt \cup UnitsOf(flight[1]) \cup UnitsOf(flight[2])
  /\ flight' = [flight EXCEPT ![1] = flight[2], ![2] = flight[1]]
  /\ UNCHANGED <<codec, sent, started, parts, out>>

-----------------------------------------------------------------------------
(* The depacketizers.                                                      *)

\* Wrong on purpose: a first fragment goes on from what was there.
BeginsOnTop(p) == parts

\* A first fragment forgets what was left of another unit.
Begins(p) == IF p.start THEN <<>> ELSE parts

\* H264Depacketizer, H265Depacketizer and MjpegDepacketizer::feed: no sequence
\* number is looked at; a fragment without the first is let by, and the unit
\* ends at its last fragment or at the marker.
Join(p) ==
  IF ~p.start /\ ~started
  THEN UNCHANGED <<started, parts, out>>
  ELSE LET joined == Begins(p) \o p.pieces
           done == (codec = "nal" /\ p.end) \/ p.marker
       IN /\ started' = ~done
          /\ parts' = IF done THEN <<>> ELSE joined
          /\ out' = IF done THEN Append(out, joined) ELSE out

\* Units that fit, alone or together, and raw audio: a sample each.
Single(p) ==
  /\ out' = out \o [i \in 1 .. Len(p.pieces) |-> <<p.pieces[i]>>]
  /\ UNCHANGED <<started, parts>>

Feed ==
  /\ flight # <<>> /\ flight' = Tail(flight)
  /\ IF Head(flight).form = "single" THEN Single(Head(flight)) ELSE Join(Head(flight))
  /\ UNCHANGED <<codec, sent, faults, hurt>>

RtpNext == Push \/ Aggregate \/ Lose \/ Overtake \/ Feed

RtpSpec == RtpInit /\ [][RtpNext]_mvars

-----------------------------------------------------------------------------
(* Properties.                                                             *)

Arrived(u) == u <= sent /\ \A i \in 1 .. Len(flight) : u \notin UnitsOf(flight[i])
Comes(u) == IF codec = "raw" THEN \A i \in 1 .. Units[u] : <<Piece(u, i)>> \in ToSet(out) ELSE Whole(u) \in ToSet(out)
Bad == {o \in ToSet(out) : \A u \in 1 .. Len(Units) : o # Whole(u)}

\* A fault spoils only the units it touches: every other comes out whole, none
\* twice, and in order where nothing was overtaken; and a sample that is no
\* unit has a piece of one that was touched.
SeenThrough ==
  /\ \A u \in 1 .. sent : Arrived(u) /\ u \notin hurt => Comes(u)
  /\ \A o \in Bad : codec = "raw" \/ \E i \in 1 .. Len(o) : o[i][1] \in hurt
  /\ IsInjective(out)
  /\ hurt = {} => \A i, j \in 1 .. Len(out) : i < j => out[i][1][1] < out[j][1][1] \/ (codec = "raw" /\ out[i][1][1] = out[j][1][1])
=============================================================================
