-------------------------------- MODULE Wire --------------------------------
(***************************************************************************)
(* One connection to the server's only port: src/server/src/rtsp/mod.rs    *)
(* looks at its first line and gives it, with what was read so far, to the *)
(* HTTP loop (src/shared/src/http.rs) or to the RTSP one (serve_rtsp over  *)
(* WireReader).  The bytes arrive in any pieces, several messages at once  *)
(* or half of one, and the client may close in the middle of one.          *)
(*                                                                         *)
(* A byte is a cell: which message it is of and which of its bytes. What a *)
(* message says is kept in its kind: how long are the first line, the head *)
(* and the body the head announces, whether the head can be parsed.        *)
(***************************************************************************)
EXTENDS Naturals, Sequences

CONSTANTS
  Kinds,        \* the messages clients send
  MaxMessages,  \* bound: messages of the connection
  LineMax,      \* sniff: 8192
  HeadMax,      \* the longest head: 64 * 1024, of both readers
  BodyMax       \* MAX_BODY

Protocols == {"http", "rtsp", "frame"}

WireAssumption ==
  /\ {MaxMessages, LineMax, HeadMax, BodyMax} \subseteq Nat
  /\ Kinds \subseteq [proto : Protocols, line : Nat, head : Nat \ {0}, body : Nat,
                      good : BOOLEAN, last : BOOLEAN]
  /\ \A k \in Kinds : k.line <= k.head /\ (k.proto # "frame" => k.line # 0)

VARIABLES
  said,     \* what the client says, message after message
  gone,     \* the cells of it that left the client
  net,      \* cells in the socket, not read yet
  cut,      \* the client closed its side
  at,       \* "new", "sniff", "http", "rtsp" or "closed"
  buf,      \* initial; WireReader.buf from its start
  heard,    \* of the properties: the cells taken for each message, in order
  answers,  \* the responses written: to which message, and the status
  stopped   \* the listener's StopToken; of a session, its own stop too, which its
            \* pacer sets

client == <<said, gone, cut>>
wireVars == <<said, gone, net, cut, at, buf, heard, answers, stopped>>

Cell == [of : Nat, n : Nat]
Size(k) == k.head + k.body

\* An HTTP client speaks HTTP; an RTSP one begins with a request, and its
\* RTCP comes in frames between the requests.
Speech(s) ==
  /\ Len(s) # 0 /\ s[1].proto # "frame"
  /\ \A i \in 1 .. Len(s) : s[i].proto = "http" <=> s[1].proto = "http"

WireInit ==
  /\ \E n \in 1 .. MaxMessages : said \in [1 .. n -> Kinds]
  /\ Speech(said)
  /\ gone = [of |-> 1, n |-> 0] /\ net = <<>> /\ cut = FALSE
  /\ at = "new" /\ buf = <<>> /\ heard = <<>> /\ answers = <<>> /\ stopped = FALSE
-----------------------------------------------------------------------------
(* The client (external) and the network between.                          *)

\* The cell after this one, in the same message or at the beginning of the next.
After(c) == IF c.n < Size(said[c.of]) THEN [c EXCEPT !.n = @ + 1]
            ELSE [of |-> c.of + 1, n |-> 1]

Sends ==
  /\ ~cut /\ After(gone).of <= Len(said)
  /\ gone' = After(gone) /\ net' = Append(net, gone')
  /\ UNCHANGED <<said, cut, at, buf, heard, answers, stopped>>

Cuts ==
  /\ ~cut /\ cut' = TRUE
  /\ UNCHANGED <<said, gone, net, at, buf, heard, answers, stopped>>
-----------------------------------------------------------------------------
(* The bytes.                                                              *)

Kind(c) == said[c.of]
First(S) == IF S = {} THEN 0 ELSE CHOOSE n \in S : \A m \in S : n <= m

\* Where the first line of the buffer ends, and its head; 0 where they do not.
LineEnd == First({n \in 1 .. Len(buf) : buf[n].n = Kind(buf[n]).line})
HeadEnd == First({n \in 1 .. Len(buf) : Kind(buf[n]).proto # "frame"
                                        /\ buf[n].n = Kind(buf[n]).head})

\* parse_request_head finds a method, an address and a version. What is before
\* the method, of another message, would be read as part of its name.
Parses == Kind(buf[HeadEnd]).good

\* What the head says of its body.
ContentLength == Kind(buf[HeadEnd]).body

\* Wrong on purpose: the body stays, to be read as the next head.
TakesHead(n) ==
  /\ heard' = Append(heard, SubSeq(buf, 1, n))
  /\ buf' = SubSeq(buf, HeadEnd + 1, Len(buf))

\* A message of so many cells leaves the buffer, the rest stays.
Takes(n) ==
  /\ heard' = Append(heard, SubSeq(buf, 1, n))
  /\ buf' = SubSeq(buf, n + 1, Len(buf))

\* One read of the socket; the time for it may pass first, and then what is in
\* the buffer stays for the next.
Reads ==
  /\ net # <<>> /\ buf' = buf \o net /\ net' = <<>>
  /\ UNCHANGED <<client, at, heard, answers, stopped>>

Closes == at' = "closed" /\ UNCHANGED <<client, net, stopped>>

\* After a request: the connection ends with the last one, and where the answer
\* finds nobody.
GoesOn(last) ==
  /\ \/ at' = "closed" /\ (last \/ cut)
     \/ at' = at /\ ~last
  /\ UNCHANGED <<client, net, stopped>>
-----------------------------------------------------------------------------
(* The listener.                                                           *)

Accept ==
  /\ at = "new" /\ ~stopped /\ at' = "sniff"
  /\ UNCHANGED <<client, net, buf, heard, answers, stopped>>

\* Waits for who it took the connection with, not for the connections.
Stop ==
  /\ ~stopped /\ stopped' = TRUE
  /\ UNCHANGED <<client, net, at, buf, heard, answers>>

\* sniff: HTTP or RTSP, or a client that went or said nothing in time.
Sniff ==
  /\ at = "sniff"
  /\ \/ LineEnd = 0 /\ Len(buf) <= LineMax /\ Reads
     \/ /\ LineEnd = 0 /\ Len(buf) <= LineMax /\ net = <<>>
        /\ Closes /\ UNCHANGED <<buf, heard, answers>>
     \/ /\ LineEnd # 0 \/ Len(buf) > LineMax
        /\ at' = IF LineEnd # 0 /\ Kind(buf[LineEnd]).proto = "http" THEN "http" ELSE "rtsp"
        /\ UNCHANGED <<client, net, buf, heard, answers, stopped>>
-----------------------------------------------------------------------------
(* HTTP: serve_connection and read_request.                                *)

Answer(of, status) == answers' = Append(answers, [to |-> of, status |-> status])

\* An error of the request: it is told, and the connection ends.
Refuse == Answer(Len(heard) + 1, 400) /\ Closes /\ UNCHANGED <<buf, heard>>

\* The whole request is in: one answer, a 500 if the handler falls; then the
\* next, unless one of the sides wants no more.
Serve ==
  /\ Takes(HeadEnd + ContentLength)
  /\ \E status \in {200, 500} : Answer(Len(heard) + 1, status)
  /\ GoesOn(Kind(buf[HeadEnd]).last)

ServeHttp ==
  /\ at = "http"
  /\ IF HeadEnd = 0
     THEN \/ Len(buf) > HeadMax /\ Refuse
          \/ Len(buf) <= HeadMax /\ Reads
          \/ /\ Len(buf) <= HeadMax /\ net = <<>>
             /\ \/ ~cut /\ buf # <<>> /\ Refuse
                \/ (cut \/ buf = <<>>) /\ Closes /\ UNCHANGED <<buf, heard, answers>>
     ELSE IF ~Parses \/ ContentLength > BodyMax THEN Refuse
     ELSE IF Len(buf) >= HeadEnd + ContentLength THEN Serve
     ELSE Reads \/ (net = <<>> /\ Refuse)
-----------------------------------------------------------------------------
(* RTSP: serve_rtsp and WireReader::read_next.                             *)

\* The next event is a frame, whole by its own length, or a message.
Framed == buf # <<>> /\ buf[1].n = 1 /\ Kind(buf[1]).proto = "frame"
FrameIn == Framed /\ Len(buf) >= Size(Kind(buf[1]))
MessageIn == ~Framed /\ HeadEnd # 0 /\ Len(buf) >= HeadEnd + ContentLength

\* A frame, the player's RTCP, is not used.
DropFrame ==
  /\ FrameIn /\ Takes(Size(Kind(buf[1])))
  /\ UNCHANGED <<client, net, at, answers, stopped>>

\* A request is handled and answered; a TEARDOWN is the last.
Handle ==
  /\ MessageIn /\ Parses /\ Takes(HeadEnd + ContentLength)
  /\ \E status \in {200, 404, 455, 461, 500, 501} : Answer(Len(heard) + 1, status)
  /\ GoesOn(Kind(buf[HeadEnd]).last)

\* The connection ends without an answer: with a message that is no request, a
\* head with no end, a client that is gone, a server or a session that is stopped.
Leaves ==
  /\ \/ MessageIn /\ ~Parses
     \/ ~Framed /\ HeadEnd = 0 /\ Len(buf) > HeadMax
     \/ ~FrameIn /\ ~MessageIn /\ cut /\ net = <<>>
     \/ stopped
  /\ Closes /\ UNCHANGED <<buf, heard, answers>>

\* A wait that ends before the event is whole takes nothing; the next goes on
\* with what is there.
Waits == ~FrameIn /\ ~MessageIn /\ (Framed \/ HeadEnd # 0 \/ Len(buf) <= HeadMax) /\ Reads

ServeRtsp == at = "rtsp" /\ (DropFrame \/ Handle \/ Leaves \/ Waits)
-----------------------------------------------------------------------------
WireNext == Sends \/ Cuts \/ Accept \/ Stop \/ Sniff \/ ServeHttp \/ ServeRtsp

Spec == WireInit /\ [][WireNext]_wireVars
-----------------------------------------------------------------------------
WireTypeOK ==
  /\ said \in Seq(Kinds) /\ gone \in Cell /\ {cut, stopped} \subseteq BOOLEAN
  /\ {net, buf} \subseteq Seq(Cell) /\ heard \in Seq(Seq(Cell))
  /\ at \in {"new", "sniff", "http", "rtsp", "closed"}
  /\ answers \in Seq([to : Nat, status : Nat])

Message(i) == [n \in 1 .. Size(said[i]) |-> [of |-> i, n |-> n]]

(* In whatever pieces the bytes arrive, through the change of reader and   *)
(* the waits that end before a message is whole, what is taken for a       *)
(* message is a message, each once and in the order it was said (wire.rs:  *)
(* a frame is consumed whole, and a wait that ends loses no synchronism).  *)
HeardWhole == \A i \in 1 .. Len(heard) : i <= Len(said) /\ heard[i] = Message(i)

(* Answers go out in the order of the requests, one to each that was taken *)
(* and none to a frame; one that could not be taken is the last.           *)
AnswersFollow ==
  /\ \A i, j \in 1 .. Len(answers) : i < j => answers[i].to < answers[j].to
  /\ \A i \in 1 .. Len(heard) :
       said[i].proto # "frame" <=> \E a \in 1 .. Len(answers) : answers[a].to = i
  /\ \A a \in 1 .. Len(answers) :
       answers[a].to > Len(heard) => a = Len(answers) /\ answers[a].status = 400 /\ at = "closed"

(* A connection that waits with nothing in its buffer and nothing on the   *)
(* way has taken every message the client finished.                        *)
NothingLeft ==
  at \in {"http", "rtsp"} /\ buf = <<>> /\ net = <<>> =>
    gone.n \in {0, Size(said[gone.of])} /\ Len(heard) = (IF gone.n = 0 THEN 0 ELSE gone.of)
=============================================================================
