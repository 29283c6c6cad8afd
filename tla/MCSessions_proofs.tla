--------------------------- MODULE MCSessions_proofs ---------------------------
(***************************************************************************)
(* Proofs about what MCSessions puts together, for any values of the       *)
(* constants: the connections to the server's port, the command sessions   *)
(* of a camera that moves, its RTSP session and the talks through it.      *)
(***************************************************************************)
EXTENDS MCSessions, SequenceTheorems, WellFoundedInduction, TLAPS

LEMMA LeastIn ==
  ASSUME NEW S, S \subseteq Nat, S # {}
  PROVE  \E i \in S : \A j \in S : i <= j
<1>1. IsWellFoundedOn(OpToRel(<, Nat), Nat)
  BY NatLessThanWellFounded
<1>2. PICK i \in S : \A j \in S : ~(<<j, i>> \in OpToRel(<, Nat))
  <2> HIDE DEF OpToRel
  <2> QED
    BY <1>1, WFMin
<1>3. \A j \in S : ~(j < i)
  BY <1>2 DEF OpToRel
<1> QED
  BY <1>3

-----------------------------------------------------------------------------
(* Wire: each message whole, once and in its turn *)

\* These cells are said one after another, from the beginning of message m to
\* the last that left the client.
Follows(q, m, g) ==
  /\ q \in Seq(WI!Cell) /\ m \in Nat \ {0}
  /\ \A i \in 1 .. Len(q) :
       q[i].of \in 1 .. Len(said) /\ q[i].n \in 1 .. WI!Size(said[q[i].of])
  /\ \A i \in 1 .. Len(q) : i < Len(q) => q[i + 1] = WI!After(q[i])
  /\ IF q = <<>>
     THEN \/ g = [of |-> 1, n |-> 0] /\ m = 1
          \/ g.of \in 1 .. Len(said) /\ g.n = WI!Size(said[g.of]) /\ m = g.of + 1
     ELSE q[1] = [of |-> m, n |-> 1] /\ q[Len(q)] = g

\* What the client says, and how far it got.
SaysInv ==
  /\ said \in Seq(Kinds) /\ Len(said) # 0
  /\ \A i \in 1 .. Len(said) : said[i].proto = "http" <=> said[1].proto = "http"
  /\ gone \in WI!Cell /\ gone.of \in 1 .. Len(said)
  /\ gone.n \in 0 .. WI!Size(said[gone.of])

\* What is on its way and in the buffer goes on from what was heard.
HearsInv ==
  /\ buf \in Seq(WI!Cell) /\ net \in Seq(WI!Cell) /\ heard \in Seq(Seq(WI!Cell))
  /\ Follows(buf \o net, Len(heard) + 1, gone)
  /\ WI!HeardWhole

\* What is answered was heard, but for the last answer of an end.
AnswersInv ==
  /\ answers \in Seq([to : Nat, status : Nat])
  /\ \A i, j \in 1 .. Len(answers) : i < j => answers[i].to < answers[j].to
  /\ \A i \in 1 .. Len(heard) :
       said[i].proto # "frame" <=> \E a \in 1 .. Len(answers) : answers[a].to = i
  /\ \A a \in 1 .. Len(answers) :
       answers[a].to > Len(heard) => a = Len(answers) /\ answers[a].status = 400 /\ at = "closed"

WireInv ==
  /\ {cut, stopped} \subseteq BOOLEAN /\ at \in {"new", "sniff", "http", "rtsp", "closed"}
  /\ at = "http" => \A i \in 1 .. Len(said) : said[i].proto = "http"
  /\ SaysInv /\ HearsInv /\ AnswersInv

LEMMA KindIs ==
  ASSUME NEW k \in Kinds
  PROVE  /\ k.proto \in WI!Protocols /\ k.line \in Nat /\ k.head \in Nat \ {0} /\ k.body \in Nat
         /\ WI!Size(k) = k.head + k.body /\ WI!Size(k) \in Nat \ {0} /\ k.head <= WI!Size(k)
<1>1. k \in [proto : WI!Protocols, line : Nat, head : Nat \ {0}, body : Nat,
             good : BOOLEAN, last : BOOLEAN]
  BY WireAssumption DEF WI!WireAssumption
<1> QED
  BY <1>1 DEF WI!Size

\* The cells that begin with message m are those of it, then those of the next.
LEMMA Begins ==
  ASSUME said \in Seq(Kinds), NEW q, NEW m, NEW g, Follows(q, m, g), q # <<>>
  PROVE  /\ m \in 1 .. Len(said) /\ said[m] \in Kinds
         /\ \A i \in 1 .. Len(q) : i <= WI!Size(said[m]) => q[i] = [of |-> m, n |-> i]
         /\ Len(q) > WI!Size(said[m]) => q[WI!Size(said[m]) + 1] = [of |-> m + 1, n |-> 1]
<1> DEFINE s == WI!Size(said[m])
           Bad == {i \in 1 .. Len(q) : i <= s /\ q[i] # [of |-> m, n |-> i]}
<1>1. /\ q \in Seq(WI!Cell) /\ Len(q) \in Nat \ {0} /\ q[1] = [of |-> m, n |-> 1]
      /\ \A i \in 1 .. Len(q) : i < Len(q) => q[i + 1] = WI!After(q[i])
  BY DEF Follows
<1>2. m \in 1 .. Len(said) /\ said[m] \in Kinds
  <2>1. q[1].of \in 1 .. Len(said)
    BY <1>1 DEF Follows
  <2> QED
    BY <1>1, <2>1
<1>3. s \in Nat \ {0}
  BY <1>2, KindIs
<1> HIDE DEF s
<1>4. Bad = {}
  <2> SUFFICES ASSUME Bad # {} PROVE FALSE
    OBVIOUS
  <2>1. PICK i \in Bad : \A j \in Bad : i <= j
    <3>1. Bad \subseteq Nat
      OBVIOUS
    <3> QED
      BY <3>1, LeastIn
  <2>2. i \in Nat /\ i \in 1 .. Len(q) /\ i <= s /\ i # 1
    BY <1>1
  <2>3. i - 1 \in 1 .. Len(q) /\ i - 1 < Len(q) /\ (i - 1) + 1 = i /\ i - 1 < s /\ ~(i <= i - 1)
    BY <1>1, <1>3, <2>2
  <2>4. i - 1 \notin Bad
    BY <2>1, <2>3
  <2>5. q[i - 1] = [of |-> m, n |-> i - 1]
    BY <1>3, <2>3, <2>4
  <2>6. q[i] = WI!After(q[i - 1])
    BY <1>1, <2>3
  <2>7. q[i] = [of |-> m, n |-> i]
    <3>1. WI!After([of |-> m, n |-> i - 1]) = [of |-> m, n |-> i]
      BY <2>3 DEF WI!After, s
    <3> QED
      BY <2>5, <2>6, <3>1
  <2> QED
    BY <2>1, <2>7
<1>5. \A i \in 1 .. Len(q) : i <= s => q[i] = [of |-> m, n |-> i]
  BY <1>4
<1>6. ASSUME Len(q) > s PROVE q[s + 1] = [of |-> m + 1, n |-> 1]
  <2>1. s \in 1 .. Len(q) /\ s < Len(q) /\ s <= s
    BY <1>1, <1>3, <1>6
  <2>2. q[s] = [of |-> m, n |-> s] /\ q[s + 1] = WI!After(q[s])
    BY <1>1, <1>5, <2>1
  <2>3. ~(s < s)
    BY <1>3
  <2> QED
    BY <2>2, <2>3 DEF WI!After, s
<1> QED
  BY <1>2, <1>5, <1>6 DEF s

\* The rest of them, without the first message, begins with the next.
LEMMA Without ==
  ASSUME said \in Seq(Kinds), NEW q, NEW m, NEW g, Follows(q, m, g), q # <<>>,
         Len(q) >= WI!Size(said[m]), NEW r \in Seq(WI!Cell),
         Len(r) = Len(q) - WI!Size(said[m]),
         \A i \in 1 .. Len(r) : r[i] = q[WI!Size(said[m]) + i]
  PROVE  Follows(r, m + 1, g)
<1> DEFINE s == WI!Size(said[m])
<1>1. /\ q \in Seq(WI!Cell) /\ Len(q) \in Nat \ {0}
      /\ \A i \in 1 .. Len(q) : i < Len(q) => q[i + 1] = WI!After(q[i])
      /\ \A i \in 1 .. Len(q) :
           q[i].of \in 1 .. Len(said) /\ q[i].n \in 1 .. WI!Size(said[q[i].of])
      /\ q[Len(q)] = g /\ m \in Nat \ {0}
  BY DEF Follows
<1>2. /\ m \in 1 .. Len(said) /\ said[m] \in Kinds
      /\ \A i \in 1 .. Len(q) : i <= s => q[i] = [of |-> m, n |-> i]
      /\ Len(q) > s => q[s + 1] = [of |-> m + 1, n |-> 1]
  BY Begins
<1>3. s \in Nat \ {0} /\ Len(q) >= s
  BY <1>2, KindIs
<1> HIDE DEF s
<1>4. /\ r \in Seq(WI!Cell) /\ Len(r) = Len(q) - s
      /\ \A i \in 1 .. Len(r) : r[i] = q[s + i]
  BY DEF s
<1>5. \A i \in 1 .. Len(r) : s + i \in 1 .. Len(q)
  BY <1>1, <1>3, <1>4
<1>6. ASSUME NEW i \in 1 .. Len(r), i < Len(r) PROVE r[i + 1] = WI!After(r[i])
  <2>1. i \in Nat /\ Len(r) \in Nat /\ Len(q) \in Nat /\ s \in Nat /\ Len(r) = Len(q) - s
    <3>1. Len(r) \in Nat /\ Len(q) \in Nat /\ i \in Nat
      OBVIOUS
    <3> QED
      BY <1>3, <1>4, <3>1
  <2>2. i + 1 \in 1 .. Len(r)
    BY <1>6, <2>1
  <2>3. s + i < Len(q)
    BY <1>6, <2>1
  <2>4. s + (i + 1) = (s + i) + 1
    BY <2>1
  <2>5. s + i \in 1 .. Len(q)
    BY <1>5
  <2> QED
    BY SMTT(30), <1>1, <1>4, <2>2, <2>3, <2>4, <2>5
<1>7. CASE r = <<>>
  <2>1. Len(q) = s
    BY <1>1, <1>3, <1>4, <1>7
  <2>2. g = [of |-> m, n |-> s]
    BY <1>1, <1>2, <1>3, <2>1
  <2> QED
    BY <1>1, <1>2, <1>4, <1>7, <2>2 DEF Follows, s
<1>8. CASE r # <<>>
  <2>1. Len(r) \in Nat \ {0} /\ Len(q) > s /\ s + Len(r) = Len(q)
    BY <1>1, <1>3, <1>4, <1>8
  <2>2. r[1] = [of |-> m + 1, n |-> 1] /\ r[Len(r)] = g
    BY <1>1, <1>2, <1>4, <2>1
  <2>3. \A i \in 1 .. Len(r) : r[i].of \in 1 .. Len(said) /\ r[i].n \in 1 .. WI!Size(said[r[i].of])
    BY <1>1, <1>4, <1>5
  <2> QED
    BY <1>1, <1>4, <1>6, <1>8, <2>2, <2>3 DEF Follows
<1> QED
  BY <1>7, <1>8
LEMMA FirstOf ==
  ASSUME NEW S, S \subseteq Nat
  PROVE  /\ S = {} => WI!First(S) = 0
         /\ S # {} => WI!First(S) \in S /\ \A i \in S : WI!First(S) <= i
<1>1. ASSUME S # {} PROVE WI!First(S) \in S /\ \A i \in S : WI!First(S) <= i
  <2>1. \E i \in S : \A j \in S : i <= j
    BY <1>1, LeastIn
  <2> QED
    BY <1>1, <2>1 DEF WI!First
<1> QED
  BY <1>1 DEF WI!First

Turn == Len(heard) + 1

\* The buffer begins with the message whose turn it is.
LEMMA BufferBegins ==
  ASSUME SaysInv, HearsInv, buf # <<>>
  PROVE  /\ Turn \in 1 .. Len(said) /\ Turn \in Nat \ {0} /\ said[Turn] \in Kinds
         /\ Len(buf) \in Nat \ {0} /\ Len(heard) \in Nat
         /\ \A i \in 1 .. Len(buf) : i <= WI!Size(said[Turn]) => buf[i] = [of |-> Turn, n |-> i]
         /\ \A i \in 1 .. Len(buf) : buf[i].of \in 1 .. Len(said)
<1>1. /\ buf \in Seq(WI!Cell) /\ net \in Seq(WI!Cell) /\ Follows(buf \o net, Turn, gone)
      /\ Len(heard) \in Nat
  BY DEF HearsInv, Turn
<1>2. /\ Len(buf) \in Nat \ {0} /\ buf \o net # <<>> /\ Len(buf \o net) >= Len(buf)
      /\ Len(buf \o net) \in Nat
      /\ \A i \in 1 .. Len(buf) : (buf \o net)[i] = buf[i]
  BY <1>1
<1>3. /\ Turn \in 1 .. Len(said) /\ said[Turn] \in Kinds
      /\ \A i \in 1 .. Len(buf \o net) :
           i <= WI!Size(said[Turn]) => (buf \o net)[i] = [of |-> Turn, n |-> i]
  <2> DEFINE q == buf \o net
             m == Turn
  <2>1. Follows(q, m, gone) /\ q # <<>> /\ said \in Seq(Kinds)
    BY <1>1, <1>2 DEF SaysInv
  <2> HIDE DEF q, m
  <2>2. /\ m \in 1 .. Len(said) /\ said[m] \in Kinds
        /\ \A i \in 1 .. Len(q) : i <= WI!Size(said[m]) => q[i] = [of |-> m, n |-> i]
    BY <2>1, Begins
  <2> QED
    BY <2>2 DEF q, m
<1>4. \A i \in 1 .. Len(buf) : i \in 1 .. Len(buf \o net)
  BY <1>2
<1>5. \A i \in 1 .. Len(buf \o net) : (buf \o net)[i].of \in 1 .. Len(said)
  BY <1>1 DEF Follows
<1> QED
  BY <1>1, <1>2, <1>3, <1>4, <1>5 DEF Turn

\* The head that ends in the buffer is that of the message whose turn it is.
LEMMA HeadIs ==
  ASSUME SaysInv, HearsInv, WI!HeadEnd # 0, buf # <<>> => said[Turn].proto # "frame"
  PROVE  /\ buf # <<>> /\ WI!HeadEnd = said[Turn].head
         /\ WI!Kind(buf[WI!HeadEnd]) = said[Turn] /\ said[Turn].proto # "frame"
         /\ WI!HeadEnd + WI!ContentLength = WI!Size(said[Turn])
<1> DEFINE S == {n \in 1 .. Len(buf) : WI!Kind(buf[n]).proto # "frame"
                                       /\ buf[n].n = WI!Kind(buf[n]).head}
           h == said[Turn].head
<1>1. S # {} /\ WI!HeadEnd \in S /\ \A i \in S : WI!HeadEnd <= i
  <2>1. S \subseteq Nat
    OBVIOUS
  <2>2. WI!HeadEnd = WI!First(S)
    BY DEF WI!HeadEnd
  <2> HIDE DEF S
  <2> QED
    BY <2>1, <2>2, FirstOf
<1>2. buf # <<>>
  <2>1. Len(buf) # 0
    BY <1>1
  <2> QED
    BY <2>1
<1>3. /\ said[Turn] \in Kinds /\ Len(buf) \in Nat \ {0} /\ said[Turn].proto # "frame"
      /\ \A i \in 1 .. Len(buf) : i <= WI!Size(said[Turn]) => buf[i] = [of |-> Turn, n |-> i]
  BY <1>2, BufferBegins
<1>4. /\ h \in Nat \ {0} /\ h <= WI!Size(said[Turn]) /\ WI!Size(said[Turn]) \in Nat
      /\ WI!Size(said[Turn]) = h + said[Turn].body /\ said[Turn].body \in Nat
  BY <1>3, KindIs
<1>5. \A i \in S : i >= h
  <2> SUFFICES ASSUME NEW i \in S, ~(i >= h) PROVE FALSE
    OBVIOUS
  <2>1. i \in 1 .. Len(buf) /\ i < h /\ i <= WI!Size(said[Turn])
    BY <1>3, <1>4
  <2>2. buf[i] = [of |-> Turn, n |-> i] /\ WI!Kind(buf[i]) = said[Turn]
    BY <1>3, <2>1 DEF WI!Kind
  <2>3. buf[i].n = h
    BY <2>2
  <2> QED
    BY <1>4, <2>1, <2>2, <2>3
<1>6. h \in S
  <2>1. WI!HeadEnd >= h /\ WI!HeadEnd \in 1 .. Len(buf)
    BY <1>1, <1>5
  <2>2. h \in 1 .. Len(buf)
    BY <1>3, <1>4, <2>1
  <2>3. buf[h] = [of |-> Turn, n |-> h] /\ WI!Kind(buf[h]) = said[Turn]
    BY <1>3, <1>4, <2>2 DEF WI!Kind
  <2> QED
    BY <1>3, <2>2, <2>3
<1>7. WI!HeadEnd = h
  <2>1. WI!HeadEnd <= h /\ WI!HeadEnd >= h /\ WI!HeadEnd \in 1 .. Len(buf)
    BY <1>1, <1>5, <1>6
  <2> QED
    BY <1>3, <1>4, <2>1
<1>8. WI!Kind(buf[h]) = said[Turn]
  <2>1. h \in 1 .. Len(buf) /\ h <= WI!Size(said[Turn])
    BY <1>4, <1>6
  <2>2. buf[h] = [of |-> Turn, n |-> h]
    BY <1>3, <2>1
  <2> QED
    BY <2>2 DEF WI!Kind
<1> QED
  BY <1>2, <1>3, <1>4, <1>7, <1>8 DEF WI!ContentLength

LEMMA SecondPart ==
  ASSUME NEW S, NEW s \in Seq(S), NEW t \in Seq(S), NEW i \in Len(s) + 1 .. Len(s) + Len(t)
  PROVE  (s \o t)[i] = t[i - Len(s)]
OBVIOUS

\* As many cells as the message has, taken from the buffer, are the message.
LEMMA TakesMessage ==
  ASSUME SaysInv, HearsInv, buf # <<>>, Len(buf) >= WI!Size(said[Turn]),
         WI!Takes(WI!Size(said[Turn])), UNCHANGED <<said, gone, net>>
  PROVE  HearsInv' /\ Len(heard') = Len(heard) + 1
<1> DEFINE s == WI!Size(said[Turn])
           q == buf \o net
           r == buf' \o net
<1>1. /\ Turn \in 1 .. Len(said) /\ Turn \in Nat \ {0} /\ said[Turn] \in Kinds
      /\ Len(buf) \in Nat \ {0} /\ Len(heard) \in Nat
      /\ \A i \in 1 .. Len(buf) : i <= s => buf[i] = [of |-> Turn, n |-> i]
  BY BufferBegins
<1>2. s \in Nat \ {0} /\ s <= Len(buf)
  BY <1>1, KindIs
<1>3. /\ buf \in Seq(WI!Cell) /\ net \in Seq(WI!Cell) /\ heard \in Seq(Seq(WI!Cell))
      /\ Follows(q, Turn, gone) /\ WI!HeardWhole
  BY DEF HearsInv, Turn
<1>4. heard' = Append(heard, SubSeq(buf, 1, s)) /\ buf' = SubSeq(buf, s + 1, Len(buf))
  BY DEF WI!Takes
<1> HIDE DEF s
<1>5. /\ SubSeq(buf, 1, s) \in Seq(WI!Cell) /\ Len(SubSeq(buf, 1, s)) = s
      /\ \A i \in 1 .. s : SubSeq(buf, 1, s)[i] = buf[i]
  BY <1>1, <1>2, <1>3
<1>6. SubSeq(buf, 1, s) = [n \in 1 .. s |-> [of |-> Turn, n |-> n]]
  <2>1. \A i \in 1 .. s : i \in 1 .. Len(buf) /\ i <= s
    BY <1>1, <1>2
  <2>2. \A i \in 1 .. s : SubSeq(buf, 1, s)[i] = [of |-> Turn, n |-> i]
    BY <1>1, <1>5, <2>1
  <2>3. DOMAIN SubSeq(buf, 1, s) = 1 .. s
    BY <1>5
  <2>4. SubSeq(buf, 1, s) = [n \in 1 .. s |-> SubSeq(buf, 1, s)[n]]
    BY <1>5, <2>3
  <2> QED
    BY <2>2, <2>4
<1>7. SubSeq(buf, 1, s) = WI!Message(Turn)
  BY <1>6 DEF WI!Message, s
<1>8. /\ heard' \in Seq(Seq(WI!Cell)) /\ Len(heard') = Len(heard) + 1
      /\ \A i \in 1 .. Len(heard) : heard'[i] = heard[i]
      /\ heard'[Turn] = WI!Message(Turn)
  <2> DEFINE m == SubSeq(buf, 1, s)
  <2>1. heard' = Append(heard, m) /\ m \in Seq(WI!Cell) /\ m = WI!Message(Turn)
    BY <1>4, <1>5, <1>7
  <2> HIDE DEF m
  <2>2. Len(heard') = Len(heard) + 1 /\ heard'[Len(heard) + 1] = m
        /\ \A i \in 1 .. Len(heard) : heard'[i] = heard[i]
    BY <1>3, <2>1
  <2>3. heard' \in Seq(Seq(WI!Cell))
    BY <1>3, <2>1
  <2> QED
    BY <2>1, <2>2, <2>3 DEF Turn
<1>9. WI!HeardWhole'
  <2> SUFFICES ASSUME NEW i \in 1 .. Len(heard')
               PROVE  i <= Len(said) /\ heard'[i] = WI!Message(i)
    BY DEF WI!HeardWhole, WI!Message, WI!Size
  <2>1. CASE i \in 1 .. Len(heard)
    BY <1>3, <1>8, <2>1 DEF WI!HeardWhole
  <2>2. CASE i = Turn
    BY <1>1, <1>8, <2>2
  <2>3. i \in 1 .. Len(heard) \/ i = Turn
    BY <1>1, <1>8 DEF Turn
  <2> QED
    BY <2>1, <2>2, <2>3
<1>10. /\ buf' \in Seq(WI!Cell) /\ Len(buf') = Len(buf) - s
       /\ \A i \in 1 .. Len(buf') : buf'[i] = buf[s + i]
  <2>1. /\ SubSeq(buf, s + 1, Len(buf)) \in Seq(WI!Cell)
        /\ Len(SubSeq(buf, s + 1, Len(buf))) = Len(buf) - s
        /\ \A i \in 1 .. Len(buf) - s : SubSeq(buf, s + 1, Len(buf))[i] = buf[s + i]
    BY <1>1, <1>2, <1>3
  <2> QED
    BY <1>4, <2>1
<1>11. /\ r \in Seq(WI!Cell) /\ Len(r) = Len(q) - s /\ Len(q) >= s
       /\ \A i \in 1 .. Len(r) : r[i] = q[s + i]
  <2>1. /\ Len(buf) \in Nat /\ Len(net) \in Nat /\ Len(buf') \in Nat
        /\ Len(r) = Len(buf') + Len(net) /\ Len(q) = Len(buf) + Len(net)
        /\ r \in Seq(WI!Cell) /\ Len(r) \in Nat
    BY <1>3, <1>10
  <2>2. Len(r) = Len(q) - s /\ Len(q) >= s
    BY <1>2, <1>10, <2>1
  <2>3. ASSUME NEW i \in 1 .. Len(r) PROVE r[i] = q[s + i]
    <3>1. CASE i <= Len(buf')
      <4>1. i \in 1 .. Len(buf') /\ s + i \in 1 .. Len(buf)
        BY <1>2, <1>10, <2>1, <3>1
      <4>2. r[i] = buf'[i] /\ q[s + i] = buf[s + i]
        BY <1>3, <1>10, <4>1
      <4> QED
        BY <1>10, <4>1, <4>2
    <3>2. CASE ~(i <= Len(buf'))
      <4>1. /\ i \in Len(buf') + 1 .. Len(buf') + Len(net)
            /\ s + i \in Len(buf) + 1 .. Len(buf) + Len(net)
            /\ i - Len(buf') = (s + i) - Len(buf)
        BY <1>2, <1>10, <2>1, <3>2
      <4>2. r[i] = net[i - Len(buf')]
        BY <1>3, <1>10, <4>1, SecondPart
      <4>3. q[s + i] = net[(s + i) - Len(buf)]
        BY <1>3, <4>1, SecondPart
      <4> QED
        BY <4>1, <4>2, <4>3
    <3> QED
      BY <3>1, <3>2
  <2> QED
    BY <2>1, <2>2, <2>3
<1>12. Follows(r, Turn + 1, gone)
  <2>1. q # <<>>
    BY <1>2, <1>11, <1>3
  <2> HIDE DEF q, r
  <2> QED
    BY <1>3, <1>11, <2>1, Without DEF s, SaysInv
<1>13. Len(heard') + 1 = Turn + 1 /\ said' = said /\ gone' = gone /\ net' = net
  BY <1>8 DEF Turn
<1>14. Follows(r, Len(heard') + 1, gone)
  BY <1>12, <1>13
<1>15. Follows(buf \o net, Len(heard) + 1, gone)'
  BY <1>13, <1>14 DEF Follows, WI!Size, WI!After
<1> QED
  BY <1>3, <1>8, <1>9, <1>10, <1>13, <1>15 DEF HearsInv

LEMMA HearsRest ==
  ASSUME HearsInv, UNCHANGED <<said, gone, net, buf, heard>>
  PROVE  HearsInv'
  BY DEF HearsInv, Follows, WI!HeardWhole, WI!Message, WI!Size, WI!After

LEMMA SaysRest ==
  ASSUME SaysInv, UNCHANGED <<said, gone>>
  PROVE  SaysInv'
  BY DEF SaysInv, WI!Size

\* Before the end every answer is to what was heard.
LEMMA AnswersSoFar ==
  ASSUME AnswersInv, at # "closed", HearsInv
  PROVE  /\ answers \in Seq([to : Nat, status : Nat]) /\ Len(answers) \in Nat
         /\ Len(heard) \in Nat
         /\ \A a \in 1 .. Len(answers) : answers[a].to \in Nat /\ answers[a].to <= Len(heard)
<1>1. answers \in Seq([to : Nat, status : Nat]) /\ Len(answers) \in Nat /\ Len(heard) \in Nat
  BY DEF AnswersInv, HearsInv
<1>2. ASSUME NEW a \in 1 .. Len(answers)
      PROVE  answers[a].to \in Nat /\ ~(answers[a].to > Len(heard))
  <2>1. answers[a] \in [to : Nat, status : Nat]
    BY <1>1, ElementOfSeq
  <2>2. ~(answers[a].to > Len(heard))
    BY DEF AnswersInv
  <2> QED
    BY <2>1, <2>2
<1> QED
  BY <1>1, <1>2

LEMMA AnswersRest ==
  ASSUME AnswersInv, at # "closed", HearsInv, UNCHANGED <<said, heard, answers>>
  PROVE  AnswersInv'
<1>1. \A a \in 1 .. Len(answers) : ~(answers[a].to > Len(heard))
  BY AnswersSoFar
<1>2. /\ answers' \in Seq([to : Nat, status : Nat])
      /\ \A i, j \in 1 .. Len(answers') : i < j => answers'[i].to < answers'[j].to
  BY DEF AnswersInv
<1>3. \A i \in 1 .. Len(heard') :
        said'[i].proto # "frame" <=> \E a \in 1 .. Len(answers') : answers'[a].to = i
  BY DEF AnswersInv
<1>4. \A a \in 1 .. Len(answers') : ~(answers'[a].to > Len(heard'))
  BY <1>1
<1> QED
  BY <1>2, <1>3, <1>4 DEF AnswersInv

LEMMA AnswersSame ==
  ASSUME AnswersInv, said' = said, at' = at, heard' = heard, answers' = answers
  PROVE  AnswersInv'
<1>1. /\ answers' \in Seq([to : Nat, status : Nat])
      /\ \A i, j \in 1 .. Len(answers') : i < j => answers'[i].to < answers'[j].to
  BY DEF AnswersInv
<1>2. \A i \in 1 .. Len(heard') :
        said'[i].proto # "frame" <=> \E a \in 1 .. Len(answers') : answers'[a].to = i
  BY DEF AnswersInv
<1>3. \A a \in 1 .. Len(answers') :
        answers'[a].to > Len(heard') =>
          a = Len(answers') /\ answers'[a].status = 400 /\ at' = "closed"
  BY DEF AnswersInv
<1> QED
  BY <1>1, <1>2, <1>3 DEF AnswersInv

\* One answer more, to the message whose turn it is.
LEMMA AnswerGrows ==
  ASSUME AnswersInv, at # "closed", HearsInv, NEW status \in Nat, WI!Answer(Turn, status)
  PROVE  /\ answers' \in Seq([to : Nat, status : Nat]) /\ Len(answers') = Len(answers) + 1
         /\ Len(answers) \in Nat
         /\ answers'[Len(answers) + 1] = [to |-> Turn, status |-> status]
         /\ \A a \in 1 .. Len(answers) : answers'[a] = answers[a]
         /\ \A i, j \in 1 .. Len(answers') : i < j => answers'[i].to < answers'[j].to
<1>1. /\ answers \in Seq([to : Nat, status : Nat]) /\ Len(answers) \in Nat
      /\ Turn \in Nat /\ Turn = Len(heard) + 1 /\ Len(heard) \in Nat
      /\ \A a \in 1 .. Len(answers) : answers[a].to \in Nat /\ answers[a].to <= Len(heard)
  BY AnswersSoFar DEF Turn
<1>2. answers' = Append(answers, [to |-> Turn, status |-> status])
  BY DEF WI!Answer
<1>3. [to |-> Turn, status |-> status] \in [to : Nat, status : Nat]
  BY <1>1
<1> DEFINE e == [to |-> Turn, status |-> status]
<1>4. /\ answers' \in Seq([to : Nat, status : Nat]) /\ Len(answers') = Len(answers) + 1
      /\ answers'[Len(answers) + 1] = e
      /\ \A a \in 1 .. Len(answers) : answers'[a] = answers[a]
  <2> HIDE DEF e
  <2> QED
    BY <1>1, <1>2, <1>3 DEF e
<1>5. ASSUME NEW i \in 1 .. Len(answers'), NEW j \in 1 .. Len(answers'), i < j
      PROVE  answers'[i].to < answers'[j].to
  <2>1. i \in 1 .. Len(answers)
    BY <1>1, <1>4, <1>5
  <2>2. CASE j \in 1 .. Len(answers)
    BY <1>4, <1>5, <2>1, <2>2 DEF AnswersInv
  <2>3. CASE j = Len(answers) + 1
    <3>1. answers'[j].to = Len(heard) + 1 /\ answers'[i] = answers[i]
      <4>1. answers'[j] = e /\ answers'[i] = answers[i]
        BY <1>4, <2>1, <2>3
      <4>2. e.to = Len(heard) + 1
        BY <1>1
      <4> QED
        BY <4>1, <4>2
    <3>2. answers[i].to \in Nat /\ answers[i].to <= Len(heard)
      BY <1>1, <2>1
    <3> QED
      BY <1>1, <3>1, <3>2
  <2>4. j \in 1 .. Len(answers) \/ j = Len(answers) + 1
    BY <1>1, <1>4
  <2> QED
    BY <2>2, <2>3, <2>4
<1> QED
  BY <1>1, <1>4, <1>5

\* A message was taken: it was answered, or it is a frame and was not.
LEMMA AnswersOn ==
  ASSUME AnswersInv, at # "closed", HearsInv, UNCHANGED said, Len(heard') = Len(heard) + 1,
         \/ said[Turn].proto = "frame" /\ UNCHANGED answers
         \/ said[Turn].proto # "frame" /\ \E status \in Nat : WI!Answer(Turn, status)
  PROVE  AnswersInv'
<1>1. /\ answers \in Seq([to : Nat, status : Nat]) /\ Len(answers) \in Nat
      /\ Turn \in Nat /\ Turn = Len(heard) + 1 /\ Len(heard) \in Nat /\ Len(heard') = Turn
      /\ \A a \in 1 .. Len(answers) : answers[a].to \in Nat /\ answers[a].to <= Len(heard)
  BY AnswersSoFar DEF Turn
<1>2. \A i \in 1 .. Len(heard) :
        said[i].proto # "frame" <=> \E a \in 1 .. Len(answers) : answers[a].to = i
  BY DEF AnswersInv
<1>3. \A i \in 1 .. Len(heard') : i \in 1 .. Len(heard) \/ i = Turn
  BY <1>1
<1>4. CASE said[Turn].proto = "frame" /\ UNCHANGED answers
  <2>1. ASSUME NEW a \in 1 .. Len(answers)
        PROVE  answers[a].to # Turn /\ ~(answers[a].to > Len(heard'))
    <3>1. answers[a].to \in Nat /\ answers[a].to <= Len(heard)
      BY <1>1
    <3> QED
      BY <1>1, <3>1
  <2>2. \A i \in 1 .. Len(heard') :
          said[i].proto # "frame" <=> \E a \in 1 .. Len(answers) : answers[a].to = i
    BY <1>2, <1>3, <1>4, <2>1
  <2> QED
    BY <1>4, <2>1, <2>2 DEF AnswersInv
<1>5. CASE said[Turn].proto # "frame" /\ \E status \in Nat : WI!Answer(Turn, status)
  <2>1. PICK status \in Nat : WI!Answer(Turn, status)
    BY <1>5
  <2>2. /\ answers' \in Seq([to : Nat, status : Nat]) /\ Len(answers') = Len(answers) + 1
        /\ answers'[Len(answers) + 1] = [to |-> Turn, status |-> status]
        /\ \A a \in 1 .. Len(answers) : answers'[a] = answers[a]
        /\ \A i, j \in 1 .. Len(answers') : i < j => answers'[i].to < answers'[j].to
    BY <2>1, AnswerGrows
  <2>3. \A a \in 1 .. Len(answers') : a \in 1 .. Len(answers) \/ a = Len(answers) + 1
    BY <1>1, <2>2
  <2>4. Len(answers) + 1 \in 1 .. Len(answers') /\ \A a \in 1 .. Len(answers) : a \in 1 .. Len(answers')
    BY <1>1, <2>2
  <2>5. \A a \in 1 .. Len(answers') : ~(answers'[a].to > Len(heard'))
    <3> SUFFICES ASSUME NEW a \in 1 .. Len(answers') PROVE ~(answers'[a].to > Turn)
      BY <1>1
    <3>1. CASE a \in 1 .. Len(answers)
      <4>1. answers'[a].to \in Nat /\ answers'[a].to <= Len(heard)
        BY <1>1, <2>2, <3>1
      <4> QED
        BY <1>1, <4>1
    <3>2. CASE a = Len(answers) + 1
      BY <1>1, <2>2, <3>2
    <3> QED
      BY <2>3, <3>1, <3>2
  <2>6. ASSUME NEW i \in 1 .. Len(heard')
        PROVE  said[i].proto # "frame" <=> \E a \in 1 .. Len(answers') : answers'[a].to = i
    <3>1. CASE i = Turn
      BY <1>5, <2>2, <2>4, <3>1
    <3>2. CASE i \in 1 .. Len(heard)
      <4>1. answers'[Len(answers) + 1].to # i
        BY <1>1, <2>2, <3>2
      <4>2. (\E a \in 1 .. Len(answers) : answers[a].to = i)
              <=> \E a \in 1 .. Len(answers') : answers'[a].to = i
        BY <2>2, <2>3, <2>4, <4>1
      <4> QED
        BY <1>2, <3>2, <4>2
    <3> QED
      BY <1>3, <3>1, <3>2
  <2> QED
    BY <2>2, <2>5, <2>6 DEF AnswersInv
<1> QED
  BY <1>4, <1>5

\* A refusal is the last answer.
LEMMA RefuseKeeps ==
  ASSUME WireInv, at # "closed", WI!Refuse
  PROVE  WireInv'
<1>0. SaysInv /\ HearsInv /\ AnswersInv
  BY DEF WireInv
<1>1. /\ WI!Answer(Turn, 400) /\ at' = "closed"
      /\ UNCHANGED <<said, gone, cut, net, stopped, buf, heard>>
  BY DEF WI!Refuse, WI!Closes, WI!client, Turn
<1>2. /\ answers' \in Seq([to : Nat, status : Nat]) /\ Len(answers') = Len(answers) + 1
      /\ answers'[Len(answers) + 1] = [to |-> Turn, status |-> 400] /\ Len(answers) \in Nat
      /\ \A a \in 1 .. Len(answers) : answers'[a] = answers[a]
      /\ \A i, j \in 1 .. Len(answers') : i < j => answers'[i].to < answers'[j].to
  BY <1>0, <1>1, AnswerGrows
<1>3. /\ Turn = Len(heard) + 1 /\ Len(heard) \in Nat
      /\ \A a \in 1 .. Len(answers) : answers[a].to \in Nat /\ answers[a].to <= Len(heard)
  BY <1>0, AnswersSoFar DEF Turn
<1>4. \A a \in 1 .. Len(answers') : a \in 1 .. Len(answers) \/ a = Len(answers')
  BY <1>2
<1>5. ASSUME NEW a \in 1 .. Len(answers)
      PROVE  a \in 1 .. Len(answers') /\ ~(answers'[a].to > Len(heard))
  <2>1. answers'[a] = answers[a] /\ answers[a].to \in Nat /\ answers[a].to <= Len(heard)
    BY <1>2, <1>3
  <2>2. ~(answers'[a].to > Len(heard))
    BY <1>3, <2>1
  <2>3. a \in 1 .. Len(answers')
    BY <1>2
  <2> QED
    BY <2>2, <2>3
<1>6. \A i \in 1 .. Len(heard) : answers'[Len(answers')].to # i
  BY <1>2, <1>3
<1>7. \A i \in 1 .. Len(heard) :
        said[i].proto # "frame" <=> \E a \in 1 .. Len(answers') : answers'[a].to = i
  <2> SUFFICES ASSUME NEW i \in 1 .. Len(heard)
               PROVE  (\E a \in 1 .. Len(answers) : answers[a].to = i)
                        <=> \E a \in 1 .. Len(answers') : answers'[a].to = i
    BY <1>0 DEF AnswersInv
  <2>1. \A a \in 1 .. Len(answers) : a \in 1 .. Len(answers')
    BY <1>2
  <2>2. answers'[Len(answers')].to # i
    BY <1>6
  <2>3. ASSUME NEW a \in 1 .. Len(answers), answers[a].to = i
        PROVE  \E b \in 1 .. Len(answers') : answers'[b].to = i
    <3>1. answers'[a] = answers[a] /\ a \in 1 .. Len(answers')
      BY <1>2, <2>1
    <3> QED
      BY <2>3, <3>1
  <2>4. ASSUME NEW b \in 1 .. Len(answers'), answers'[b].to = i
        PROVE  \E a \in 1 .. Len(answers) : answers[a].to = i
    <3>1. b \in 1 .. Len(answers)
      BY <1>4, <2>2, <2>4
    <3>2. answers'[b] = answers[b]
      BY <1>2, <3>1
    <3> QED
      BY <2>4, <3>1, <3>2
  <2> QED
    BY <2>3, <2>4
<1>8. \A a \in 1 .. Len(answers') :
        answers'[a].to > Len(heard) => a = Len(answers') /\ answers'[a].status = 400
  BY <1>2, <1>4, <1>5
<1>9. AnswersInv'
  BY <1>1, <1>2, <1>7, <1>8 DEF AnswersInv
<1> QED
  BY <1>0, <1>1, <1>9, HearsRest, SaysRest DEF WireInv

\* Nothing is taken and nothing answered.
LEMMA WireRests ==
  ASSUME WireInv, at # "closed", UNCHANGED <<said, gone, net, buf, heard, answers>>,
         at' \in {"new", "sniff", "http", "rtsp", "closed"}, {cut', stopped'} \subseteq BOOLEAN,
         at' = "http" => \A i \in 1 .. Len(said) : said[i].proto = "http"
  PROVE  WireInv'
  BY HearsRest, SaysRest, AnswersRest DEF WireInv

LEMMA ReadsKeeps ==
  ASSUME WireInv, WI!Reads
  PROVE  WireInv'
<1>1. /\ buf' = buf \o net /\ net' = <<>> /\ UNCHANGED <<said, gone, cut, at, heard, answers, stopped>>
  BY DEF WI!Reads, WI!client
<1>2. buf \in Seq(WI!Cell) /\ net \in Seq(WI!Cell)
  BY DEF WireInv, HearsInv
<1>3. buf' \in Seq(WI!Cell) /\ net' \in Seq(WI!Cell) /\ buf' \o net' = buf \o net
  BY <1>1, <1>2
<1>4. HearsInv'
  BY <1>1, <1>3 DEF WireInv, HearsInv, Follows, WI!HeardWhole, WI!Message, WI!Size, WI!After
<1>5. AnswersInv'
  BY <1>1 DEF WireInv, AnswersInv
<1> QED
  BY <1>1, <1>4, <1>5, SaysRest DEF WireInv

LEMMA SendsKeeps ==
  ASSUME WireInv, WI!Sends
  PROVE  WireInv'
<1> DEFINE q == buf \o net
           r == buf \o net'
           c == WI!After(gone)
<1>1. /\ c.of <= Len(said) /\ gone' = c /\ net' = Append(net, c)
      /\ UNCHANGED <<said, cut, at, buf, heard, answers, stopped>>
  BY DEF WI!Sends
<1>2. /\ buf \in Seq(WI!Cell) /\ net \in Seq(WI!Cell) /\ Follows(q, Turn, gone) /\ SaysInv
      /\ HearsInv /\ AnswersInv /\ Len(heard) \in Nat /\ Turn \in Nat \ {0}
  BY DEF WireInv, HearsInv, Turn
<1>3. /\ gone.of \in 1 .. Len(said) /\ gone.n \in 0 .. WI!Size(said[gone.of])
      /\ gone \in WI!Cell /\ said \in Seq(Kinds) /\ Len(said) \in Nat
      /\ \A i \in 1 .. Len(said) : WI!Size(said[i]) \in Nat \ {0}
  BY <1>2, KindIs DEF SaysInv
<1>4. /\ c \in WI!Cell /\ c.of \in 1 .. Len(said) /\ c.n \in 1 .. WI!Size(said[c.of])
  <2>1. CASE gone.n < WI!Size(said[gone.of])
    <3>1. c = [of |-> gone.of, n |-> gone.n + 1]
      BY <1>3, <2>1 DEF WI!After, WI!Cell
    <3> QED
      BY <1>3, <2>1, <3>1 DEF WI!Cell
  <2>2. CASE ~(gone.n < WI!Size(said[gone.of]))
    <3>1. c = [of |-> gone.of + 1, n |-> 1]
      BY <2>2 DEF WI!After
    <3>2. c.of \in 1 .. Len(said) /\ c.n = 1
      BY <1>1, <1>3, <3>1
    <3>3. WI!Size(said[c.of]) \in Nat \ {0}
      BY <1>3, <3>2
    <3> QED
      BY <1>3, <3>1, <3>2, <3>3 DEF WI!Cell
  <2> QED
    BY <2>1, <2>2
<1> HIDE DEF c
<1>5. /\ r \in Seq(WI!Cell) /\ q \in Seq(WI!Cell) /\ Len(q) \in Nat /\ Len(r) = Len(q) + 1
      /\ r[Len(q) + 1] = c /\ \A i \in 1 .. Len(q) : r[i] = q[i]
  <2>1. net' \in Seq(WI!Cell) /\ Len(net') = Len(net) + 1 /\ net'[Len(net) + 1] = c
        /\ \A i \in 1 .. Len(net) : net'[i] = net[i]
    BY <1>1, <1>2, <1>4
  <2>2. r \in Seq(WI!Cell) /\ q \in Seq(WI!Cell) /\ Len(q) = Len(buf) + Len(net)
        /\ Len(r) = Len(buf) + Len(net')
    <3>1. buf \in Seq(WI!Cell) /\ net \in Seq(WI!Cell) /\ net' \in Seq(WI!Cell)
      BY <1>2, <2>1
    <3> QED
      BY <3>1
  <2>3. r = Append(q, c)
    BY SMTT(30), <1>1, <1>2, <1>4
  <2> HIDE DEF r, q
  <2> QED
    BY <1>4, <2>2, <2>3
<1>6. Follows(r, Turn, c)
  <2> HIDE DEF q, r
  <2>1. \A i \in 1 .. Len(r) : i \in 1 .. Len(q) \/ i = Len(q) + 1
    BY <1>5
  <2>2. \A i \in 1 .. Len(r) : r[i].of \in 1 .. Len(said) /\ r[i].n \in 1 .. WI!Size(said[r[i].of])
    BY <1>2, <1>4, <1>5, <2>1 DEF Follows
  <2>3. CASE q = <<>>
    <3>1. Len(q) = 0
      BY <2>3
    <3>2. c = [of |-> Turn, n |-> 1]
      <4>1. CASE gone = [of |-> 1, n |-> 0] /\ Turn = 1
        BY <1>3, <4>1 DEF c, WI!After
      <4>2. CASE gone.n = WI!Size(said[gone.of]) /\ Turn = gone.of + 1
        <5>1. ~(gone.n < WI!Size(said[gone.of]))
          BY <1>3, <4>2
        <5> QED
          BY <4>2, <5>1 DEF c, WI!After
      <4> QED
        BY <1>2, <2>3, <4>1, <4>2 DEF Follows
    <3>3. Len(r) = 1 /\ r[1] = c /\ r # <<>>
      BY <1>5, <3>1
    <3>4. \A i \in 1 .. Len(r) : ~(i < Len(r))
      BY <3>3
    <3> QED
      BY <1>2, <1>5, <2>2, <3>2, <3>3, <3>4 DEF Follows
  <2>4. CASE q # <<>>
    <3>1. Len(q) \in Nat \ {0} /\ r # <<>> /\ q[1] = [of |-> Turn, n |-> 1] /\ q[Len(q)] = gone
      BY <1>2, <1>5, <2>4 DEF Follows
    <3>2. r[1] = q[1] /\ r[Len(r)] = c
      BY <1>5, <3>1
    <3>3. ASSUME NEW i \in 1 .. Len(r), i < Len(r) PROVE r[i + 1] = WI!After(r[i])
      <4>1. CASE i < Len(q)
        <5>1. i \in 1 .. Len(q) /\ i + 1 \in 1 .. Len(q)
          BY <1>5, <3>3, <4>1
        <5>2. q[i + 1] = WI!After(q[i])
          BY <1>2, <4>1, <5>1 DEF Follows
        <5> QED
          BY <1>5, <5>1, <5>2
      <4>2. CASE i = Len(q)
        BY <1>5, <3>1, <4>2 DEF c
      <4>3. i < Len(q) \/ i = Len(q)
        BY <1>5, <3>3
      <4> QED
        BY <4>1, <4>2, <4>3
    <3> QED
      BY <1>2, <1>5, <2>2, <3>1, <3>2, <3>3 DEF Follows
  <2> QED
    BY <2>3, <2>4
<1>7. HearsInv'
  <2>1. net' \in Seq(WI!Cell)
    BY <1>1, <1>2, <1>4
  <2> HIDE DEF q
  <2>2. Follows(buf \o net, Len(heard) + 1, gone)'
    BY <1>1, <1>6 DEF Follows, WI!Size, WI!After, Turn
  <2> QED
    BY <1>1, <1>2, <2>1, <2>2 DEF HearsInv, WI!HeardWhole, WI!Message, WI!Size
<1>8. SaysInv'
  <2>1. c.n \in 0 .. WI!Size(said[c.of])
    BY <1>4
  <2> QED
    BY <1>1, <1>2, <1>4, <2>1 DEF SaysInv, WI!Size
<1>9. AnswersInv'
  <2>1. AnswersInv /\ said' = said /\ at' = at /\ heard' = heard /\ answers' = answers
    BY <1>1, <1>2
  <2> HIDE DEF q, r
  <2> QED
    BY <2>1, AnswersSame
<1> QED
  BY <1>1, <1>7, <1>8, <1>9 DEF WireInv

LEMMA SniffKeeps ==
  ASSUME WireInv, WI!Sniff
  PROVE  WireInv'
<1>0. SaysInv /\ HearsInv /\ at = "sniff" /\ {cut, stopped} \subseteq BOOLEAN
  BY DEF WireInv, WI!Sniff
<1>1. CASE WI!LineEnd = 0 /\ Len(buf) <= LineMax /\ WI!Reads
  BY <1>1, ReadsKeeps
<1>2. CASE /\ WI!LineEnd = 0 /\ Len(buf) <= LineMax /\ net = <<>>
           /\ WI!Closes /\ UNCHANGED <<buf, heard, answers>>
  BY <1>0, <1>2, WireRests DEF WI!Closes, WI!client
<1>3. CASE /\ WI!LineEnd # 0 \/ Len(buf) > LineMax
           /\ at' = IF WI!LineEnd # 0 /\ WI!Kind(buf[WI!LineEnd]).proto = "http"
                    THEN "http" ELSE "rtsp"
           /\ UNCHANGED <<WI!client, net, buf, heard, answers, stopped>>
  <2>1. ASSUME at' = "http" PROVE \A i \in 1 .. Len(said) : said[i].proto = "http"
    <3> DEFINE S == {n \in 1 .. Len(buf) : buf[n].n = WI!Kind(buf[n]).line}
    <3>1. WI!LineEnd # 0 /\ WI!Kind(buf[WI!LineEnd]).proto = "http"
      BY <1>3, <2>1
    <3>2. WI!LineEnd \in S
      <4>1. S \subseteq Nat /\ WI!LineEnd = WI!First(S)
        BY DEF WI!LineEnd
      <4> HIDE DEF S
      <4> QED
        BY <3>1, <4>1, FirstOf
    <3>3. buf # <<>>
      <4>1. Len(buf) # 0
        BY <3>2
      <4> QED
        BY <4>1
    <3>4. buf[WI!LineEnd].of \in 1 .. Len(said)
      BY <1>0, <3>2, <3>3, BufferBegins
    <3> QED
      BY <1>0, <3>1, <3>4 DEF WI!Kind, SaysInv
  <2>2. at' \in {"http", "rtsp"} /\ UNCHANGED <<said, gone, cut, net, buf, heard, answers, stopped>>
    BY <1>3 DEF WI!client
  <2> QED
    BY <1>0, <2>1, <2>2, WireRests
<1> QED
  BY <1>1, <1>2, <1>3 DEF WI!Sniff

\* A message is taken and, unless it is a frame, answered.
LEMMA OneMore ==
  ASSUME WireInv, at \in {"http", "rtsp"}, buf # <<>>, Len(buf) >= WI!Size(said[Turn]),
         WI!Takes(WI!Size(said[Turn])), UNCHANGED <<said, gone, cut, net, stopped>>,
         at' = at \/ at' = "closed",
         \/ said[Turn].proto = "frame" /\ UNCHANGED answers
         \/ said[Turn].proto # "frame" /\ \E status \in Nat : WI!Answer(Turn, status)
  PROVE  WireInv'
<1>0. SaysInv /\ HearsInv /\ AnswersInv /\ at # "closed"
  BY DEF WireInv
<1>1. HearsInv' /\ Len(heard') = Len(heard) + 1
  BY <1>0, TakesMessage
<1>2. AnswersInv'
  BY <1>0, <1>1, AnswersOn
<1> QED
  BY <1>0, <1>1, <1>2, SaysRest DEF WireInv

LEMMA ServeHttpKeeps ==
  ASSUME WireInv, WI!ServeHttp
  PROVE  WireInv'
<1>0. /\ at = "http" /\ at # "closed" /\ SaysInv /\ HearsInv
      /\ {cut, stopped} \subseteq BOOLEAN
      /\ \A i \in 1 .. Len(said) : said[i].proto = "http"
  BY DEF WireInv, WI!ServeHttp
<1>1. CASE WI!Refuse
  BY <1>0, <1>1, RefuseKeeps
<1>2. CASE WI!Reads
  BY <1>2, ReadsKeeps
<1>3. CASE WI!Closes /\ UNCHANGED <<buf, heard, answers>>
  BY <1>0, <1>3, WireRests DEF WI!Closes, WI!client
<1>4. CASE WI!HeadEnd # 0 /\ Len(buf) >= WI!HeadEnd + WI!ContentLength /\ WI!Serve
  <2>1. buf # <<>> => said[Turn].proto # "frame"
    BY <1>0, BufferBegins
  <2>2. /\ buf # <<>> /\ said[Turn].proto # "frame"
        /\ WI!HeadEnd + WI!ContentLength = WI!Size(said[Turn])
    BY <1>0, <1>4, <2>1, HeadIs
  <2>3. /\ WI!Takes(WI!Size(said[Turn])) /\ Len(buf) >= WI!Size(said[Turn])
        /\ \E status \in {200, 500} : WI!Answer(Turn, status)
        /\ at' = at \/ at' = "closed"
        /\ UNCHANGED <<said, gone, cut, net, stopped>>
    BY <1>4, <2>2 DEF WI!Serve, WI!GoesOn, WI!client, Turn
  <2>4. \E status \in Nat : WI!Answer(Turn, status)
    BY <2>3
  <2> QED
    BY <1>0, <2>2, <2>3, <2>4, OneMore
<1> QED
  BY <1>1, <1>2, <1>3, <1>4 DEF WI!ServeHttp

LEMMA ServeRtspKeeps ==
  ASSUME WireInv, WI!ServeRtsp
  PROVE  WireInv'
<1>0. at = "rtsp" /\ SaysInv /\ HearsInv /\ {cut, stopped} \subseteq BOOLEAN
  BY DEF WireInv, WI!ServeRtsp
<1>1. CASE WI!DropFrame
  <2>1. /\ WI!Framed /\ Len(buf) >= WI!Size(WI!Kind(buf[1])) /\ WI!Takes(WI!Size(WI!Kind(buf[1])))
        /\ UNCHANGED <<said, gone, cut, net, at, answers, stopped>>
    BY <1>1 DEF WI!DropFrame, WI!FrameIn, WI!client
  <2>2. buf # <<>> /\ WI!Kind(buf[1]).proto = "frame"
    BY <2>1 DEF WI!Framed
  <2>3. WI!Kind(buf[1]) = said[Turn]
    <3>1. /\ Len(buf) \in Nat \ {0} /\ said[Turn] \in Kinds
          /\ \A i \in 1 .. Len(buf) : i <= WI!Size(said[Turn]) => buf[i] = [of |-> Turn, n |-> i]
      BY <1>0, <2>2, BufferBegins
    <3>2. WI!Size(said[Turn]) \in Nat \ {0}
      BY <3>1, KindIs
    <3>3. buf[1] = [of |-> Turn, n |-> 1]
      BY <3>1, <3>2
    <3> QED
      BY <3>3 DEF WI!Kind
  <2> QED
    BY <1>0, <2>1, <2>2, <2>3, OneMore
<1>2. CASE WI!Handle
  <2>1. /\ ~WI!Framed /\ WI!HeadEnd # 0 /\ Len(buf) >= WI!HeadEnd + WI!ContentLength
        /\ WI!Takes(WI!HeadEnd + WI!ContentLength)
        /\ \E status \in {200, 404, 455, 461, 500, 501} : WI!Answer(Turn, status)
        /\ at' = at \/ at' = "closed"
        /\ UNCHANGED <<said, gone, cut, net, stopped>>
    BY <1>2 DEF WI!Handle, WI!MessageIn, WI!GoesOn, WI!client, Turn
  <2>2. ASSUME buf # <<>> PROVE said[Turn].proto # "frame"
    <3>1. /\ Len(buf) \in Nat \ {0} /\ said[Turn] \in Kinds
          /\ \A i \in 1 .. Len(buf) : i <= WI!Size(said[Turn]) => buf[i] = [of |-> Turn, n |-> i]
      BY <1>0, <2>2, BufferBegins
    <3>2. WI!Size(said[Turn]) \in Nat \ {0}
      BY <3>1, KindIs
    <3>3. buf[1] = [of |-> Turn, n |-> 1]
      BY <3>1, <3>2
    <3> QED
      BY <2>1, <2>2, <3>3 DEF WI!Framed, WI!Kind
  <2>3. /\ buf # <<>> /\ said[Turn].proto # "frame"
        /\ WI!HeadEnd + WI!ContentLength = WI!Size(said[Turn])
    BY <1>0, <2>1, <2>2, HeadIs
  <2>4. \E status \in Nat : WI!Answer(Turn, status)
    BY <2>1
  <2>5. WI!Takes(WI!Size(said[Turn])) /\ Len(buf) >= WI!Size(said[Turn])
    BY <2>1, <2>3
  <2> QED
    BY <1>0, <2>1, <2>3, <2>4, <2>5, OneMore
<1>3. CASE WI!Leaves
  BY <1>0, <1>3, WireRests DEF WI!Leaves, WI!Closes, WI!client
<1>4. CASE WI!Waits
  BY <1>4, ReadsKeeps DEF WI!Waits
<1> QED
  BY <1>1, <1>2, <1>3, <1>4 DEF WI!ServeRtsp

LEMMA WireKeeps ==
  ASSUME WireInv, WI!WireNext
  PROVE  WireInv'
<1>0. {cut, stopped} \subseteq BOOLEAN /\ SaysInv /\ HearsInv /\ AnswersInv
  BY DEF WireInv
<1>1. CASE WI!Cuts
  <2>1. cut' = TRUE /\ UNCHANGED <<said, gone, net, at, buf, heard, answers, stopped>>
    BY <1>1 DEF WI!Cuts
  <2>2. AnswersInv'
    BY <1>0, <2>1 DEF AnswersInv
  <2> QED
    BY <1>0, <2>1, <2>2, HearsRest, SaysRest DEF WireInv
<1>2. CASE WI!Accept
  BY <1>0, <1>2, WireRests DEF WI!Accept, WI!client
<1>3. CASE WI!Stop
  <2>1. stopped' = TRUE /\ UNCHANGED <<said, gone, cut, net, at, buf, heard, answers>>
    BY <1>3 DEF WI!Stop, WI!client
  <2>2. AnswersInv'
    BY <1>0, <2>1 DEF AnswersInv
  <2> QED
    BY <1>0, <2>1, <2>2, HearsRest, SaysRest DEF WireInv
<1> QED
  BY <1>1, <1>2, <1>3, SendsKeeps, SniffKeeps, ServeHttpKeeps, ServeRtspKeeps DEF WI!WireNext

LEMMA WireStarts ==
  ASSUME WI!WireInit
  PROVE  WireInv
<1>1. /\ gone = [of |-> 1, n |-> 0] /\ net = <<>> /\ buf = <<>> /\ heard = <<>>
      /\ answers = <<>> /\ cut = FALSE /\ stopped = FALSE /\ at = "new"
  BY DEF WI!WireInit
<1>2. said \in Seq(Kinds) /\ Len(said) \in Nat \ {0} /\ WI!Speech(said)
  BY DEF WI!WireInit, WI!Speech
<1>3. SaysInv
  <2>1. said[1] \in Kinds
    BY <1>2
  <2>2. WI!Size(said[1]) \in Nat
    BY <2>1, KindIs
  <2>3. gone.of = 1 /\ gone.n = 0 /\ gone \in WI!Cell
    BY <1>1 DEF WI!Cell
  <2>4. gone.of \in 1 .. Len(said) /\ gone.n \in 0 .. WI!Size(said[gone.of])
    BY <1>2, <2>2, <2>3
  <2> QED
    BY <1>2, <2>3, <2>4 DEF SaysInv, WI!Speech
<1>4. HearsInv
  <2>1. buf \o net = <<>> /\ Len(heard) = 0
    BY <1>1
  <2>2. Follows(<<>>, 1, gone)
    BY <1>1 DEF Follows
  <2>3. Follows(buf \o net, Len(heard) + 1, gone)
    BY <2>1, <2>2
  <2> QED
    BY <1>1, <2>3 DEF HearsInv, WI!HeardWhole
<1>5. AnswersInv
  BY <1>1 DEF AnswersInv
<1> QED
  BY <1>1, <1>3, <1>4, <1>5 DEF WireInv

\* What the run checks.
LEMMA WireShows ==
  ASSUME WireInv
  PROVE  WireSafe
<1>1. WI!WireTypeOK
  BY DEF WireInv, SaysInv, HearsInv, AnswersInv, WI!WireTypeOK
<1>2. WI!HeardWhole
  BY DEF WireInv, HearsInv
<1>3. WI!AnswersFollow
  BY DEF WireInv, AnswersInv, WI!AnswersFollow
<1>4. WI!NothingLeft
  <2> SUFFICES ASSUME buf = <<>>, net = <<>>
               PROVE  /\ gone.n \in {0, WI!Size(said[gone.of])}
                      /\ Len(heard) = (IF gone.n = 0 THEN 0 ELSE gone.of)
    BY DEF WI!NothingLeft
  <2>1. buf \o net = <<>>
    OBVIOUS
  <2>2. Follows(<<>>, Len(heard) + 1, gone) /\ Len(heard) \in Nat
    BY <2>1 DEF WireInv, HearsInv
  <2>3. CASE gone = [of |-> 1, n |-> 0] /\ Len(heard) + 1 = 1
    BY <2>2, <2>3
  <2>4. CASE /\ gone.of \in 1 .. Len(said) /\ gone.n = WI!Size(said[gone.of])
             /\ Len(heard) + 1 = gone.of + 1
    <3>1. said[gone.of] \in Kinds
      BY <2>4 DEF WireInv, SaysInv
    <3>2. gone.n \in Nat \ {0}
      BY <2>4, <3>1, KindIs
    <3> QED
      BY <2>2, <2>4, <3>2
  <2> QED
    BY <2>2, <2>3, <2>4 DEF Follows
<1> QED
  BY <1>1, <1>2, <1>3, <1>4 DEF WireSafe

(* On the server's one port, in whatever pieces the bytes arrive, whichever *)
(* waits end in the middle of a message and wherever the client goes away:  *)
(* each message is taken whole, once and in its turn, has its one answer in *)
(* that order, and none stays in the buffer unheard (sniff, read_request,   *)
(* serve_connection, WireReader::read_next, serve_rtsp).                    *)
THEOREM EachMessageWhole == Spec => []WireSafe
<1>1. Init => WireInv
  BY WireStarts DEF Init
<1>2. WireInv /\ [Next]_vars => WireInv'
  <2> SUFFICES ASSUME WireInv, [Next]_vars PROVE WireInv'
    OBVIOUS
  <2>1. CASE WIStep
    BY <2>1, WireKeeps DEF WIStep
  <2>2. CASE wireVars' = wireVars
    <3>1. UNCHANGED <<said, gone, net, cut, at, buf, heard, answers, stopped>>
      BY <2>2 DEF wireVars
    <3>2. SaysInv' /\ HearsInv'
      BY <3>1, HearsRest, SaysRest DEF WireInv
    <3>3. AnswersInv'
      BY <3>1 DEF WireInv, AnswersInv
    <3> QED
      BY <3>1, <3>2, <3>3 DEF WireInv
  <2> QED
    BY <2>1, <2>2 DEF Next, vars, RCStep, PTStep, TKStep, PDStep
<1>3. WireInv => WireSafe
  BY WireShows
<1> QED
  BY <1>1, <1>2, <1>3, PTL DEF Spec

-----------------------------------------------------------------------------
(* Ptz: no session announced that does not live *)

LEMMA NothingIsNobody == Nil \notin {"control", "video"}
BY PtzAssumption DEF PtzAssumption, PT!PtzAssumption

\* A thread that was told to stop and joined is not the one announced.
LEMMA JoinedLeaves ==
  ASSUME PT!NoGhost, PT!Joined
  PROVE  registry' # "control" /\ (registry' = "video" => registry = "video")
BY NothingIsNobody DEF PT!NoGhost, PT!Joined, PT!Leave

\* What the guardian does, at the loop's turn or when a request calls it.
LEMMA UpkeepKeeps ==
  ASSUME PT!NoGhost, PT!Upkeep, UNCHANGED video
  PROVE  PT!NoGhost'
<1>1. CASE PT!DropEntry
  BY <1>1, JoinedLeaves DEF PT!DropEntry, PT!NoGhost
<1>2. CASE address # Nil /\ PT!Replace(address)
  BY <1>2, JoinedLeaves DEF PT!Replace, PT!NoGhost
<1>3. CASE UNCHANGED <<kept, control, where, registry>>
  BY <1>3 DEF PT!NoGhost
<1> QED
  BY <1>1, <1>2, <1>3 DEF PT!Upkeep

(* A request never finds a session announced whose thread forgot to leave: *)
(* the guardian's entry, its thread and its address come and go together,  *)
(* and whoever is in the registry lives or is on the way out (PtzRegistry, *)
(* Controles::manter, run_control, DvripSession).                          *)
THEOREM NobodyDeadIsAnnounced == Spec => []PT!NoGhost
<1>1. Init => PT!NoGhost
  BY NothingIsNobody DEF Init, PT!PtzInit, PT!NoGhost
<1>2. PT!NoGhost /\ [Next]_vars => PT!NoGhost'
  <2> SUFFICES ASSUME PT!NoGhost, [Next]_vars PROVE PT!NoGhost'
    OBVIOUS
  <2>1. CASE ptzVars' = ptzVars
    BY <2>1 DEF ptzVars, PT!NoGhost
  <2>2. CASE PT!Tick
    BY <2>2, UpkeepKeeps DEF PT!Tick
  <2>3. CASE PT!Announce
    BY <2>3 DEF PT!Announce, PT!NoGhost
  <2>4. CASE PT!Fall
    BY <2>4 DEF PT!Fall, PT!NoGhost
  <2>5. CASE PT!Forsake
    BY <2>5, NothingIsNobody DEF PT!Forsake, PT!Leave, PT!NoGhost
  <2>6. CASE PT!Reopen
    BY <2>6 DEF PT!Reopen, PT!NoGhost
  <2>7. CASE PT!VideoUp
    BY <2>7 DEF PT!VideoUp, PT!NoGhost
  <2>8. CASE PT!VideoDown
    BY <2>8, NothingIsNobody DEF PT!VideoDown, PT!Leave, PT!NoGhost
  <2>9. ASSUME NEW c \in Clients, PT!Ask(c)
        PROVE  PT!NoGhost'
    <3>1. CASE PT!Upkeep
      BY <2>9, <3>1, UpkeepKeeps DEF PT!Ask
    <3>2. CASE UNCHANGED <<kept, control, where, registry>>
      BY <2>9, <3>2 DEF PT!Ask, PT!NoGhost
    <3> QED
      BY <2>9, <3>1, <3>2 DEF PT!Ask
  <2>10. CASE PT!Save \/ \E c \in Clients : PT!Waited(c) \/ PT!Begin(c) \/ PT!Send(c)
    BY <2>10 DEF PT!Save, PT!Waited, PT!Begin, PT!Send, PT!NoGhost
  <2>11. CASE PTStep
    BY <2>11, <2>2, <2>3, <2>4, <2>5, <2>6, <2>7, <2>8, <2>9, <2>10 DEF PTStep, PT!PtzNext
  <2> QED
    BY <2>1, <2>11 DEF Next, vars, RCStep, TKStep, PDStep, WIStep
<1> QED
  BY <1>1, <1>2, PTL DEF Spec

-----------------------------------------------------------------------------
(* RtspCamera: the format of a track before its samples *)

Tracks == {"video", "audio"}
Ways == {"tcp", "udp", RC!None}

\* What is on the wire, what the camera has to answer and by what it sends.
OnWire == [is : {"answer", "rtp"}, of : RC!Requests \cup Tracks, status : {"200", "401", "500", RC!None}]
CameraIs == [todo : Seq(RC!Requests), set : Ways, plays : Ways, serves : SUBSET {"tcp", "udp"},
             sound : BOOLEAN, faults : Nat]

WorldInv ==
  /\ camera \in CameraIs
  /\ wire \in Seq(OnWire) /\ \A i \in 1 .. Len(wire) : wire[i].is = "rtp" => wire[i].of \in Tracks
  /\ udp \subseteq Tracks

\* Where the session is goes with what was negotiated and what the sink was told.
PlaceInv ==
  /\ step \in RC!Requests \cup {"validate", "stream", "ended"}
  /\ attempt \in 0 .. Len(Transports)
  /\ audio \in {"absent", "wanted", "set"}
  /\ step = "SETUP audio" => audio # "absent"
  /\ step \in {"PLAY", "validate", "stream", "KEEP"} => audio # "wanted"

\* Told once, before the first sample and never of the audio too late: who
\* may still have audio has told of it, when anything was told.
ToldInv ==
  /\ told # {} => "video" \in told /\ (audio # "absent" => "audio" \in told)
  /\ step \in {"OPTIONS", "DESCRIBE"} => told = {}
  /\ step \in {"validate", "stream", "KEEP"} => told # {}
  /\ fed \subseteq told

CameraInv == WorldInv /\ PlaceInv /\ ToldInv

LEMMA TransportIs ==
  ASSUME NEW i \in 0 .. Len(Transports)
  PROVE  i # 0 => Transports[i] \in Ways
BY CameraAssumption DEF CameraAssumption, RC!CameraAssumption, Ways

LEMMA ToAnswer ==
  ASSUME camera \in CameraIs, NEW r \in RC!Requests
  PROVE  Append(camera.todo, r) \in Seq(RC!Requests)
BY DEF CameraIs

LEMMA AsksKeeps ==
  ASSUME camera \in CameraIs, NEW r \in RC!Requests, NEW i \in 0 .. Len(Transports),
         r = "SETUP video" => i # 0, RC!Asks(r, i)
  PROVE  camera' \in CameraIs /\ step' = r
<1>1. step' = r /\ camera' = [camera EXCEPT !.todo = Append(@, r),
                            !.set = IF r = "SETUP video" THEN Transports[i] ELSE @]
  BY DEF RC!Asks
<1>2. Append(camera.todo, r) \in Seq(RC!Requests)
  BY ToAnswer
<1>3. r = "SETUP video" => Transports[i] \in Ways
  BY TransportIs
<1> QED
  BY <1>1, <1>2, <1>3 DEF CameraIs

LEMMA NextTransportKeeps ==
  ASSUME camera \in CameraIs, attempt \in 0 .. Len(Transports), RC!NextTransport
  PROVE  /\ camera' \in CameraIs /\ attempt' \in 0 .. Len(Transports)
         /\ step' \in {"SETUP video", "ended"}
<1>1. Len(Transports) \in Nat
  BY CameraAssumption DEF CameraAssumption, RC!CameraAssumption
<1>2. CASE attempt < Len(Transports)
  <2>1. attempt' = attempt + 1 /\ RC!Asks("SETUP video", attempt + 1)
    BY <1>2 DEF RC!NextTransport
  <2>2. attempt + 1 \in 0 .. Len(Transports) /\ attempt + 1 # 0
    BY <1>1, <1>2
  <2>3. "SETUP video" \in RC!Requests
    BY DEF RC!Requests
  <2> QED
    BY <2>1, <2>2, <2>3, AsksKeeps
<1>3. CASE ~(attempt < Len(Transports))
  BY <1>3 DEF RC!NextTransport, RC!Ends
<1> QED
  BY <1>2, <1>3

-----------------------------------------------------------------------------
\* What the answer of a request leads to: each keeps the parts of the invariant,
\* the wire and what was fed being somebody else's.
LEMMA DescribedKeeps ==
  ASSUME CameraInv, NEW good \in BOOLEAN, NEW of, step \in {"OPTIONS", "DESCRIBE"},
         RC!Described(good, of), UNCHANGED fed
  PROVE  camera' \in CameraIs /\ udp' \subseteq Tracks /\ PlaceInv' /\ ToldInv'
<1>1. told' = {} /\ fed' = {} /\ udp' = udp /\ told = {}
  BY DEF RC!Described, CameraInv, ToldInv
<1>2. CASE RC!Ends("error") /\ UNCHANGED <<attempt, audio>>
  BY <1>1, <1>2 DEF RC!Ends, CameraInv, WorldInv, PlaceInv, ToldInv
<1>3. CASE RC!Asks("DESCRIBE", 0) /\ UNCHANGED <<attempt, audio>>
  <2>1. "DESCRIBE" \in RC!Requests /\ 0 \in 0 .. Len(Transports)
    BY CameraAssumption DEF RC!Requests, CameraAssumption, RC!CameraAssumption
  <2>2. camera' \in CameraIs /\ step' = "DESCRIBE"
    BY <1>3, <2>1, AsksKeeps DEF CameraInv, WorldInv
  <2> QED
    BY <1>1, <1>3, <2>1, <2>2 DEF CameraInv, WorldInv, PlaceInv, ToldInv
<1>4. CASE audio' = (IF camera.sound THEN "wanted" ELSE "absent") /\ RC!NextTransport
  <2>1. /\ camera' \in CameraIs /\ attempt' \in 0 .. Len(Transports)
        /\ step' \in {"SETUP video", "ended"}
    BY <1>4, NextTransportKeeps DEF CameraInv, WorldInv, PlaceInv
  <2> QED
    BY <1>1, <1>4, <2>1 DEF CameraInv, WorldInv, PlaceInv, ToldInv, RC!Requests
<1> QED
  BY <1>2, <1>3, <1>4 DEF RC!Described

LEMMA SetUpKeeps ==
  ASSUME CameraInv, step \in {"SETUP video", "SETUP audio"}, NEW status, NEW of,
         RC!Proceeds(status, of), UNCHANGED fed
  PROVE  camera' \in CameraIs /\ udp' \subseteq Tracks /\ PlaceInv' /\ ToldInv'
<1> DEFINE fits == status = "200" /\ of \in {"SETUP video", "SETUP audio"}
<1>0. RC!SetUp(status = "200", of)
  BY DEF RC!Proceeds
<1>1. told' = told /\ fed' = fed
  BY <1>0 DEF RC!SetUp
<1>2. {"PLAY", "SETUP audio"} \subseteq RC!Requests
  BY DEF RC!Requests
<1>3. CASE step = "SETUP audio" /\ audio' = RC!AudioAfter(fits) /\ RC!Asks("PLAY", attempt)
           /\ UNCHANGED <<attempt, udp>>
  <2>1. camera' \in CameraIs /\ step' = "PLAY"
    BY <1>2, <1>3, AsksKeeps DEF CameraInv, WorldInv, PlaceInv
  <2>2. audio' \in {"set", "absent"} /\ audio # "absent"
    BY <1>3 DEF RC!AudioAfter, CameraInv, PlaceInv
  <2> QED
    BY <1>1, <1>2, <1>3, <2>1, <2>2 DEF CameraInv, WorldInv, PlaceInv, ToldInv
<1>4. CASE RC!Asks(IF audio = "absent" THEN "PLAY" ELSE "SETUP audio", attempt)
           /\ UNCHANGED <<attempt, audio, udp>>
  <2>1. /\ camera' \in CameraIs
        /\ step' = IF audio = "absent" THEN "PLAY" ELSE "SETUP audio"
    BY <1>2, <1>4, AsksKeeps DEF CameraInv, WorldInv, PlaceInv
  <2> QED
    BY <1>1, <1>2, <1>4, <2>1 DEF CameraInv, WorldInv, PlaceInv, ToldInv
<1>5. CASE RC!Cleanup /\ RC!NextTransport
  <2>1. /\ camera' \in CameraIs /\ attempt' \in 0 .. Len(Transports)
        /\ step' \in {"SETUP video", "ended"}
    BY <1>5, NextTransportKeeps DEF CameraInv, WorldInv, PlaceInv
  <2> QED
    BY <1>1, <1>5, <2>1 DEF CameraInv, WorldInv, PlaceInv, ToldInv, RC!Requests, RC!Cleanup
<1> QED
  BY <1>0, <1>3, <1>4, <1>5 DEF RC!SetUp

LEMMA PlayedKeeps ==
  ASSUME CameraInv, NEW good \in BOOLEAN, NEW silence \in BOOLEAN, step = "PLAY",
         RC!Played(good, silence), UNCHANGED fed
  PROVE  camera' \in CameraIs /\ udp' \subseteq Tracks /\ PlaceInv' /\ ToldInv'
<1>1. UNCHANGED <<attempt, audio, udp>>
  BY DEF RC!Played
<1>2. CASE step' = "validate" /\ told' = RC!Tells /\ UNCHANGED camera
  <2>1. told' # {} /\ told \subseteq told' /\ "video" \in told' /\ (audio # "absent" => "audio" \in told')
    BY <1>2 DEF RC!Tells, CameraInv, PlaceInv, ToldInv
  <2> QED
    BY <1>1, <1>2, <2>1 DEF CameraInv, WorldInv, PlaceInv, ToldInv
<1>3. CASE RC!Asks("TEARDOWN", attempt) /\ UNCHANGED told
  <2>1. "TEARDOWN" \in RC!Requests
    BY DEF RC!Requests
  <2>2. camera' \in CameraIs /\ step' = "TEARDOWN"
    BY <1>3, <2>1, AsksKeeps DEF CameraInv, WorldInv, PlaceInv
  <2> QED
    BY <1>1, <1>3, <2>1, <2>2 DEF CameraInv, WorldInv, PlaceInv, ToldInv
<1> QED
  BY <1>2, <1>3 DEF RC!Played

LEMMA TornDownKeeps ==
  ASSUME CameraInv, RC!TornDown, UNCHANGED fed
  PROVE  camera' \in CameraIs /\ udp' \subseteq Tracks /\ PlaceInv' /\ ToldInv'
<1>1. RC!Cleanup /\ UNCHANGED told
  BY DEF RC!TornDown
<1>2. /\ camera' \in CameraIs /\ attempt' \in 0 .. Len(Transports)
      /\ step' \in {"SETUP video", "ended"}
  <2>1. CASE RC!Ends("ok") /\ UNCHANGED attempt
    BY <2>1 DEF RC!Ends, CameraInv, WorldInv, PlaceInv
  <2>2. CASE RC!NextTransport
    BY <2>2, NextTransportKeeps DEF CameraInv, WorldInv, PlaceInv
  <2> QED
    BY <2>1, <2>2 DEF RC!TornDown
<1> QED
  BY <1>1, <1>2 DEF CameraInv, WorldInv, PlaceInv, ToldInv, RC!Requests, RC!Cleanup

LEMMA KeptAliveKeeps ==
  ASSUME CameraInv, NEW silence \in BOOLEAN, step = "KEEP", RC!KeptAlive(silence), UNCHANGED fed
  PROVE  camera' \in CameraIs /\ udp' \subseteq Tracks /\ PlaceInv' /\ ToldInv'
<1>1. UNCHANGED <<attempt, audio, told, udp, camera>> /\ step' \in {"ended", "stream"}
  BY DEF RC!KeptAlive, RC!Ends
<1> QED
  BY <1>1 DEF CameraInv, WorldInv, PlaceInv, ToldInv

LEMMA ProceedsKeeps ==
  ASSUME CameraInv, step \in RC!Requests, NEW status, NEW of, RC!Proceeds(status, of), UNCHANGED fed
  PROVE  camera' \in CameraIs /\ udp' \subseteq Tracks /\ PlaceInv' /\ ToldInv'
<1>1. CASE step \in {"OPTIONS", "DESCRIBE"}
  <2> DEFINE good == status = "200" \/ (step = "OPTIONS" /\ status = "401")
  <2>1. RC!Described(good, of)
    BY <1>1 DEF RC!Proceeds
  <2>2. good \in BOOLEAN
    OBVIOUS
  <2> HIDE DEF good
  <2> QED
    BY <1>1, <2>1, <2>2, DescribedKeeps
<1>2. CASE step \in {"SETUP video", "SETUP audio"}
  BY <1>2, SetUpKeeps
<1>3. CASE step = "PLAY"
  BY <1>3, PlayedKeeps DEF RC!Proceeds
<1>4. CASE step = "TEARDOWN"
  BY <1>4, TornDownKeeps DEF RC!Proceeds
<1>5. CASE step = "KEEP"
  BY <1>5, KeptAliveKeeps DEF RC!Proceeds
<1> QED
  BY <1>1, <1>2, <1>3, <1>4, <1>5 DEF RC!Requests

-----------------------------------------------------------------------------
\* What was read leaves the wire; what is left of it is as it was.
LEMMA ReadsOne ==
  ASSUME WorldInv, wire # <<>>, wire' = Tail(wire)
  PROVE  /\ wire' \in Seq(OnWire)
         /\ \A i \in 1 .. Len(wire') : wire'[i].is = "rtp" => wire'[i].of \in Tracks
         /\ Head(wire) \in OnWire /\ (Head(wire).is = "rtp" => Head(wire).of \in Tracks)
BY DEF WorldInv

LEMMA ReadAnswerKeeps ==
  ASSUME CameraInv, RC!ReadAnswer
  PROVE  CameraInv'
<1>1. step \in RC!Requests /\ wire # <<>> /\ wire' = Tail(wire) /\ UNCHANGED fed
  BY DEF RC!ReadAnswer
<1>2. /\ wire' \in Seq(OnWire)
      /\ \A i \in 1 .. Len(wire') : wire'[i].is = "rtp" => wire'[i].of \in Tracks
  BY <1>1, ReadsOne DEF CameraInv
<1>3. camera' \in CameraIs /\ udp' \subseteq Tracks /\ PlaceInv' /\ ToldInv'
  <2>1. CASE UNCHANGED <<step, attempt, audio, told, udp, camera>>
    BY <1>1, <2>1 DEF CameraInv, WorldInv, PlaceInv, ToldInv
  <2>2. CASE /\ camera' = [camera EXCEPT !.todo = Append(@, step)]
             /\ UNCHANGED <<step, attempt, audio, told, udp>>
    <3>1. Append(camera.todo, step) \in Seq(RC!Requests)
      BY <1>1 DEF CameraInv, WorldInv, CameraIs
    <3>2. camera' \in CameraIs
      BY <2>2, <3>1 DEF CameraInv, WorldInv, CameraIs
    <3> QED
      BY <1>1, <2>2, <3>2 DEF CameraInv, WorldInv, PlaceInv, ToldInv
  <2>3. CASE RC!Proceeds(Head(wire).status, Head(wire).of)
    BY <1>1, <2>3, ProceedsKeeps
  <2> QED
    BY <2>1, <2>2, <2>3 DEF RC!ReadAnswer
<1> QED
  BY <1>2, <1>3 DEF CameraInv, WorldInv

\* A packet that is taken is of a track whose format was told.
LEMMA TakesKeeps ==
  ASSUME CameraInv, step \in {"validate", "stream"}, RC!Takes,
         UNCHANGED <<attempt, audio, told, camera>>, step' \in {"validate", "stream"}
  PROVE  CameraInv'
<1>1. \A t \in Tracks : RC!Fed(t) \subseteq told
  BY DEF RC!Fed, Tracks, CameraInv, ToldInv
<1>2. fed' \subseteq told /\ udp' \subseteq Tracks
  <2>1. CASE \E t \in udp : fed' = RC!Fed(t) /\ udp' = udp \ {t}
    BY <1>1, <2>1 DEF CameraInv, WorldInv
  <2>2. CASE UNCHANGED <<fed, udp>>
    BY <2>2 DEF CameraInv, WorldInv, ToldInv
  <2>3. CASE wire # <<>> /\ UNCHANGED udp /\ Head(wire).is = "rtp" /\ fed' = RC!Fed(Head(wire).of)
    <3>1. Head(wire).of \in Tracks
      BY <2>3 DEF CameraInv, WorldInv
    <3> QED
      BY <1>1, <2>3, <3>1 DEF CameraInv, WorldInv
  <2> QED
    BY <2>1, <2>2, <2>3 DEF RC!Takes
<1>3. WorldInv'
  <2>1. CASE UNCHANGED wire
    BY <1>2, <2>1 DEF CameraInv, WorldInv
  <2>2. CASE wire # <<>> /\ wire' = Tail(wire)
    BY <1>2, <2>2, ReadsOne DEF CameraInv, WorldInv
  <2> QED
    BY <2>1, <2>2 DEF RC!Takes
<1> QED
  BY <1>2, <1>3 DEF CameraInv, PlaceInv, ToldInv

LEMMA GivesUpKeeps ==
  ASSUME CameraInv, RC!GivesUp \/ RC!Stops
  PROVE  CameraInv'
<1>1. "TEARDOWN" \in RC!Requests
  BY DEF RC!Requests
<1>2. camera' \in CameraIs /\ step' = "TEARDOWN"
  <2>1. CASE RC!GivesUp
    BY <1>1, <2>1, AsksKeeps DEF RC!GivesUp, CameraInv, WorldInv, PlaceInv
  <2>2. CASE RC!Stops
    <3>1. Append(camera.todo, "TEARDOWN") \in Seq(RC!Requests)
      BY <1>1 DEF CameraInv, WorldInv, CameraIs
    <3> QED
      BY <2>2, <3>1 DEF RC!Stops, CameraInv, WorldInv, CameraIs
  <2> QED
    BY <2>1, <2>2
<1>3. UNCHANGED <<attempt, audio, told, fed, wire, udp>>
  BY DEF RC!GivesUp, RC!Stops
<1> QED
  BY <1>1, <1>2, <1>3 DEF CameraInv, WorldInv, PlaceInv, ToldInv

LEMMA TurnKeeps ==
  ASSUME CameraInv, RC!Turn
  PROVE  CameraInv'
<1>1. step = "stream" /\ UNCHANGED <<attempt, audio, told, fed, wire, udp>>
  BY DEF RC!Turn
<1>2. CASE UNCHANGED camera /\ step' \in {"stream", "ended"}
  BY <1>1, <1>2 DEF CameraInv, WorldInv, PlaceInv, ToldInv
<1>3. CASE RC!Asks("KEEP", attempt)
  <2>1. "KEEP" \in RC!Requests
    BY DEF RC!Requests
  <2>2. camera' \in CameraIs /\ step' = "KEEP"
    BY <1>3, <2>1, AsksKeeps DEF CameraInv, WorldInv, PlaceInv
  <2> QED
    BY <1>1, <2>1, <2>2 DEF CameraInv, WorldInv, PlaceInv, ToldInv
<1> QED
  BY <1>1, <1>2, <1>3 DEF RC!Turn, RC!Ends

\* The camera answers in its turn, and sends the tracks it was asked for.
LEMMA CameraDoesKeeps ==
  ASSUME CameraInv, RC!Answer \/ RC!Plays
  PROVE  CameraInv'
<1>1. UNCHANGED <<step, attempt, audio, told, fed>>
  BY DEF RC!Answer, RC!Plays, RC!client
<1>2. ASSUME NEW w \in OnWire, w.is = "rtp" => w.of \in Tracks, wire' = Append(wire, w)
      PROVE  /\ wire' \in Seq(OnWire)
             /\ \A i \in 1 .. Len(wire') : wire'[i].is = "rtp" => wire'[i].of \in Tracks
  BY <1>2 DEF CameraInv, WorldInv
<1>3. CASE RC!Answer
  <2>1. PICK s \in {"200", "401", "500"} :
          /\ wire' = Append(wire, [is |-> "answer", of |-> Head(camera.todo), status |-> s])
          /\ camera' = [camera EXCEPT !.todo = Tail(@), !.faults = @ + (IF s = "200" THEN 0 ELSE 1),
               !.plays = CASE s = "200" /\ Head(camera.todo) = "PLAY"     -> camera.set
                           [] s = "200" /\ Head(camera.todo) = "TEARDOWN" -> RC!None
                           [] OTHER                                       -> @]
    BY <1>3 DEF RC!Answer
  <2>2. camera.todo # <<>> /\ camera.todo \in Seq(RC!Requests) /\ UNCHANGED udp
    BY <1>3 DEF RC!Answer, CameraInv, WorldInv, CameraIs
  <2>3. Head(camera.todo) \in RC!Requests /\ Tail(camera.todo) \in Seq(RC!Requests)
    BY <2>2
  <2>4. [is |-> "answer", of |-> Head(camera.todo), status |-> s] \in OnWire
    BY <2>3 DEF OnWire
  <2>5. camera' \in CameraIs
    <3>1. PICK p \in Ways, f \in Nat :
            camera' = [camera EXCEPT !.todo = Tail(@), !.faults = f, !.plays = p]
      <4>1. camera \in CameraIs
        BY DEF CameraInv, WorldInv
      <4>2. {camera.set, camera.plays, RC!None} \subseteq Ways /\ camera.faults \in Nat
        BY <4>1 DEF CameraIs, Ways
      <4>3. {camera.faults + 0, camera.faults + 1} \subseteq Nat
        BY <4>2
      <4> QED
        BY <2>1, <4>2, <4>3
    <3> QED
      BY <2>3, <3>1 DEF CameraInv, WorldInv, CameraIs
  <2>6. /\ wire' \in Seq(OnWire)
        /\ \A i \in 1 .. Len(wire') : wire'[i].is = "rtp" => wire'[i].of \in Tracks
    BY <1>2, <2>1, <2>4
  <2> QED
    BY <1>1, <2>2, <2>5, <2>6 DEF CameraInv, WorldInv, PlaceInv, ToldInv
<1>4. CASE RC!Plays
  <2>1. PICK t \in Tracks :
          IF camera.plays = "tcp"
          THEN wire' = Append(wire, [is |-> "rtp", of |-> t, status |-> RC!None]) /\ UNCHANGED udp
          ELSE udp' = udp \cup {t} /\ UNCHANGED wire
    BY <1>4 DEF RC!Plays, Tracks
  <2>2. [is |-> "rtp", of |-> t, status |-> RC!None] \in OnWire
    BY DEF OnWire
  <2>3. UNCHANGED camera
    BY <1>4 DEF RC!Plays
  <2>4. CASE wire' = Append(wire, [is |-> "rtp", of |-> t, status |-> RC!None]) /\ UNCHANGED udp
    BY <1>1, <1>2, <2>2, <2>3, <2>4 DEF CameraInv, WorldInv, PlaceInv, ToldInv
  <2>5. CASE udp' = udp \cup {t} /\ UNCHANGED wire
    BY <1>1, <2>3, <2>5 DEF CameraInv, WorldInv, PlaceInv, ToldInv
  <2> QED
    BY <2>1, <2>4, <2>5
<1> QED
  BY <1>3, <1>4

LEMMA FallsKeeps ==
  ASSUME CameraInv, RC!Falls
  PROVE  CameraInv'
<1>1. step = "stream" /\ wire' = <<>> /\ UNCHANGED <<attempt, audio, told, fed, udp>>
      /\ step' \in {"stream", "ended"}
      /\ camera' = [camera EXCEPT !.faults = @ + 1, !.todo = <<>>]
  BY DEF RC!Falls
<1>2. camera' \in CameraIs
  <2>1. <<>> \in Seq(RC!Requests) /\ camera \in CameraIs
    BY DEF CameraInv, WorldInv
  <2>2. camera.faults + 1 \in Nat
    BY <2>1 DEF CameraIs
  <2> QED
    BY <1>1, <2>1, <2>2 DEF CameraIs
<1>3. /\ wire' \in Seq(OnWire)
      /\ \A i \in 1 .. Len(wire') : wire'[i].is = "rtp" => wire'[i].of \in Tracks
  BY <1>1
<1> QED
  BY <1>1, <1>2, <1>3 DEF CameraInv, WorldInv, PlaceInv, ToldInv

(* Through every fallback from one transport to the next, whatever the      *)
(* camera answers, late or not at all, and wherever the session is told to  *)
(* stop: the sink hears of the format of a track before it gets a sample of *)
(* it (RtspSession, cleanup_attempt, notify_format, handle_rtp).            *)
THEOREM FormatBeforeSamples == Spec => []RC!FormatFirst
<1>1. Init => CameraInv
  <2> SUFFICES ASSUME RC!CameraInit PROVE CameraInv
    BY DEF Init
  <2>1. camera \in CameraIs
    BY DEF RC!CameraInit, CameraIs, Ways, RC!Requests
  <2>2. 0 \in 0 .. Len(Transports)
    BY CameraAssumption DEF CameraAssumption, RC!CameraAssumption
  <2> QED
    BY <2>1, <2>2 DEF RC!CameraInit, CameraInv, WorldInv, PlaceInv, ToldInv, RC!Requests
<1>2. CameraInv /\ [Next]_vars => CameraInv'
  <2> SUFFICES ASSUME CameraInv, [Next]_vars PROVE CameraInv'
    OBVIOUS
  <2>1. CASE UNCHANGED <<step, attempt, audio, told, fed, wire, udp, camera>>
    BY <2>1 DEF CameraInv, WorldInv, PlaceInv, ToldInv
  <2>2. CASE RC!TimedOut
    <3>1. step \in RC!Requests /\ RC!Proceeds(RC!None, RC!None) /\ UNCHANGED <<fed, wire>>
      BY <2>2 DEF RC!TimedOut
    <3>2. camera' \in CameraIs /\ udp' \subseteq Tracks /\ PlaceInv' /\ ToldInv'
      BY <3>1, ProceedsKeeps
    <3> QED
      BY <3>1, <3>2 DEF CameraInv, WorldInv
  <2>3. CASE RC!Validate
    BY <2>3, TakesKeeps DEF RC!Validate
  <2>4. CASE RC!Receive
    BY <2>4, TakesKeeps DEF RC!Receive
  <2>5. CASE RC!AskStop
    BY <2>1, <2>5 DEF RC!AskStop, RC!client
  <2>6. CASE RCStep
    BY <2>2, <2>3, <2>4, <2>5, <2>6, ReadAnswerKeeps, GivesUpKeeps, TurnKeeps, CameraDoesKeeps,
       FallsKeeps DEF RCStep, RC!CameraNext, RC!Goes, RC!Waits
  <2>7. CASE rtspVars' = rtspVars
    BY <2>1, <2>7 DEF rtspVars
  <2> QED
    BY <2>6, <2>7 DEF Next, vars, PTStep, TKStep, PDStep, WIStep
<1>3. CameraInv => RC!FormatFirst
  BY DEF CameraInv, ToldInv, RC!FormatFirst
<1> QED
  BY <1>1, <1>2, <1>3, PTL DEF Spec

-----------------------------------------------------------------------------
(* Talk: one voice on the camera's speaker *)

ATalk == [alive : BOOLEAN, stop : BOOLEAN, up : BOOLEAN, queue : Nat, filling : BOOLEAN, quiet : Nat]
APage == [phase : {"away", "seeks", "opens", "feeds", "stops", "joins"}, holds : 0 .. MaxTalks, turn : Nat]

\* The talks and the requests, and what a request that closes one has in hand.
TalkShape ==
  /\ talks \in [TK!Talks -> ATalk] /\ page \in [Pages -> APage]
  /\ opened \in 0 .. MaxTalks /\ listed \in 0 .. opened
  /\ \A p \in Pages : page[p].phase \in {"stops", "joins"} => page[p].holds \in 1 .. opened
  /\ \A p \in Pages : page[p].phase = "joins" => talks[page[p].holds].stop

\* Who opens a talk has the lock, and the registry is empty meanwhile.
OpensAlone == \A p \in Pages : page[p].phase = "opens" => lock = p /\ listed = 0

\* The only talk that plays is the registry's.
PlaysListed == \A t \in TK!Talks : TK!Speaks(t) => t = listed

TalkInv == TalkShape /\ OpensAlone /\ PlaysListed

LEMMA TalksAre ==
  /\ MaxTalks \in Nat /\ IdleSteps \in Nat /\ {Frame, Fill, QueueMax} \subseteq Nat
  /\ Frame # 0 /\ Pieces \subseteq Nat /\ "nobody" \notin Pages
  /\ TK!Talks = 1 .. MaxTalks
BY TalkAssumption DEF TalkAssumption, TK!TalkAssumption, TK!Talks

LEMMA PlayedIsTalk ==
  ASSUME NEW k \in ATalk
  PROVE  /\ TK!Played(k) \in ATalk
         /\ TK!Played(k).alive = k.alive /\ TK!Played(k).stop = k.stop
<1> DEFINE going == ~k.filling \/ k.queue >= Fill
           plays == going /\ k.queue >= Frame
           q == IF plays THEN k.queue - Frame ELSE k.queue
           s == IF k.quiet > IdleSteps THEN k.quiet ELSE k.quiet + 1
<1>1. k.queue \in Nat /\ k.quiet \in Nat /\ Frame \in Nat
  BY TalksAre DEF ATalk
<1>2. q \in Nat /\ s \in Nat /\ (~plays) \in BOOLEAN
  BY <1>1
<1>3. TK!Played(k) = [k EXCEPT !.queue = q, !.filling = ~plays, !.quiet = s]
  BY DEF TK!Played
<1> HIDE DEF plays, q, s
<1> QED
  BY <1>2, <1>3 DEF ATalk

\* One talk that changes, without coming back to life and without forgetting
\* that it was told to stop, leaves what is said of all of them.
LEMMA OneTalkKeeps ==
  ASSUME TalkInv, NEW t \in TK!Talks, NEW k \in ATalk, talks' = [talks EXCEPT ![t] = k],
         k.alive => talks[t].alive, talks[t].stop => k.stop,
         UNCHANGED <<opened, listed, lock, page>>
  PROVE  TalkInv'
<1>1. talks' \in [TK!Talks -> ATalk] /\ talks \in [TK!Talks -> ATalk]
  BY DEF TalkInv, TalkShape
<1>2. \A u \in TK!Talks : (talks'[u].alive => talks[u].alive) /\ (talks[u].stop => talks'[u].stop)
  BY <1>1
<1>3. \A p \in Pages : page[p].phase \in {"stops", "joins"} => page[p].holds \in TK!Talks
  BY TalksAre DEF TalkInv, TalkShape
<1>4. TalkShape'
  BY <1>1, <1>2, <1>3 DEF TalkInv, TalkShape
<1>5. \A u \in TK!Talks : TK!Closing(u) => TK!Closing(u)'
  BY <1>2 DEF TK!Closing
<1>6. PlaysListed'
  BY <1>2, <1>5 DEF TalkInv, PlaysListed, TK!Speaks
<1>7. OpensAlone'
  BY DEF TalkInv, OpensAlone
<1> QED
  BY <1>4, <1>6, <1>7 DEF TalkInv

\* One request that goes on, closing nothing before or after.
LEMMA OnePageKeeps ==
  ASSUME TalkInv, NEW p \in Pages, NEW g \in APage, page' = [page EXCEPT ![p] = g],
         page[p].phase \notin {"stops", "joins"}, g.phase \notin {"stops", "joins", "opens"},
         UNCHANGED <<talks, opened, listed>>, UNCHANGED lock \/ page[p].phase = "opens"
  PROVE  TalkInv'
<1>1. page' \in [Pages -> APage] /\ page \in [Pages -> APage]
  BY DEF TalkInv, TalkShape
<1>2. \A q \in Pages : q # p => page'[q] = page[q]
  BY <1>1
<1>3. page'[p] = g
  BY <1>1
<1>4. TalkShape'
  BY <1>1, <1>2, <1>3 DEF TalkInv, TalkShape
<1>5. OpensAlone'
  BY <1>2, <1>3 DEF TalkInv, OpensAlone
<1>6. \A u \in TK!Talks : TK!Closing(u) => TK!Closing(u)'
  BY <1>2 DEF TK!Closing
<1>7. PlaysListed'
  BY <1>6 DEF TalkInv, PlaysListed, TK!Speaks
<1> QED
  BY <1>4, <1>5, <1>7 DEF TalkInv

LEMMA SeekKeeps ==
  ASSUME TalkInv, NEW p \in Pages, TK!Seek(p)
  PROVE  TalkInv'
<1>1. page[p].phase = "seeks" /\ lock = "nobody" /\ UNCHANGED <<talks, opened>>
  BY DEF TK!Seek
<1>2. page[p] \in APage /\ page \in [Pages -> APage] /\ listed \in 0 .. MaxTalks
  BY TalksAre DEF TalkInv, TalkShape
<1>3. CASE /\ UNCHANGED <<listed, lock>>
           /\ page' = [page EXCEPT ![p].phase = "feeds", ![p].holds = listed]
  <2> DEFINE g == [page[p] EXCEPT !.phase = "feeds", !.holds = listed]
  <2>1. g \in APage /\ g.phase = "feeds" /\ page' = [page EXCEPT ![p] = g]
    BY <1>2, <1>3 DEF APage
  <2> HIDE DEF g
  <2> QED
    BY <1>1, <1>3, <2>1, OnePageKeeps
<1>4. CASE /\ ~(listed # 0 /\ talks[listed].alive) /\ listed' = 0 /\ lock' = p
           /\ page' = [page EXCEPT ![p].phase = "opens"]
  <2> DEFINE g == [page[p] EXCEPT !.phase = "opens"]
  <2>1. g \in APage /\ g.phase = "opens" /\ page' = [page EXCEPT ![p] = g]
    BY <1>2, <1>4 DEF APage
  <2> HIDE DEF g
  <2>2. page' \in [Pages -> APage] /\ page'[p] = g /\ \A q \in Pages : q # p => page'[q] = page[q]
    BY <1>2, <2>1
  <2>3. TalkShape'
    BY <1>1, <1>4, <2>1, <2>2, TalksAre DEF TalkInv, TalkShape
  <2>4. OpensAlone'
    BY <1>1, <1>4, <2>1, <2>2, TalksAre DEF TalkInv, OpensAlone
  <2>5. \A u \in TK!Talks : TK!Closing(u) => TK!Closing(u)'
    BY <1>1, <2>2 DEF TK!Closing
  <2>6. \A u \in TK!Talks : talks[u].alive => TK!Closing(u)
    BY <1>4, TalksAre DEF TalkInv, PlaysListed, TK!Speaks
  <2>7. PlaysListed'
    BY <1>1, <2>5, <2>6 DEF PlaysListed, TK!Speaks
  <2> QED
    BY <2>3, <2>4, <2>7 DEF TalkInv
<1> QED
  BY <1>3, <1>4 DEF TK!Seek, TK!Keeps

LEMMA OpenedKeeps ==
  ASSUME TalkInv, NEW p \in Pages, TK!Opened(p)
  PROVE  TalkInv'
<1> DEFINE n == opened + 1
           g == [page[p] EXCEPT !.phase = "feeds", !.holds = n]
<1>1. /\ page[p].phase = "opens" /\ opened' = n /\ talks' = [talks EXCEPT ![n] = TK!Fresh]
      /\ listed' = n /\ lock' = "nobody" /\ page' = [page EXCEPT ![p] = g] /\ opened < MaxTalks
  BY DEF TK!Opened
<1>2. n \in TK!Talks /\ n \in 1 .. n /\ n \in 0 .. MaxTalks /\ opened \in 0 .. MaxTalks
      /\ \A x \in 1 .. opened : x # n /\ x \in 1 .. n /\ x \in TK!Talks
  BY <1>1, TalksAre DEF TalkInv, TalkShape
<1>3. page[p] \in APage /\ page \in [Pages -> APage] /\ talks \in [TK!Talks -> ATalk]
  BY DEF TalkInv, TalkShape
<1>4. g \in APage /\ g.phase = "feeds"
  BY <1>2, <1>3 DEF APage
<1>5. TK!Fresh \in ATalk
  BY DEF TK!Fresh, TK!Unborn, ATalk
<1> HIDE DEF n, g
<1>6. /\ page' \in [Pages -> APage] /\ page'[p] = g
      /\ \A q \in Pages : q # p => page'[q] = page[q]
  BY <1>1, <1>3, <1>4
<1>7. /\ talks' \in [TK!Talks -> ATalk]
      /\ \A u \in TK!Talks : u # n => talks'[u] = talks[u]
  BY <1>1, <1>2, <1>3, <1>5
<1>8. \A q \in Pages : page[q].phase = "opens" => q = p
  BY <1>1 DEF TalkInv, OpensAlone
<1>9. TalkShape'
  BY <1>1, <1>2, <1>4, <1>6, <1>7 DEF TalkInv, TalkShape
<1>10. OpensAlone'
  BY <1>4, <1>6, <1>8 DEF OpensAlone
<1>11. \A u \in TK!Talks : u # n /\ TK!Closing(u) => TK!Closing(u)'
  BY <1>1, <1>6, <1>7 DEF TK!Closing
<1>12. \A u \in TK!Talks : talks[u].alive => TK!Closing(u)
  <2>1. listed = 0
    BY <1>1 DEF TalkInv, OpensAlone
  <2> QED
    BY <2>1, TalksAre DEF TalkInv, PlaysListed, TK!Speaks
<1>13. PlaysListed'
  BY <1>1, <1>7, <1>11, <1>12 DEF PlaysListed, TK!Speaks
<1> QED
  BY <1>9, <1>10, <1>13 DEF TalkInv

LEMMA FeedKeeps ==
  ASSUME TalkInv, NEW p \in Pages, TK!Feed(p)
  PROVE  TalkInv'
<1> DEFINE t == page[p].holds
<1>1. page[p].phase = "feeds" /\ UNCHANGED <<opened, listed, lock>>
  BY DEF TK!Feed
<1>2. page[p] \in APage /\ page \in [Pages -> APage] /\ talks \in [TK!Talks -> ATalk]
  BY DEF TalkInv, TalkShape
<1>3. TK!Away \in APage /\ TK!Away.phase = "away" /\ [phase |-> "seeks", holds |-> 0, turn |-> 2] \in APage
  BY TalksAre DEF TK!Away, APage
<1>4. PICK g \in APage : g.phase \in {"away", "seeks"} /\ page' = [page EXCEPT ![p] = g]
  <2>1. page' = [page EXCEPT ![p] = TK!Away]
        \/ page' = [page EXCEPT ![p] = [phase |-> "seeks", holds |-> 0, turn |-> 2]]
    BY DEF TK!Feed
  <2> QED
    BY <1>3, <2>1
<1>5. page' \in [Pages -> APage] /\ page'[p] = g /\ \A q \in Pages : q # p => page'[q] = page[q]
  BY <1>2, <1>4
<1>6. /\ talks' \in [TK!Talks -> ATalk]
      /\ \A u \in TK!Talks : talks'[u].alive = talks[u].alive /\ talks'[u].stop = talks[u].stop
  <2>1. CASE UNCHANGED talks
    BY <1>2, <2>1
  <2>2. ASSUME NEW n \in Pieces,
               talks' = [talks EXCEPT ![t].queue = TK!Capped(@ + n), ![t].quiet = 0]
        PROVE  /\ talks' \in [TK!Talks -> ATalk]
               /\ \A u \in TK!Talks : talks'[u].alive = talks[u].alive /\ talks'[u].stop = talks[u].stop
    <3>1. CASE t \in TK!Talks
      <4>1. talks[t] \in ATalk /\ n \in Nat
        BY <1>2, <3>1, TalksAre
      <4>2. TK!Capped(talks[t].queue + n) \in Nat
        BY <4>1, TalksAre DEF TK!Capped, ATalk
      <4>3. PICK z \in Nat : talks' = [talks EXCEPT ![t] = [talks[t] EXCEPT !.queue = z, !.quiet = 0]]
        BY <1>2, <2>2, <3>1, <4>2
      <4>4. [talks[t] EXCEPT !.queue = z, !.quiet = 0] \in ATalk
        BY <4>1 DEF ATalk
      <4> QED
        BY <1>2, <3>1, <4>1, <4>3, <4>4 DEF ATalk
    <3>2. CASE t \notin TK!Talks
      BY <1>2, <2>2, <3>2
    <3> QED
      BY <3>1, <3>2
  <2> QED
    BY <2>1, <2>2 DEF TK!Feed
<1>7. \A q \in Pages : page[q].phase \in {"stops", "joins"} => page[q].holds \in TK!Talks
  BY TalksAre DEF TalkInv, TalkShape
<1>8. TalkShape'
  BY <1>1, <1>4, <1>5, <1>6, <1>7 DEF TalkInv, TalkShape
<1>9. OpensAlone'
  BY <1>1, <1>4, <1>5 DEF TalkInv, OpensAlone
<1>10. \A u \in TK!Talks : TK!Closing(u) => TK!Closing(u)'
  BY <1>1, <1>5, <1>6 DEF TK!Closing
<1>11. PlaysListed'
  BY <1>1, <1>6, <1>10 DEF TalkInv, PlaysListed, TK!Speaks
<1> QED
  BY <1>8, <1>9, <1>11 DEF TalkInv

\* acao=fechar: the talk leaves the registry and is being closed from then on.
LEMMA RemoveKeeps ==
  ASSUME TalkInv, NEW p \in Pages, TK!Remove(p)
  PROVE  TalkInv'
<1> DEFINE g == [phase |-> "stops", holds |-> listed, turn |-> 0]
<1>1. /\ page[p].phase = "away" /\ lock = "nobody" /\ listed # 0 /\ page' = [page EXCEPT ![p] = g]
      /\ listed' = 0 /\ UNCHANGED <<talks, opened, lock>>
  BY DEF TK!Remove
<1>2. listed \in 1 .. opened /\ listed \in 0 .. MaxTalks /\ 0 \in 0 .. opened
  BY <1>1, TalksAre DEF TalkInv, TalkShape
<1>3. g \in APage /\ g.phase = "stops" /\ g.holds = listed
  BY <1>2 DEF APage
<1> HIDE DEF g
<1>4. page' \in [Pages -> APage] /\ page'[p] = g /\ \A q \in Pages : q # p => page'[q] = page[q]
  BY <1>1, <1>3 DEF TalkInv, TalkShape
<1>5. TalkShape'
  BY <1>1, <1>2, <1>3, <1>4 DEF TalkInv, TalkShape
<1>6. OpensAlone'
  BY <1>1, <1>3, <1>4 DEF TalkInv, OpensAlone
<1>7. \A u \in TK!Talks : TK!Closing(u) => TK!Closing(u)'
  BY <1>1, <1>4 DEF TK!Closing
<1>8. \A u \in TK!Talks : u = listed => TK!Closing(u)'
  BY <1>3, <1>4 DEF TK!Closing
<1>9. PlaysListed'
  BY <1>1, <1>7, <1>8 DEF TalkInv, PlaysListed, TK!Speaks
<1> QED
  BY <1>5, <1>6, <1>9 DEF TalkInv

LEMMA StopKeeps ==
  ASSUME TalkInv, NEW p \in Pages, TK!Stop(p)
  PROVE  TalkInv'
<1> DEFINE t == page[p].holds
           g == [page[p] EXCEPT !.phase = "joins"]
<1>1. /\ page[p].phase = "stops" /\ talks' = [talks EXCEPT ![t].stop = TRUE]
      /\ page' = [page EXCEPT ![p] = g] /\ UNCHANGED <<opened, listed, lock>>
  BY DEF TK!Stop
<1>2. page[p] \in APage /\ page \in [Pages -> APage] /\ talks \in [TK!Talks -> ATalk] /\ t \in TK!Talks
  BY <1>1, TalksAre DEF TalkInv, TalkShape
<1>3. g \in APage /\ g.phase = "joins" /\ g.holds = t
  BY <1>2 DEF APage
<1>4. /\ talks' \in [TK!Talks -> ATalk] /\ talks'[t].stop
      /\ \A u \in TK!Talks : talks'[u].alive = talks[u].alive /\ (talks[u].stop => talks'[u].stop)
  <2> DEFINE k == [talks[t] EXCEPT !.stop = TRUE]
  <2>1. talks[t] \in ATalk
    BY <1>2
  <2>2. k \in ATalk /\ k.stop /\ k.alive = talks[t].alive
    BY <2>1 DEF ATalk
  <2>3. talks' = [talks EXCEPT ![t] = k]
    BY <1>1, Zenon
  <2> HIDE DEF k, t
  <2>4. talks' \in [TK!Talks -> ATalk] /\ talks'[t] = k /\ \A u \in TK!Talks : u # t => talks'[u] = talks[u]
    BY <1>2, <2>2, <2>3
  <2> QED
    BY <2>2, <2>4
<1> HIDE DEF g
<1>5. page' \in [Pages -> APage] /\ page'[p] = g /\ \A q \in Pages : q # p => page'[q] = page[q]
  BY <1>1, <1>2, <1>3
<1>6. \A q \in Pages : page[q].phase \in {"stops", "joins"} => page[q].holds \in TK!Talks
  BY TalksAre DEF TalkInv, TalkShape
<1>7. TalkShape'
  <2> HIDE DEF t
  <2>1. t \in 1 .. opened
    BY <1>1 DEF TalkInv, TalkShape, t
  <2> QED
    BY <1>1, <1>3, <1>4, <1>5, <1>6, <2>1 DEF TalkInv, TalkShape
<1>8. OpensAlone'
  BY <1>1, <1>3, <1>5 DEF TalkInv, OpensAlone
<1>9. \A u \in TK!Talks : TK!Closing(u) => TK!Closing(u)'
  BY <1>1, <1>3, <1>4, <1>5 DEF TK!Closing
<1>10. PlaysListed'
  BY <1>1, <1>4, <1>9 DEF TalkInv, PlaysListed, TK!Speaks
<1> QED
  BY <1>7, <1>8, <1>10 DEF TalkInv

\* Who waited for the threads goes away; the talk stays told to stop.
LEMMA JoinKeeps ==
  ASSUME TalkInv, NEW p \in Pages, TK!Join(p)
  PROVE  TalkInv'
<1>1. /\ page[p].phase = "joins" /\ page' = [page EXCEPT ![p] = TK!Away]
      /\ UNCHANGED <<talks, opened, listed, lock>>
  BY DEF TK!Join
<1>2. TK!Away \in APage /\ TK!Away.phase = "away"
  BY TalksAre DEF TK!Away, APage
<1>3. page' \in [Pages -> APage] /\ page'[p] = TK!Away /\ \A q \in Pages : q # p => page'[q] = page[q]
  BY <1>1, <1>2 DEF TalkInv, TalkShape
<1>4. talks[page[p].holds].stop
  BY <1>1 DEF TalkInv, TalkShape
<1>5. TalkShape'
  BY <1>1, <1>2, <1>3 DEF TalkInv, TalkShape
<1>6. OpensAlone'
  BY <1>1, <1>2, <1>3 DEF TalkInv, OpensAlone
<1>7. \A u \in TK!Talks : TK!Closing(u) => TK!Closing(u)'
  BY <1>1, <1>3, <1>4 DEF TK!Closing
<1>8. PlaysListed'
  BY <1>1, <1>7 DEF TalkInv, PlaysListed, TK!Speaks
<1> QED
  BY <1>5, <1>6, <1>8 DEF TalkInv

LEMMA ThreadKeeps ==
  ASSUME TalkInv, NEW t \in TK!Talks, TK!Pace(t) \/ TK!ReaderEnd(t)
  PROVE  TalkInv'
<1>1. UNCHANGED <<opened, listed, lock, page>> /\ talks[t] \in ATalk
  BY DEF TK!Pace, TK!ReaderEnd, TalkInv, TalkShape
<1>2. PICK k \in ATalk : /\ talks' = [talks EXCEPT ![t] = k]
                         /\ k.alive => talks[t].alive
                         /\ talks[t].stop => k.stop
  <2> DEFINE e == [talks[t] EXCEPT !.alive = FALSE, !.up = FALSE]
             k == TK!Played(talks[t])
             s == [k EXCEPT !.alive = FALSE, !.stop = TRUE]
             r == [talks[t] EXCEPT !.alive = FALSE, !.stop = TRUE]
  <2>1. k \in ATalk /\ k.alive = talks[t].alive /\ k.stop = talks[t].stop
    BY <1>1, PlayedIsTalk
  <2>2. e \in ATalk /\ ~e.alive /\ e.stop = talks[t].stop
    BY <1>1 DEF ATalk
  <2>3. r \in ATalk /\ ~r.alive /\ r.stop
    BY <1>1 DEF ATalk
  <2> HIDE DEF k
  <2>4. s \in ATalk /\ ~s.alive /\ s.stop
    BY <2>1 DEF ATalk
  <2>5. CASE TK!Pace(t)
    <3>1. \/ talks' = [talks EXCEPT ![t] = e]
          \/ talks' = [talks EXCEPT ![t] = s]
          \/ talks' = [talks EXCEPT ![t] = k]
      BY <2>5 DEF TK!Pace, k
    <3> HIDE DEF e, s
    <3> QED
      BY <2>1, <2>2, <2>4, <3>1
  <2>6. CASE TK!ReaderEnd(t)
    <3>1. talks' = [talks EXCEPT ![t] = r]
      BY <2>6 DEF TK!ReaderEnd
    <3> HIDE DEF r
    <3> QED
      BY <2>3, <3>1
  <2> QED
    BY <2>5, <2>6
<1> QED
  BY <1>1, <1>2, OneTalkKeeps

(* However the requests to speak and to stop interleave, and whoever ends a *)
(* talk: at most one plays on the camera besides those that are being       *)
(* closed, since who opens one keeps the registry's lock meanwhile and the  *)
(* only talk that plays is the registry's (FalaRegistry, ptz_fala,          *)
(* DvripTalk).                                                              *)
THEOREM OneTalkPlays == Spec => []TK!OneVoice
<1>1. Init => TalkInv
  <2> SUFFICES ASSUME TK!TalkInit PROVE TalkInv
    BY DEF Init
  <2>1. TK!Unborn \in ATalk /\ ~TK!Unborn.alive
    BY DEF TK!Unborn, ATalk
  <2>2. TK!Away \in APage /\ TK!Away.phase = "away"
    BY TalksAre DEF TK!Away, APage
  <2> QED
    BY <2>1, <2>2, TalksAre DEF TK!TalkInit, TalkInv, TalkShape, OpensAlone, PlaysListed, TK!Speaks
<1>2. TalkInv /\ [Next]_vars => TalkInv'
  <2> SUFFICES ASSUME TalkInv, [Next]_vars PROVE TalkInv'
    OBVIOUS
  <2>1. CASE talkVars' = talkVars
    BY <2>1 DEF talkVars, TalkInv, TalkShape, OpensAlone, PlaysListed, TK!Speaks, TK!Closing
  <2>2. ASSUME NEW p \in Pages, TK!Post(p)
        PROVE  TalkInv'
    <3> DEFINE g == [phase |-> "seeks", holds |-> 0, turn |-> 1]
    <3>1. g \in APage /\ g.phase = "seeks"
      BY TalksAre DEF APage
    <3>2. /\ page[p].phase = "away" /\ page' = [page EXCEPT ![p] = g]
          /\ UNCHANGED <<talks, opened, listed, lock>>
      BY <2>2 DEF TK!Post
    <3> HIDE DEF g
    <3> QED
      BY <3>1, <3>2, OnePageKeeps
  <2>3. ASSUME NEW p \in Pages, TK!Refused(p)
        PROVE  TalkInv'
    <3>1. TK!Away \in APage /\ TK!Away.phase = "away"
      BY TalksAre DEF TK!Away, APage
    <3>2. /\ page[p].phase = "opens" /\ page' = [page EXCEPT ![p] = TK!Away]
          /\ UNCHANGED <<talks, opened, listed>>
      BY <2>3 DEF TK!Refused
    <3> QED
      BY <3>1, <3>2, OnePageKeeps
  <2>4. CASE TKStep
    BY <2>4, <2>2, <2>3, SeekKeeps, OpenedKeeps, FeedKeeps, RemoveKeeps, StopKeeps, JoinKeeps,
       ThreadKeeps DEF TKStep, TK!TalkNext
  <2> QED
    BY <2>1, <2>4 DEF Next, vars, RCStep, PTStep, PDStep, WIStep
<1>3. TalkInv => TK!OneVoice
  BY DEF TalkInv, PlaysListed, TK!Speaks, TK!OneVoice
<1> QED
  BY <1>1, <1>2, <1>3, PTL DEF Spec

=============================================================================
