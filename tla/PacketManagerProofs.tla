------------------------- MODULE PacketManagerProofs --------------------------
(***************************************************************************)
(* Proofs about PacketManager: its inductive invariant, the safety         *)
(* properties that follow from it, and that it implements PacketChannel,   *)
(* for any packets, sessions and bounds.                                   *)
(*                                                                         *)
(* The invariant has an inward part (what is under way completes what the  *)
(* client has decoded) and an outward part (what the server keeps is the   *)
(* packet that the user's thread is in the middle of); a step disturbs at  *)
(* most one of the two, but for the start and the end of a session.        *)
(***************************************************************************)
EXTENDS PacketCodecProofs

-----------------------------------------------------------------------------
(* Sequences.                                                              *)

(* A prefix by its elements.                                               *)
LEMMA PrefixIs ==
  ASSUME NEW s, IsSequence(s), NEW t, IsSequence(t), Len(s) <= Len(t),
         \A i \in 1..Len(s) : t[i] = s[i]
  PROVE  IsPrefix(s, t)
<1>1. s \in Seq({s[i] : i \in DOMAIN s}) /\ t \in Seq({t[i] : i \in DOMAIN t})
  BY DEF IsSequence
<1>2. Len(s) \in Nat /\ Len(t) \in Nat
  BY <1>1
<1>3. SubSeq(s, 1, Len(s)) = [i \in 1..Len(s) |-> s[i]]
  BY <1>1, <1>2
<1>4. SubSeq(t, 1, Len(s)) = [i \in 1..Len(s) |-> t[i]]
  BY <1>1, <1>2
<1>5. [i \in 1..Len(s) |-> s[i]] = [i \in 1..Len(s) |-> t[i]]
  OBVIOUS
<1> QED BY <1>3, <1>4, <1>5 DEF IsPrefix

(* t is s with e at its end; s is t with e at its front.                   *)
Extends(t, s, e) ==
  /\ IsSequence(t) /\ Len(s) \in Nat /\ Len(t) = Len(s) + 1
  /\ DOMAIN s = 1..Len(s) /\ DOMAIN t = 1..Len(s) + 1
  /\ \A i \in 1..Len(s) : t[i] = s[i]
  /\ t[Len(s) + 1] = e
Follow(t, s, e) ==
  /\ IsSequence(t) /\ Len(t) \in Nat /\ Len(s) = Len(t) + 1
  /\ DOMAIN t = 1..Len(t) /\ DOMAIN s = 1..Len(t) + 1
  /\ \A i \in 1..Len(t) : t[i] = s[i + 1]
  /\ s[1] = e

(* Append, by its elements.                                                *)
LEMMA AppendIs ==
  ASSUME NEW s, IsSequence(s), NEW e
  PROVE  Extends(Append(s, e), s, e)
<1> DEFINE t == Append(s, e)
<1>1. IsSequence(t) /\ Len(t) = Len(s) + 1 /\ t[Len(s) + 1] = e
  BY SequenceAppend
<1>2. \A i \in 1..Len(s) : t[i] = s[i]
  BY SequenceAppend
<1> HIDE DEF t
<1>3. Len(s) \in Nat /\ DOMAIN s = 1..Len(s) /\ DOMAIN t = 1..Len(t)
  BY <1>1, SequenceShape
<1>4. Extends(t, s, e)
  BY <1>1, <1>2, <1>3 DEF Extends
<1> QED BY <1>4 DEF t

(* A head and a tail, by their elements.                                   *)
LEMMA TailIs ==
  ASSUME NEW s, IsSequence(s), s # <<>>
  PROVE  Follow(Tail(s), s, Head(s))
<1> DEFINE t == Tail(s)
<1>1. IsSequence(t) /\ Head(s) = s[1] /\ Len(t) = Len(s) - 1
  BY SequenceTail
<1>2. \A i \in 1..Len(s) - 1 : t[i] = s[i + 1]
  BY SequenceTail
<1> HIDE DEF t
<1>3. /\ Len(s) \in Nat /\ DOMAIN s = 1..Len(s)
      /\ Len(t) \in Nat /\ DOMAIN t = 1..Len(t)
  BY <1>1, SequenceShape
<1>4. Follow(t, s, Head(s))
  BY <1>1, <1>2, <1>3 DEF Follow
<1> QED BY <1>4 DEF t

(* The packets of a sequence as they are decoded.                          *)
AsDecoded(s) == [i \in DOMAIN s |-> Accepted(s[i])]

(* What the listeners should get of a sequence of packets.                 *)
LEMMA AsDecodedIs ==
  ASSUME NEW s, IsSequence(s)
  PROVE  IsSequence(AsDecoded(s)) /\ AsDecoded(<<>>) = <<>>
<1>1. DOMAIN s = 1..Len(s) /\ Len(s) \in Nat
  BY SequenceShape
<1>2. AsDecoded(s) \in Seq({Accepted(s[i]) : i \in DOMAIN s})
  BY <1>1 DEF AsDecoded
<1>3. AsDecoded(<<>>) = <<>>
  BY DEF AsDecoded
<1> QED BY <1>2, <1>3, SequenceOf

(* The same, with a packet more.                                           *)
LEMMA AsDecodedAppend ==
  ASSUME NEW s, IsSequence(s), NEW p
  PROVE  AsDecoded(Append(s, p)) = AsDecoded(s) \o <<Accepted(p)>>
<1> DEFINE u == Append(s, p)
           d == AsDecoded(s)
           e == Append(d, Accepted(p))
<1>1. Extends(u, s, p)
  BY AppendIs
<1>2. IsSequence(d)
  BY AsDecodedIs
<1>3. Extends(e, d, Accepted(p))
  BY <1>2, AppendIs
<1>4. e = d \o <<Accepted(p)>>
  BY <1>2, SequenceAppend
<1> HIDE DEF u, d, e
<1>5. DOMAIN s = 1..Len(s) /\ Len(s) \in Nat /\ DOMAIN u = 1..Len(s) + 1
  BY <1>1 DEF Extends
<1>6. DOMAIN d = 1..Len(s) /\ \A i \in 1..Len(s) : d[i] = Accepted(s[i])
  BY <1>5 DEF AsDecoded, d
<1>7. Len(d) = Len(s)
  <2>1. DOMAIN d = 1..Len(d) /\ Len(d) \in Nat
    BY <1>3 DEF Extends
  <2> QED BY <1>5, <1>6, <2>1
<1>8. IsSequence(e) /\ Len(e) = Len(s) + 1
  BY <1>3, <1>7 DEF Extends
<1>9. e = [i \in 1..Len(s) + 1 |-> e[i]]
  BY <1>8, SequenceShape
<1>10. \A i \in 1..Len(s) + 1 : e[i] = Accepted(u[i])
  <2>1. SUFFICES ASSUME NEW i \in 1..Len(s) + 1 PROVE e[i] = Accepted(u[i])
    OBVIOUS
  <2>2. CASE i = Len(s) + 1
    BY <1>1, <1>3, <1>7, <2>2 DEF Extends
  <2>3. CASE i \in 1..Len(s)
    BY <1>1, <1>3, <1>6, <1>7, <2>3 DEF Extends
  <2> QED BY <1>5, <2>1, <2>2, <2>3
<1>11. AsDecoded(u) = [i \in 1..Len(s) + 1 |-> Accepted(u[i])]
  BY <1>5 DEF AsDecoded
<1>12. e = AsDecoded(u)
  BY <1>9, <1>10, <1>11
<1> QED BY <1>4, <1>12 DEF u, d

-----------------------------------------------------------------------------
(* Inwards.                                                                *)

Client == [partial |-> m_partial_packet, got |-> decoded]
InwardInv ==
  /\ AreSent /\ InwardKept
  /\ m_partial_packet # NoPartial => Waits(m_partial_packet)

(* The inward part of the invariant holds at the start.                    *)
LEMMA InwardInit ==
  ASSUME Init
  PROVE  InwardInv
<1>1. IsSequence(<<>>) /\ Len(<<>>) = 0
  BY SequenceEmpty
<1>2. IsPrefix(<<>>, SentAsDecoded)
  BY DEF Init, SentAsDecoded, IsPrefix
<1> QED BY <1>1, <1>2 DEF Init, InwardInv, AreSent, InwardKept, Underway, NoPartial

(* The start of a session.                                                 *)
LEMMA InwardOpen ==
  ASSUME InwardInv, Open
  PROVE  InwardInv'
<1>1. /\ opened' /\ m_partial_packet' = <<>> /\ decoded' = <<>>
      /\ sent' = <<>> /\ net' = <<>> /\ sending' = <<>>
  BY DEF InwardInv, InwardKept, Open, NoPartial
<1>2. IsSequence(<<>>) /\ Len(<<>>) = 0
  BY SequenceEmpty
<1>3. Underway' = <<>>
  BY <1>1 DEF Underway
<1>4. SentAsDecoded' = <<>>
  BY <1>1 DEF SentAsDecoded
<1>5. Read(Client', <<>>) = Client'
  BY ReadSome, Zenon
<1>6. Client' = [partial |-> NoPartial, got |-> <<>>]
  BY <1>1 DEF Client, NoPartial
<1>7. AreSent'
  BY <1>1, <1>2 DEF AreSent
<1>8. InwardKept'
  <2>1. IsSequence(net') /\ IsSequence(sending') /\ IsSequence(decoded')
    BY <1>1, <1>2
  <2>2. \A frames \in {net', sending'} : \A i \in DOMAIN frames : FALSE
    BY <1>1
  <2>3. Read(Client', Underway') = [partial |-> NoPartial, got |-> SentAsDecoded']
    BY <1>3, <1>4, <1>5, <1>6
  <2> QED BY <1>1, <2>1, <2>2, <2>3 DEF InwardKept, Client
<1> QED BY <1>1, <1>7, <1>8 DEF InwardInv, NoPartial

(* While a session is open.                                                *)
LEMMA InwardOpened ==
  ASSUME InwardInv
  PROVE  /\ IsSequence(net) /\ IsSequence(sending) /\ IsSequence(decoded)
         /\ IsSequence(sent) /\ IsSequence(SentAsDecoded)
         /\ SentAsDecoded = AsDecoded(sent)
         /\ Client.partial = m_partial_packet /\ Client.got = decoded
         /\ IsReader(Client)
         /\ opened => Read(Read(Client, net), sending) =
                        [partial |-> NoPartial, got |-> SentAsDecoded]
<1>1. IsSequence(net) /\ IsSequence(sending) /\ IsSequence(decoded)
  BY DEF InwardInv, InwardKept
<1>2. IsSequence(sent)
  BY DEF InwardInv, AreSent
<1>3. SentAsDecoded = AsDecoded(sent)
  BY DEF SentAsDecoded, AsDecoded
<1>4. IsSequence(SentAsDecoded)
  BY <1>2, <1>3, AsDecodedIs
<1>5. Client.partial = m_partial_packet /\ Client.got = decoded /\ IsReader(Client)
  BY <1>1 DEF Client, IsReader
<1>6. Read(Client, net \o sending) = Read(Read(Client, net), sending)
  BY <1>1, ReadJoin
<1>7. opened => Read(Client, Underway) = [partial |-> NoPartial, got |-> SentAsDecoded]
  BY DEF InwardInv, InwardKept, Client
<1>8. opened => Read(Read(Client, net), sending) =
                  [partial |-> NoPartial, got |-> SentAsDecoded]
  BY <1>6, <1>7 DEF Underway
<1> QED BY <1>1, <1>2, <1>3, <1>4, <1>5, <1>8, Zenon

(* What was decoded is a beginning of what was sent, and all of it when    *)
(* nothing is under way.                                                   *)
LEMMA DecodedKept ==
  ASSUME InwardInv, opened \in BOOLEAN
  PROVE  DecodedIsSent
<1>1. CASE ~opened
  <2>1. sent = <<>> /\ decoded = <<>> /\ IsSequence(<<>>) /\ Len(<<>>) = 0
    BY <1>1, SequenceEmpty DEF InwardInv, InwardKept
  <2>2. SentAsDecoded = <<>>
    BY <2>1 DEF SentAsDecoded
  <2>3. IsPrefix(<<>>, <<>>)
    BY <2>1, PrefixIs
  <2> QED BY <1>1, <2>1, <2>2, <2>3 DEF DecodedIsSent
<1>2. CASE opened
  <2> DEFINE now == Read(Client, net)
             end == Read(now, sending)
  <2>1. /\ IsSequence(net) /\ IsSequence(sending) /\ IsSequence(decoded)
        /\ IsSequence(SentAsDecoded) /\ IsReader(Client) /\ Client.got = decoded
    BY InwardOpened
  <2>2. end.got = SentAsDecoded
    BY <1>2, InwardOpened
  <2>3. /\ IsReader(now) /\ Len(decoded) <= Len(now.got)
        /\ \A i \in 1..Len(decoded) : now.got[i] = decoded[i]
    BY <2>1, ReadGrows
  <2>4. IsSequence(now.got)
    BY <2>3 DEF IsReader
  <2>5. /\ Len(now.got) <= Len(end.got)
        /\ \A i \in 1..Len(now.got) : end.got[i] = now.got[i]
    BY <2>1, <2>3, ReadGrows
  <2>6. net = <<>> => now = Client
    BY ReadSome, Zenon
  <2>7. sending = <<>> => end = now
    BY ReadSome, Zenon
  <2>8. net = <<>> /\ sending = <<>> => decoded = SentAsDecoded
    <3>1. SUFFICES ASSUME net = <<>>, sending = <<>> PROVE decoded = SentAsDecoded
      OBVIOUS
    <3>2. end = Client
      BY <2>6, <2>7, <3>1, Zenon
    <3> HIDE DEF end
    <3> QED BY <2>1, <2>2, <3>2
  <2> HIDE DEF now, end
  <2>9. Len(decoded) \in Nat /\ Len(now.got) \in Nat /\ Len(SentAsDecoded) \in Nat
    BY <2>1, <2>4, SequenceShape
  <2>10. /\ Len(decoded) <= Len(SentAsDecoded)
         /\ \A i \in 1..Len(decoded) : SentAsDecoded[i] = decoded[i]
    BY <2>2, <2>3, <2>5, <2>9
  <2>11. IsPrefix(decoded, SentAsDecoded)
    BY <2>1, <2>10, PrefixIs
  <2> QED BY <2>8, <2>11 DEF DecodedIsSent
<1> QED BY <1>1, <1>2

(* The end of a session: nothing is under way.                             *)
LEMMA InwardClose ==
  ASSUME InwardInv, Close
  PROVE  InwardInv'
<1>1. /\ ~opened' /\ net' = <<>> /\ sending' = <<>> /\ sent' = <<>>
      /\ decoded' = <<>> /\ m_partial_packet' = m_partial_packet
  BY DEF Close
<1>2. IsSequence(<<>>) /\ Len(<<>>) = 0
  BY SequenceEmpty
<1>3. AreSent'
  BY <1>1, <1>2 DEF AreSent
<1>4. InwardKept'
  <2>1. IsSequence(net') /\ IsSequence(sending') /\ IsSequence(decoded')
    BY <1>1, <1>2
  <2>2. \A frames \in {net', sending'} : \A i \in DOMAIN frames : FALSE
    BY <1>1
  <2> QED BY <1>1, <2>1, <2>2 DEF InwardKept
<1> QED BY <1>1, <1>3, <1>4 DEF InwardInv

IsFrameOf(frame, packets) ==
  frame = Pong \/ \E n \in DOMAIN packets : frame \in Range(Accept(packets[n]))

(* A step within a session, from what it does to the frames.               *)
LEMMA InwardStep ==
  ASSUME opened' \in BOOLEAN, opened',
         AreSent', IsSequence(net'), IsSequence(sending'), IsSequence(decoded'),
         \A i \in DOMAIN net' : IsFrameOf(net'[i], sent'),
         \A i \in DOMAIN sending' : IsFrameOf(sending'[i], sent'),
         m_partial_packet' = NoPartial \/ Waits(m_partial_packet'),
         Read(Read(Client', net'), sending') =
           [partial |-> NoPartial, got |-> SentAsDecoded']
  PROVE  InwardInv'
<1>1. Read(Client', net' \o sending') = Read(Read(Client', net'), sending')
  BY ReadJoin
<1>2. Read(Client', Underway') = [partial |-> NoPartial, got |-> SentAsDecoded']
  BY <1>1 DEF Underway
<1>3. \A frames \in {net', sending'} :
        IsSequence(frames) /\ \A i \in DOMAIN frames : IsSentFrame(frames[i])'
  BY DEF IsSentFrame, IsFrameOf
<1>4. InwardKept'
  BY <1>2, <1>3 DEF InwardKept, Client
<1> QED BY <1>4 DEF InwardInv

(* The server starts a packet, when it has sent the last one.              *)
LEMMA InwardServerEncodes ==
  ASSUME InwardInv, opened \in BOOLEAN, ServerEncodes
  PROVE  InwardInv'
<1>1. /\ opened /\ opened' = opened /\ sending = <<>>
      /\ m_partial_packet' = m_partial_packet /\ net' = net /\ decoded' = decoded
  BY DEF ServerEncodes
<1>2. PICK shape \in Inward :
        /\ sending' = Accept(Numbered(shape, Len(sent) + 1))
        /\ sent' = Append(sent, Numbered(shape, Len(sent) + 1))
  BY DEF ServerEncodes
<1> DEFINE p == Numbered(shape, Len(sent) + 1)
           now == Read(Client, net)
<1>3. /\ IsSequence(net) /\ IsSequence(sending) /\ IsSequence(decoded)
      /\ IsSequence(sent) /\ IsSequence(SentAsDecoded)
      /\ SentAsDecoded = AsDecoded(sent) /\ IsReader(Client)
  BY InwardOpened
<1>4. now = [partial |-> NoPartial, got |-> SentAsDecoded]
  <2>1. Read(now, sending) = [partial |-> NoPartial, got |-> SentAsDecoded]
    BY <1>1, InwardOpened
  <2>2. Read(now, <<>>) = now
    BY ReadSome, Zenon
  <2> QED BY <1>1, <2>1, <2>2
<1>5. IsPacket(p)
  BY PacketShapes, NumberedIsPacket, Zenon
<1>6. IsReader(now) /\ now.partial = NoPartial /\ now.got = SentAsDecoded
  BY <1>3, <1>4 DEF IsReader
<1> HIDE DEF p, now
<1>7. Read(now, Accept(p)) =
        [partial |-> NoPartial, got |-> SentAsDecoded \o <<Accepted(p)>>]
  <2>1. Read(now, Accept(p)) =
          [partial |-> IF Parts(p) = 1 THEN now.partial ELSE NoPartial,
           got |-> now.got \o <<Accepted(p)>>]
    BY <1>5, <1>6, ReadsPacket
  <2> QED BY <1>6, <2>1
<1>8. SentAsDecoded' = SentAsDecoded \o <<Accepted(p)>>
  <2>1. SentAsDecoded' = AsDecoded(sent')
    BY DEF SentAsDecoded, AsDecoded
  <2>2. AsDecoded(Append(sent, p)) = AsDecoded(sent) \o <<Accepted(p)>>
    BY <1>3, AsDecodedAppend
  <2> QED BY <1>2, <1>3, <2>1, <2>2 DEF p
<1>9. Client' = Client
  BY <1>1 DEF Client
<1>10. Read(Read(Client', net'), sending') =
         [partial |-> NoPartial, got |-> SentAsDecoded']
  BY <1>1, <1>2, <1>7, <1>8, <1>9 DEF p, now
<1>11. sent' = Append(sent, p) /\ sending' = Accept(p)
  BY <1>2 DEF p
<1>12. IsSequence(sending')
  BY <1>5, <1>11, AcceptShape
<1>13. /\ IsSequence(sent') /\ Len(sent') = Len(sent) + 1 /\ Len(sent) \in Nat
       /\ DOMAIN sent = 1..Len(sent) /\ DOMAIN sent' = 1..Len(sent) + 1
       /\ \A n \in 1..Len(sent) : sent'[n] = sent[n]
       /\ sent'[Len(sent) + 1] = p
  <2>1. /\ IsSequence(sent') /\ Len(sent') = Len(sent) + 1
        /\ \A n \in 1..Len(sent) : sent'[n] = sent[n]
        /\ sent'[Len(sent) + 1] = p
    BY <1>3, <1>11, SequenceAppend
  <2>2. Len(sent) \in Nat /\ DOMAIN sent = 1..Len(sent)
    BY <1>3, SequenceShape
  <2>3. DOMAIN sent' = 1..Len(sent')
    BY <2>1, SequenceShape
  <2> QED BY <2>1, <2>2, <2>3
<1>14. AreSent'
  <2>1. SUFFICES ASSUME NEW n \in 1..Len(sent) + 1
                 PROVE  \E s \in Inward : sent'[n] = Numbered(s, n)
    BY <1>13 DEF AreSent
  <2>2. CASE n = Len(sent) + 1
    BY <1>13, <2>2 DEF p
  <2>3. CASE n \in 1..Len(sent)
    BY <1>13, <2>3 DEF InwardInv, AreSent
  <2> QED BY <1>13, <2>1, <2>2, <2>3
<1>15. \A i \in DOMAIN net' : IsFrameOf(net'[i], sent')
  <2>1. SUFFICES ASSUME NEW i \in DOMAIN net PROVE IsFrameOf(net[i], sent')
    BY <1>1
  <2>2. IsSentFrame(net[i])
    BY DEF InwardInv, InwardKept
  <2> QED BY <1>13, <2>2 DEF IsSentFrame, IsFrameOf
<1>16. \A i \in DOMAIN sending' : IsFrameOf(sending'[i], sent')
  <2>1. SUFFICES ASSUME NEW i \in DOMAIN Accept(p)
                 PROVE  IsFrameOf(Accept(p)[i], sent')
    BY <1>11
  <2>2. Accept(p)[i] \in Range(Accept(p))
    BY DEF Range
  <2>3. Len(sent) + 1 \in DOMAIN sent' /\ sent'[Len(sent) + 1] = p
    BY <1>13
  <2> QED BY <2>2, <2>3 DEF IsFrameOf
<1>17. m_partial_packet' = NoPartial \/ Waits(m_partial_packet')
  BY <1>1 DEF InwardInv
<1>18. IsSequence(net') /\ IsSequence(decoded') /\ opened' /\ opened' \in BOOLEAN
  BY <1>1, <1>3
<1> QED BY <1>10, <1>12, <1>14, <1>15, <1>16, <1>17, <1>18, InwardStep

(* Its next frame is sent.                                                 *)
LEMMA InwardServerSends ==
  ASSUME InwardInv, opened \in BOOLEAN, ServerSends
  PROVE  InwardInv'
<1>1. /\ sending # <<>> /\ opened' = opened /\ sent' = sent
      /\ sending' = Tail(sending) /\ net' = Append(net, Head(sending))
      /\ m_partial_packet' = m_partial_packet /\ decoded' = decoded
  BY DEF ServerSends
<1>2. /\ IsSequence(net) /\ IsSequence(sending) /\ IsSequence(decoded)
      /\ IsSequence(sent) /\ IsReader(Client)
  BY InwardOpened
<1>3. opened
  <2>1. ~opened => net \o sending = <<>>
    BY DEF InwardInv, InwardKept, Underway
  <2>2. Len(net \o sending) = Len(net) + Len(sending) /\ Len(net) \in Nat
    BY <1>2, SequenceJoin, SequenceShape
  <2>3. Len(sending) \in Nat /\ Len(Tail(sending)) = Len(sending) - 1
    BY <1>1, <1>2, SequenceTail, SequenceShape
  <2>4. Len(Tail(sending)) \in Nat
    BY <1>1, <1>2, SequenceTail, SequenceShape
  <2>5. Len(<<>>) = 0
    BY SequenceEmpty
  <2> QED BY <2>1, <2>2, <2>3, <2>4, <2>5
<1> DEFINE frame == Head(sending)
           now == Read(Client, net)
<1>4. Client' = Client
  BY <1>1 DEF Client
<1>5. Read(Client, Append(net, frame)) = ReadFrame(now, frame)
  BY <1>2, ReadLast
<1>6. Read(now, sending) = Read(ReadFrame(now, frame), Tail(sending))
  BY <1>1, <1>2, ReadTail
<1>7. Read(now, sending) = [partial |-> NoPartial, got |-> SentAsDecoded]
  BY <1>3, InwardOpened
<1>8. SentAsDecoded' = SentAsDecoded
  BY <1>1 DEF SentAsDecoded
<1>9. Read(Read(Client', net'), sending') =
        [partial |-> NoPartial, got |-> SentAsDecoded']
  BY <1>1, <1>4, <1>5, <1>6, <1>7, <1>8
<1> HIDE DEF frame, now
<1>10. Follow(sending', sending, frame)
  BY <1>1, <1>2, TailIs DEF frame
<1>11. Extends(net', net, frame)
  BY <1>1, <1>2, AppendIs DEF frame
<1>12. /\ DOMAIN sending = 1..Len(sending) /\ Len(sending) \in Nat
       /\ DOMAIN net = 1..Len(net) /\ Len(net) \in Nat
  BY <1>2, SequenceShape
<1>13. /\ \A i \in 1..Len(net) : IsFrameOf(net[i], sent)
       /\ \A i \in 1..Len(sending) : IsFrameOf(sending[i], sent)
  BY <1>12 DEF InwardInv, InwardKept, IsSentFrame, IsFrameOf
<1>14. \A i \in DOMAIN net' : IsFrameOf(net'[i], sent')
  <2>1. SUFFICES ASSUME NEW i \in 1..Len(net) + 1
                 PROVE  IsFrameOf(net'[i], sent)
    BY <1>1, <1>11 DEF Extends
  <2>2. IsFrameOf(frame, sent)
    BY <1>10, <1>12, <1>13 DEF Follow
  <2>3. CASE i = Len(net) + 1
    BY <1>11, <2>2, <2>3 DEF Extends
  <2>4. CASE i \in 1..Len(net)
    BY <1>11, <1>13, <2>4 DEF Extends
  <2> QED BY <1>12, <2>1, <2>3, <2>4
<1>15. \A i \in DOMAIN sending' : IsFrameOf(sending'[i], sent')
  BY <1>1, <1>10, <1>12, <1>13 DEF Follow
<1>16. AreSent'
  BY <1>1 DEF InwardInv, AreSent
<1>17. m_partial_packet' = NoPartial \/ Waits(m_partial_packet')
  BY <1>1 DEF InwardInv
<1>18. /\ IsSequence(net') /\ IsSequence(sending') /\ IsSequence(decoded')
       /\ opened' /\ opened' \in BOOLEAN
  BY <1>1, <1>2, <1>3, <1>10, <1>11 DEF Follow, Extends
<1> QED BY <1>9, <1>14, <1>15, <1>16, <1>17, <1>18, InwardStep

(* A pong between the frames changes nothing of what is decoded.           *)
LEMMA InwardServerPongs ==
  ASSUME InwardInv, opened \in BOOLEAN, ServerPongs
  PROVE  InwardInv'
<1>1. /\ opened /\ opened' = opened /\ sent' = sent /\ sending' = sending
      /\ net' = Append(net, Pong)
      /\ m_partial_packet' = m_partial_packet /\ decoded' = decoded
  BY DEF ServerPongs
<1>2. /\ IsSequence(net) /\ IsSequence(sending) /\ IsSequence(decoded)
      /\ IsSequence(sent) /\ IsReader(Client)
  BY InwardOpened
<1> DEFINE now == Read(Client, net)
<1>3. Client' = Client /\ SentAsDecoded' = SentAsDecoded
  BY <1>1 DEF Client, SentAsDecoded
<1>4. Read(Client, Append(net, Pong)) = ReadFrame(now, Pong)
  BY <1>2, ReadLast
<1>5. IsReader(now)
  BY <1>2, ReadGrows
<1> HIDE DEF now
<1>6. ReadFrame(now, Pong) = now
  BY <1>5, ReadPong
<1>7. Read(now, sending) = [partial |-> NoPartial, got |-> SentAsDecoded]
  BY <1>1, InwardOpened DEF now
<1>8. Read(Read(Client', net'), sending') =
        [partial |-> NoPartial, got |-> SentAsDecoded']
  BY <1>1, <1>3, <1>4, <1>6, <1>7
<1>9. Extends(net', net, Pong)
  BY <1>1, <1>2, AppendIs
<1>10. DOMAIN net = 1..Len(net) /\ Len(net) \in Nat
  BY <1>2, SequenceShape
<1>11. /\ \A i \in 1..Len(net) : IsFrameOf(net[i], sent)
       /\ \A i \in DOMAIN sending : IsFrameOf(sending[i], sent)
  BY <1>10 DEF InwardInv, InwardKept, IsSentFrame, IsFrameOf
<1>12. \A i \in DOMAIN net' : IsFrameOf(net'[i], sent')
  <2>1. SUFFICES ASSUME NEW i \in 1..Len(net) + 1
                 PROVE  IsFrameOf(net'[i], sent)
    BY <1>1, <1>9 DEF Extends
  <2>2. CASE i = Len(net) + 1
    BY <1>9, <2>2 DEF IsFrameOf, Extends
  <2>3. CASE i \in 1..Len(net)
    BY <1>9, <1>11, <2>3 DEF Extends
  <2> QED BY <1>10, <2>1, <2>2, <2>3
<1>13. \A i \in DOMAIN sending' : IsFrameOf(sending'[i], sent')
  BY <1>1, <1>11
<1>14. AreSent'
  BY <1>1 DEF InwardInv, AreSent
<1>15. m_partial_packet' = NoPartial \/ Waits(m_partial_packet')
  BY <1>1 DEF InwardInv
<1>16. /\ IsSequence(net') /\ IsSequence(sending') /\ IsSequence(decoded')
       /\ opened' /\ opened' \in BOOLEAN
  BY <1>1, <1>2, <1>9 DEF Extends
<1> QED BY <1>8, <1>12, <1>13, <1>14, <1>15, <1>16, InwardStep

(* The client reads a frame.                                               *)
LEMMA InwardOnMessage ==
  ASSUME InwardInv, opened \in BOOLEAN, OnMessage
  PROVE  InwardInv'
<1>1. /\ net # <<>> /\ net' = Tail(net)
      /\ opened' = opened /\ sent' = sent /\ sending' = sending
      /\ m_partial_packet' = PutPayload(m_partial_packet, Head(net)).partial
      /\ decoded' = decoded \o PutPayload(m_partial_packet, Head(net)).decoded
  BY DEF OnMessage
<1>2. /\ IsSequence(net) /\ IsSequence(sending) /\ IsSequence(decoded)
      /\ IsSequence(sent) /\ IsReader(Client)
      /\ Client.partial = m_partial_packet /\ Client.got = decoded
  BY InwardOpened
<1>3. opened
  <2>1. ~opened => net \o sending = <<>>
    BY DEF InwardInv, InwardKept, Underway
  <2>2. Len(net \o sending) = Len(net) + Len(sending) /\ Len(sending) \in Nat
    BY <1>2, SequenceJoin, SequenceShape
  <2>3. Len(net) \in Nat /\ Len(Tail(net)) = Len(net) - 1
    BY <1>1, <1>2, SequenceTail, SequenceShape
  <2>4. Len(Tail(net)) \in Nat
    BY <1>1, <1>2, SequenceTail, SequenceShape
  <2>5. Len(<<>>) = 0
    BY SequenceEmpty
  <2> QED BY <2>1, <2>2, <2>3, <2>4, <2>5
<1> DEFINE frame == Head(net)
<1>4. Client' = ReadFrame(Client, frame)
  <2>1. Client' = [partial |-> m_partial_packet', got |-> decoded']
    BY DEF Client
  <2>2. ReadFrame(Client, frame) =
          [partial |-> PutPayload(m_partial_packet, frame).partial,
           got |-> decoded \o PutPayload(m_partial_packet, frame).decoded]
    BY <1>2 DEF ReadFrame
  <2> QED BY <1>1, <2>1, <2>2
<1> HIDE DEF frame
<1>5. Read(Client, net) = Read(ReadFrame(Client, frame), Tail(net))
  BY <1>1, <1>2, ReadTail DEF frame
<1>6. Read(Read(Client, net), sending) =
        [partial |-> NoPartial, got |-> SentAsDecoded]
  BY <1>3, InwardOpened
<1>7. SentAsDecoded' = SentAsDecoded
  BY <1>1 DEF SentAsDecoded
<1>8. Read(Read(Client', net'), sending') =
        [partial |-> NoPartial, got |-> SentAsDecoded']
  BY <1>1, <1>4, <1>5, <1>6, <1>7
<1>9. /\ IsSequence(Tail(net)) /\ frame = net[1]
      /\ Len(Tail(net)) = Len(net) - 1 /\ Len(net) \in Nat
      /\ \A i \in 1..Len(net) - 1 : Tail(net)[i] = net[i + 1]
      /\ DOMAIN net = 1..Len(net) /\ DOMAIN Tail(net) = 1..Len(Tail(net))
      /\ Len(Tail(net)) \in Nat
  BY <1>1, <1>2, SequenceTail, SequenceShape DEF frame
<1>10. /\ \A i \in 1..Len(net) : IsFrameOf(net[i], sent)
       /\ \A i \in DOMAIN sending : IsFrameOf(sending[i], sent)
  BY <1>9 DEF InwardInv, InwardKept, IsSentFrame, IsFrameOf
<1>11. \A i \in DOMAIN net' : IsFrameOf(net'[i], sent')
  <2>1. SUFFICES ASSUME NEW i \in 1..Len(net) - 1
                 PROVE  IsFrameOf(net[i + 1], sent)
    BY <1>1, <1>9
  <2>2. i + 1 \in 1..Len(net)
    BY <1>9, <2>1
  <2> QED BY <1>10, <2>2
<1>12. \A i \in DOMAIN sending' : IsFrameOf(sending'[i], sent')
  BY <1>1, <1>10
<1>13. AreSent'
  BY <1>1 DEF InwardInv, AreSent
<1>14. m_partial_packet' = ReadFrame(Client, frame).partial
  BY <1>4 DEF Client
<1>15. m_partial_packet' = NoPartial \/ Waits(m_partial_packet')
  <2>1. IsFrameOf(frame, sent)
    BY <1>9, <1>10
  <2>2. CASE frame = Pong
    <3>1. ReadFrame(Client, frame) = Client
      BY <1>2, <2>2, ReadPong
    <3> QED BY <1>2, <1>14, <3>1 DEF InwardInv
  <2>3. CASE frame # Pong
    <3>1. PICK n \in DOMAIN sent : frame \in Range(Accept(sent[n]))
      BY <2>1, <2>3 DEF IsFrameOf
    <3>2. PICK shape \in Inward : sent[n] = Numbered(shape, n)
      BY DEF InwardInv, AreSent
    <3> DEFINE p == sent[n]
    <3>3. IsPacket(p)
      BY <3>2, PacketShapes, NumberedIsPacket, Zenon
    <3>4. PICK k \in DOMAIN Accept(p) : frame = Accept(p)[k]
      BY <3>1 DEF Range
    <3> HIDE DEF p
    <3>5. k \in 1..Parts(p)
      BY <3>3, <3>4, AcceptShape
    <3>6. Client.partial = NoPartial \/ Waits(Client.partial)
      BY <1>2 DEF InwardInv
    <3>7. LET partial == ReadFrame(Client, Accept(p)[k]).partial
          IN partial = NoPartial \/ Waits(partial)
      BY <3>3, <3>5, <3>6, WaitsOn
    <3> QED BY <1>14, <3>4, <3>7
  <2> QED BY <2>2, <2>3
<1>16. IsSequence(decoded')
  <2>1. IsReader(ReadFrame(Client, frame))
    BY <1>2, ReadFrameGrows
  <2>2. decoded' = ReadFrame(Client, frame).got
    BY <1>4 DEF Client
  <2> QED BY <2>1, <2>2 DEF IsReader
<1>17. /\ IsSequence(net') /\ IsSequence(sending')
       /\ opened' /\ opened' \in BOOLEAN
  BY <1>1, <1>2, <1>3, <1>9
<1> QED BY <1>8, <1>11, <1>12, <1>13, <1>15, <1>16, <1>17, InwardStep

(* It holds after a step that concerns the other direction.                *)
LEMMA InwardUnchanged ==
  ASSUME InwardInv, UNCHANGED <<opened, inVars>>
  PROVE  InwardInv'
BY DEF InwardInv, inVars, AreSent, InwardKept, Underway, IsSentFrame, SentAsDecoded

-----------------------------------------------------------------------------
(* Outwards: packets and their frames.                                     *)

(* A sequence of members of a set.                                         *)
LEMMA SequenceIn ==
  ASSUME NEW s, IsSequence(s), NEW S, \A i \in DOMAIN s : s[i] \in S
  PROVE  s \in Seq(S)
<1>1. Len(s) \in Nat /\ DOMAIN s = 1..Len(s) /\ s = [i \in 1..Len(s) |-> s[i]]
  BY SequenceShape
<1>2. s \in [1..Len(s) -> S]
  BY <1>1
<1> QED BY <1>1, <1>2

(* And back.                                                               *)
LEMMA ElementIn ==
  ASSUME NEW S, NEW s \in Seq(S), NEW i \in DOMAIN s
  PROVE  s[i] \in S
OBVIOUS

(* Packets that have a message are told apart by its data.                 *)
LEMMA PacketsDiffer ==
  ASSUME NEW shape \in Outward, NEW other \in Outward, NEW n, NEW m,
         Accepted(Numbered(shape, n)) = Accepted(Numbered(other, m)),
         Numbered(shape, n).message # NoMessage
  PROVE  n = m /\ Numbered(other, m).message # NoMessage
<1> DEFINE p == Numbered(shape, n)
           q == Numbered(other, m)
<1>1. IsPacket(p) /\ IsPacket(q)
  BY PacketShapes, NumberedIsPacket, Zenon
<1>2. /\ \A i \in 1..Len(p.message) : p.message[i][2] = <<n, i>>
      /\ \A i \in 1..Len(q.message) : q.message[i][2] = <<m, i>>
  BY PacketShapes, NumberedIsPacket, Zenon
<1> HIDE DEF p, q
<1>3. /\ Accepted(p) = Make(Accepted(p).type, p.nsp, p.pack_id, p.message)
      /\ Accepted(q) = Make(Accepted(q).type, q.nsp, q.pack_id, q.message)
  BY <1>1, AcceptedIs
<1>4. Accepted(p).message = p.message /\ Accepted(q).message = q.message
  <2> DEFINE a == Accepted(p)
             b == Accepted(q)
  <2>1. /\ a = Make(a.type, p.nsp, p.pack_id, p.message)
        /\ b = Make(b.type, q.nsp, q.pack_id, q.message)
    BY <1>3
  <2> HIDE DEF a, b
  <2>2. a.message = p.message /\ b.message = q.message
    BY <2>1 DEF Make
  <2> QED BY <2>2 DEF a, b
<1>5. Accepted(p) = Accepted(q) /\ p.message # <<>>
  BY DEF p, q, NoMessage
<1>6. p.message = q.message
  BY <1>4, <1>5
<1>7. 1 \in 1..Len(p.message)
  <2>1. IsSequence(p.message)
    BY <1>1 DEF IsPacket
  <2>2. p.message \in Seq({p.message[i] : i \in DOMAIN p.message})
    BY <2>1 DEF IsSequence
  <2> QED BY <1>5, <2>2
<1>8. <<n, 1>> = <<m, 1>>
  BY <1>2, <1>6, <1>7
<1> QED BY <1>5, <1>6, <1>8 DEF q, NoMessage

(* The history of emits is a sequence.                                     *)
LEMMA EmittedIs ==
  ASSUME AreEmitted
  PROVE  IsSequence(emitted) /\ Len(emitted) \in Nat /\ DOMAIN emitted = 1..Len(emitted)
<1>1. IsSequence(emitted)
  BY SequenceOf, Zenon DEF AreEmitted
<1> QED BY <1>1, SequenceShape

(* What is known of the n-th emit.                                         *)
LEMMA EmittedPacket ==
  ASSUME AreEmitted, NEW n \in DOMAIN emitted
  PROVE  /\ IsPacket(emitted[n].packet)
         /\ Size(n) = Parts(emitted[n].packet) /\ Size(n) \in Nat \ {0}
         /\ emitted[n].thread \in {"user", "net"}
         /\ emitted[n].session \in 0..session
         /\ emitted[n] = [thread |-> emitted[n].thread,
                          session |-> emitted[n].session,
                          packet |-> emitted[n].packet]
<1>1. PICK shape \in Outward : emitted[n].packet = Numbered(shape, n)
  BY DEF AreEmitted
<1>2. IsPacket(emitted[n].packet)
  BY <1>1, PacketShapes, NumberedIsPacket, Zenon
<1>3. Size(n) = Parts(emitted[n].packet)
  BY DEF Size, Parts
<1>4. Len(Buffers(emitted[n].packet.message)) \in Nat
  BY <1>2, AcceptShape
<1>5. Size(n) \in Nat \ {0}
  BY <1>4 DEF Size
<1> DEFINE S == {emitted[m].packet : m \in DOMAIN emitted}
<1>6. emitted \in Seq([thread : {"user", "net"}, session : 0..session, packet : S])
  BY DEF AreEmitted
<1> HIDE DEF S
<1>7. emitted[n] \in [thread : {"user", "net"}, session : 0..session, packet : S]
  BY <1>6, ElementIn, Zenon
<1> QED BY <1>2, <1>3, <1>5, <1>7

(* A packet is emitted: the n-th.                                          *)
Emits(n, thread, p) ==
  /\ Extends(emitted', emitted, [thread |-> thread, session |-> session, packet |-> p])
  /\ n = Number /\ n = Len(emitted) + 1
  /\ \E shape \in Outward : p = Numbered(shape, n)
  /\ thread \in {"user", "net"}

(* One emit more leaves the others as they were.                           *)
LEMMA EmittedGrows ==
  ASSUME AreEmitted, session \in Nat, session' = session,
         NEW n, NEW thread, NEW p, Emits(n, thread, p)
  PROVE  /\ AreEmitted'
         /\ Len(emitted) \in Nat /\ n \notin DOMAIN emitted
         /\ DOMAIN emitted = 1..n - 1 /\ DOMAIN emitted' = 1..n /\ n \in Nat \ {0}
         /\ \A m \in DOMAIN emitted : emitted'[m] = emitted[m]
         /\ emitted'[n] = [thread |-> thread, session |-> session, packet |-> p]
         /\ emitted'[n].packet = p /\ emitted'[n].thread = thread
         /\ IsPacket(p)
<1>1. /\ Len(emitted) \in Nat /\ DOMAIN emitted = 1..Len(emitted)
      /\ DOMAIN emitted' = 1..Len(emitted) + 1 /\ n = Len(emitted) + 1
      /\ \A m \in DOMAIN emitted : emitted'[m] = emitted[m]
      /\ emitted'[n] = [thread |-> thread, session |-> session, packet |-> p]
      /\ IsSequence(emitted')
  BY DEF Emits, Extends
<1>2. n \notin DOMAIN emitted /\ DOMAIN emitted = 1..n - 1 /\ n \in Nat \ {0}
  BY <1>1
<1>3. emitted'[n].packet = p /\ emitted'[n].thread = thread
  BY <1>1
<1>4. PICK shape \in Outward : p = Numbered(shape, n)
  BY DEF Emits
<1>5. IsPacket(p)
  BY <1>4, PacketShapes, NumberedIsPacket, Zenon
<1>6. ASSUME NEW m \in DOMAIN emitted'
      PROVE  /\ \E s \in Outward : emitted'[m].packet = Numbered(s, m)
             /\ emitted'[m] \in [thread : {"user", "net"}, session : 0..session,
                                 packet : {emitted'[k].packet : k \in DOMAIN emitted'}]
  <2>1. CASE m = n
    BY <1>1, <1>3, <1>4, <2>1 DEF Emits
  <2>2. CASE m \in DOMAIN emitted
    <3>2. emitted[m] = [thread |-> emitted[m].thread, session |-> emitted[m].session,
                        packet |-> emitted[m].packet]
      BY <2>2, EmittedPacket
    <3>3. emitted[m].thread \in {"user", "net"} /\ emitted[m].session \in 0..session
      BY <2>2, EmittedPacket
    <3>4. emitted'[m] = emitted[m]
      BY <1>1, <2>2
    <3>5. emitted'[m].packet \in {emitted'[k].packet : k \in DOMAIN emitted'}
      OBVIOUS
    <3>6. emitted'[m] \in [thread : {"user", "net"}, session : 0..session,
                           packet : {emitted'[k].packet : k \in DOMAIN emitted'}]
      BY <3>2, <3>3, <3>4, <3>5
    <3> QED BY <2>2, <3>4, <3>6 DEF AreEmitted
  <2> QED BY <1>1, <1>6, <2>1, <2>2
<1>7. emitted' \in Seq([thread : {"user", "net"}, session : 0..session,
                        packet : {emitted'[k].packet : k \in DOMAIN emitted'}])
  BY <1>1, <1>6, SequenceIn
<1>8. AreEmitted'
  BY <1>6, <1>7 DEF AreEmitted
<1> QED BY <1>1, <1>2, <1>3, <1>5, <1>8

(* The packets emitted before keep their forms.                            *)
LEMMA OldPacket ==
  ASSUME NEW n, emitted'[n] = emitted[n]
  PROVE  /\ Packet(n)' = Packet(n) /\ Size(n)' = Size(n) /\ HasData(n)' = HasData(n)
BY DEF Packet, Size, HasData

(* What the server has got is not the packet that is emitted now.          *)
LEMMA OldGot ==
  ASSUME AreEmitted, AreEmitted', GotIsEmitted,
         \A m \in DOMAIN emitted : m \in DOMAIN emitted' /\ emitted'[m] = emitted[m],
         NEW i \in DOMAIN peer.got, NEW n \in DOMAIN emitted',
         peer.got[i] = Packet(n)', emitted'[n].packet.message # NoMessage
  PROVE  n \in DOMAIN emitted /\ peer.got[i] = Packet(n)
<1>1. PICK k \in DOMAIN emitted : peer.got[i] = Packet(k)
  BY DEF GotIsEmitted
<1>2. PICK shape \in Outward : emitted'[n].packet = Numbered(shape, n)
  BY DEF AreEmitted
<1>3. PICK other \in Outward : emitted[k].packet = Numbered(other, k)
  BY DEF AreEmitted
<1>4. Accepted(Numbered(shape, n)) = Accepted(Numbered(other, k))
  BY <1>1, <1>2, <1>3 DEF Packet
<1>5. n = k
  BY <1>2, <1>4, PacketsDiffer
<1> QED BY <1>1, <1>5

(* Two packets with a message are told apart by their data.                *)
LEMMA SamePacket ==
  ASSUME AreEmitted, NEW n \in DOMAIN emitted, NEW m \in DOMAIN emitted,
         Packet(n) = Packet(m), emitted[n].packet.message # NoMessage
  PROVE  n = m
<1>1. PICK shape \in Outward : emitted[n].packet = Numbered(shape, n)
  BY DEF AreEmitted
<1>2. PICK other \in Outward : emitted[m].packet = Numbered(other, m)
  BY DEF AreEmitted
<1>3. Accepted(Numbered(shape, n)) = Accepted(Numbered(other, m))
  BY <1>1, <1>2 DEF Packet
<1> QED BY <1>1, <1>3, PacketsDiffer

(* The frames that encode() hands over: the k-th is the k-th of accept().  *)
LEMMA FramesIs ==
  ASSUME NEW p, IsPacket(p), NEW n
  PROVE  /\ IsSequence(Frames(p, n)) /\ Len(Frames(p, n)) = Parts(p)
         /\ Parts(p) \in Nat \ {0} /\ DOMAIN Frames(p, n) = 1..Parts(p)
         /\ \A k \in 1..Parts(p) :
              Frames(p, n)[k] = [of |-> n, part |-> k, frame |-> Accept(p)[k]]
<1>1. DOMAIN Accept(p) = 1..Parts(p) /\ Len(Buffers(p.message)) \in Nat
  BY AcceptShape
<1>2. Parts(p) \in Nat \ {0}
  BY <1>1 DEF Parts
<1>3. Frames(p, n) = [k \in 1..Parts(p) |->
                        [of |-> n, part |-> k, frame |-> Accept(p)[k]]]
  BY <1>1 DEF Frames
<1> DEFINE s == Frames(p, n)
<1> HIDE DEF s
<1>4. /\ DOMAIN s = 1..Parts(p)
      /\ \A k \in 1..Parts(p) : s[k] = [of |-> n, part |-> k, frame |-> Accept(p)[k]]
      /\ s = [k \in 1..Parts(p) |-> s[k]]
  BY <1>3 DEF s
<1>5. s \in Seq({s[k] : k \in 1..Parts(p)}) /\ Len(s) = Parts(p)
  BY <1>2, <1>4
<1>6. IsSequence(s)
  BY <1>5, SequenceOf, Zenon
<1> QED BY <1>2, <1>4, <1>5, <1>6 DEF s

(* A frame of the user's that is not written yet.                          *)
LEMMA UsersIs ==
  ASSUME AreEmitted, NEW e, IsUsers(e)
  PROVE  /\ e.of \in DOMAIN emitted /\ emitted[e.of].thread = "user"
         /\ e.part \in 1..Size(e.of)
         /\ e.frame = Accept(emitted[e.of].packet)[e.part]
<1>1. /\ e.of \in DOMAIN emitted /\ emitted[e.of].thread = "user"
      /\ e \in Range(Frames(emitted[e.of].packet, e.of))
  BY DEF IsUsers
<1> DEFINE n == e.of
           p == emitted[n].packet
<1>2. IsPacket(p) /\ Size(n) = Parts(p)
  BY <1>1, EmittedPacket
<1> HIDE DEF n, p
<1>3. PICK k \in DOMAIN Frames(p, n) : e = Frames(p, n)[k]
  BY <1>1 DEF Range, n, p
<1>4. k \in 1..Parts(p) /\ e = [of |-> n, part |-> k, frame |-> Accept(p)[k]]
  BY <1>2, <1>3, FramesIs
<1>5. e.part = k /\ e.frame = Accept(p)[k]
  BY <1>4
<1> QED BY <1>1, <1>2, <1>4, <1>5 DEF n, p

-----------------------------------------------------------------------------
(* What is written, and what is left.                                      *)

(* u is s and then t.                                                      *)
Chains(u, s, t) ==
  /\ IsSequence(u) /\ Len(s) \in Nat /\ Len(t) \in Nat
  /\ DOMAIN s = 1..Len(s) /\ DOMAIN t = 1..Len(t)
  /\ Len(u) = Len(s) + Len(t) /\ DOMAIN u = 1..Len(s) + Len(t)
  /\ \A i \in 1..Len(s) : u[i] = s[i]
  /\ \A i \in 1..Len(t) : u[Len(s) + i] = t[i]

(* Two queues joined, by their elements.                                   *)
LEMMA JoinIs ==
  ASSUME NEW s, IsSequence(s), NEW t, IsSequence(t)
  PROVE  Chains(s \o t, s, t)
<1> DEFINE u == s \o t
<1>1. IsSequence(u) /\ Len(u) = Len(s) + Len(t)
  BY SequenceJoin
<1>2. /\ \A i \in 1..Len(s) : u[i] = s[i]
      /\ \A i \in 1..Len(t) : u[Len(s) + i] = t[i]
  BY SequenceJoin
<1> HIDE DEF u
<1>3. /\ Len(s) \in Nat /\ DOMAIN s = 1..Len(s)
      /\ Len(t) \in Nat /\ DOMAIN t = 1..Len(t) /\ DOMAIN u = 1..Len(u)
  BY <1>1, SequenceShape
<1>4. Chains(u, s, t)
  BY <1>1, <1>2, <1>3 DEF Chains
<1> QED BY <1>4 DEF u

(* The parts of the n-th packet from lo to hi were written at the end.     *)
Wrote(n, lo, hi) ==
  /\ Len(wire) \in Nat /\ DOMAIN wire = 1..Len(wire)
  /\ IsSequence(wire') /\ DOMAIN wire' = 1..Len(wire) + (hi - lo + 1)
  /\ Len(wire') = Len(wire) + (hi - lo + 1)
  /\ \A i \in 1..Len(wire) : wire'[i] = wire[i]
  /\ \A i \in lo..hi :
       wire'[Len(wire) + (i - lo + 1)] = [session |-> session, of |-> n, part |-> i]

(* The history of what was written is a sequence.                          *)
LEMMA WireIs ==
  ASSUME WireKept
  PROVE  IsSequence(wire) /\ Len(wire) \in Nat /\ DOMAIN wire = 1..Len(wire)
<1>1. IsSequence(wire)
  BY SequenceOf, Zenon DEF WireKept
<1> QED BY <1>1, SequenceShape

(* The user's frames to come are a sequence.                               *)
LEMMA RestIs ==
  ASSUME RestKept
  PROVE  IsSequence(Rest) /\ Len(Rest) \in Nat /\ DOMAIN Rest = 1..Len(Rest)
<1>1. IsSequence(Rest)
  BY JoinIsSequence DEF Rest, RestKept
<1> QED BY <1>1, SequenceShape

(* A posted call of send_impl is run.                                      *)
LEMMA RestTail ==
  ASSUME RestKept, NetSends
  PROVE  Follow(Rest', Rest, Head(posted))
<1>1. posted # <<>> /\ posted' = Tail(posted) /\ encoding' = encoding
  BY DEF NetSends
<1> DEFINE h == <<Head(posted)>>
           t == Tail(posted)
<1>2. IsSequence(posted) /\ IsSequence(encoding)
  BY DEF RestKept
<1>3. IsSequence(t) /\ IsSequence(h) /\ posted = h \o t
  BY <1>1, <1>2, SequenceTail
<1>4. h[1] = Head(posted) /\ Len(h) = 1
  OBVIOUS
<1> HIDE DEF h, t
<1>5. (h \o t) \o encoding = h \o (t \o encoding)
  BY <1>2, <1>3, SequenceAssociative
<1>6. Rest' = t \o encoding
  BY <1>1 DEF Rest, t
<1>7. Rest = h \o Rest'
  BY <1>3, <1>5, <1>6 DEF Rest
<1>8. IsSequence(Rest')
  BY <1>2, <1>3, <1>6, JoinIsSequence
<1>9. Chains(Rest, h, Rest')
  BY <1>3, <1>7, <1>8, JoinIs
<1>10. 1 \in 1..Len(h)
  BY <1>4
<1>11. Rest[1] = Head(posted)
  BY <1>4, <1>9, <1>10 DEF Chains
<1>12. /\ Len(Rest') \in Nat /\ Len(Rest) = Len(Rest') + 1
       /\ DOMAIN Rest' = 1..Len(Rest') /\ DOMAIN Rest = 1..Len(Rest') + 1
  BY <1>4, <1>9 DEF Chains
<1>13. \A i \in 1..Len(Rest') : Rest'[i] = Rest[i + 1]
  BY <1>4, <1>9, <1>12 DEF Chains
<1> QED BY <1>8, <1>11, <1>12, <1>13 DEF Follow

(* send_impl of a posted frame: the first of the user's frames to come.    *)
LEMMA SendWrites ==
  ASSUME AreEmitted, RestKept, WireKept, NetSends
  PROVE  /\ Rest # <<>> /\ 1 \in DOMAIN Rest /\ Rest[1] = Head(posted)
         /\ IsUsers(Rest[1])
         /\ opened => /\ Wrote(Rest[1].of, Rest[1].part, Rest[1].part)
                      /\ peer' = ReadFrame(peer, Rest[1].frame)
         /\ ~opened => wire' = wire /\ peer' = peer
<1> DEFINE e == Head(posted)
<1>1. Follow(Rest', Rest, e)
  BY RestTail
<1>2. 1 \in DOMAIN Rest /\ Rest[1] = e
  BY <1>1 DEF Follow
<1>3. Rest # <<>>
  BY <1>2
<1>4. IsUsers(e)
  BY <1>2 DEF RestKept
<1>5. Write(<<e>>)
  BY DEF NetSends
<1> HIDE DEF e
<1>6. ASSUME opened PROVE Wrote(e.of, e.part, e.part)
  <2> DEFINE w == [session |-> session, of |-> e.of, part |-> e.part]
  <2>1. wire' = wire \o [i \in DOMAIN <<e>> |->
                  [session |-> session, of |-> <<e>>[i].of, part |-> <<e>>[i].part]]
    BY <1>5, <1>6 DEF Write
  <2>2. [i \in DOMAIN <<e>> |->
           [session |-> session, of |-> <<e>>[i].of, part |-> <<e>>[i].part]] = <<w>>
    OBVIOUS
  <2> HIDE DEF w
  <2>3. IsSequence(wire) /\ Len(wire) \in Nat /\ DOMAIN wire = 1..Len(wire)
    BY WireIs
  <2>4. wire' = Append(wire, w)
    BY <2>1, <2>2, <2>3, SequenceAppend
  <2>5. Extends(wire', wire, w)
    BY <2>3, <2>4, AppendIs
  <2>6. e.part \in Nat
    <3>1. e.part \in 1..Size(e.of)
      BY <1>4, UsersIs
    <3> QED BY <3>1
  <2>7. e.part - e.part + 1 = 1
    BY <2>6
  <2>8. \A i \in e.part..e.part : i = e.part
    BY <2>6
  <2> QED BY <2>3, <2>5, <2>7, <2>8 DEF Wrote, Extends, w
<1>7. ASSUME opened PROVE peer' = ReadFrame(peer, e.frame)
  <2>1. peer' = Read(peer, [i \in DOMAIN <<e>> |-> <<e>>[i].frame])
    BY <1>5, <1>7 DEF Write
  <2>2. [i \in DOMAIN <<e>> |-> <<e>>[i].frame] = <<e.frame>>
    OBVIOUS
  <2> QED BY <2>1, <2>2, ReadSome
<1>8. ~opened => wire' = wire /\ peer' = peer
  BY <1>5 DEF Write
<1> QED BY <1>2, <1>3, <1>4, <1>6, <1>7, <1>8 DEF e

(* encode() on the network thread: all frames of a packet at once. The     *)
(* server then has the packet, and keeps what it kept if the packet has no *)
(* data.                                                                   *)
LEMMA NetWrites ==
  ASSUME AreEmitted, WireKept, session \in Nat, NetEncodes, PeerKept
  PROVE  \E p : /\ Emits(Number, "net", p) /\ IsPacket(p)
                /\ opened => /\ Wrote(Number, 1, Parts(p))
                             /\ peer' = [partial |-> IF Parts(p) = 1 THEN peer.partial
                                                     ELSE NoPartial,
                                         got |-> peer.got \o <<Accepted(p)>>]
                /\ ~opened => wire' = wire /\ peer' = peer
<1>1. PICK shape \in Outward :
        /\ Write(Frames(Numbered(shape, Number), Number))
        /\ Emitted("net", Numbered(shape, Number))
  BY DEF NetEncodes
<1> DEFINE p == Numbered(shape, Number)
           n == Number
           fs == Frames(p, n)
<1>2. IsPacket(p)
  BY PacketShapes, NumberedIsPacket, Zenon
<1>3. Emits(n, "net", p)
  <2>1. IsSequence(emitted)
    BY EmittedIs
  <2>2. emitted' = Append(emitted, [thread |-> "net", session |-> session, packet |-> p])
    BY <1>1 DEF Emitted
  <2>3. Extends(emitted', emitted, [thread |-> "net", session |-> session, packet |-> p])
    BY <2>1, <2>2, AppendIs
  <2> QED BY <2>3 DEF Emits, Number
<1>4. Write(fs)
  BY <1>1
<1> HIDE DEF p, n, fs
<1>5. /\ DOMAIN fs = 1..Parts(p) /\ Parts(p) \in Nat \ {0}
      /\ \A k \in 1..Parts(p) : fs[k] = [of |-> n, part |-> k, frame |-> Accept(p)[k]]
  BY <1>2, FramesIs DEF fs
<1>6. ASSUME opened PROVE Wrote(n, 1, Parts(p))
  <2> DEFINE ws == [i \in 1..Parts(p) |->
                      [session |-> session, of |-> n, part |-> i]]
  <2>1. wire' = wire \o [i \in DOMAIN fs |->
                  [session |-> session, of |-> fs[i].of, part |-> fs[i].part]]
    BY <1>4, <1>6 DEF Write
  <2>2. [i \in DOMAIN fs |->
           [session |-> session, of |-> fs[i].of, part |-> fs[i].part]] = ws
    BY <1>5
  <2>3. /\ Len(ws) = Parts(p) /\ ws \in Seq({ws[i] : i \in 1..Parts(p)})
        /\ \A i \in 1..Parts(p) : ws[i] = [session |-> session, of |-> n, part |-> i]
    BY <1>5
  <2> HIDE DEF ws
  <2>4. IsSequence(ws)
    BY <2>3, SequenceOf, Zenon
  <2>5. IsSequence(wire)
    BY WireIs
  <2>6. Chains(wire', wire, ws)
    BY <2>1, <2>2, <2>4, <2>5, JoinIs
  <2>7. Parts(p) - 1 + 1 = Parts(p) /\ \A i \in 1..Parts(p) : i - 1 + 1 = i
    BY <1>5
  <2> QED BY <2>3, <2>6, <2>7 DEF Wrote, Chains
<1>7. ASSUME opened
      PROVE  peer' = [partial |-> IF Parts(p) = 1 THEN peer.partial ELSE NoPartial,
                      got |-> peer.got \o <<Accepted(p)>>]
  <2>1. peer' = Read(peer, [i \in DOMAIN fs |-> fs[i].frame])
    BY <1>4, <1>7 DEF Write
  <2>2. /\ IsSequence(Accept(p)) /\ Len(Accept(p)) = Parts(p)
        /\ DOMAIN Accept(p) = 1..Parts(p)
    BY <1>2, AcceptShape
  <2>3. Accept(p) = [i \in 1..Parts(p) |-> Accept(p)[i]]
    <3>1. Accept(p) = [i \in 1..Len(Accept(p)) |-> Accept(p)[i]]
      BY <2>2, SequenceShape
    <3> QED BY <2>2, <3>1
  <2>4. [i \in DOMAIN fs |-> fs[i].frame] = [i \in 1..Parts(p) |-> Accept(p)[i]]
    BY <1>5
  <2>5. peer' = Read(peer, Accept(p))
    BY <2>1, <2>3, <2>4
  <2>6. IsReader(peer)
    BY DEF PeerKept, IsReader
  <2> QED BY <1>2, <2>5, <2>6, ReadsPacket
<1>8. ~opened => wire' = wire /\ peer' = peer
  BY <1>4 DEF Write
<1>9. WITNESS p
<1> QED BY <1>2, <1>3, <1>6, <1>7, <1>8 DEF n

(* What the server makes of the user's next frame: a packet that it now    *)
(* has whole, one that it keeps, or nothing.                               *)
Completes == /\ peer' = [partial |-> NoPartial,
                         got |-> peer.got \o <<Packet(Rest[1].of)>>]
             /\ Rest[1].part = Size(Rest[1].of)
Collects == /\ peer' = [partial |-> <<After(emitted[Rest[1].of].packet, Rest[1].part)>>,
                        got |-> peer.got]
            /\ Rest[1].part < Size(Rest[1].of)
Drops == peer' = peer /\ peer.partial = NoPartial /\ Half

(* What the server makes of the user's next frame: it completes a packet,  *)
(* is collected, or is dropped as data that nothing kept announces.        *)
LEMMA SendReads ==
  ASSUME AreEmitted, RestKept, PeerKept, Rest # <<>>, IsUsers(Rest[1]),
         opened, peer' = ReadFrame(peer, Rest[1].frame)
  PROVE  /\ Completes \/ Collects \/ Drops
         /\ HalfRead \/ Rest[1].part = 1 => Completes \/ Collects
         /\ ~(HalfRead \/ Rest[1].part = 1) => Drops
<1> DEFINE n == Rest[1].of
           k == Rest[1].part
           p == emitted[n].packet
<1>1. /\ n \in DOMAIN emitted /\ k \in 1..Size(n) /\ Rest[1].frame = Accept(p)[k]
  BY UsersIs
<1>2. IsPacket(p) /\ Size(n) = Parts(p) /\ Parts(p) \in Nat \ {0}
  BY <1>1, EmittedPacket
<1>3. IsReader(peer)
  BY DEF PeerKept, IsReader
<1>4. peer.partial = NoPartial \/ HalfRead
  BY DEF PeerKept
<1>5. HalfRead => Half /\ peer.partial = <<After(p, k - 1)>>
  BY DEF HalfRead
<1>6. Half <=> k > 1
  BY DEF Half
<1>7. Packet(n) = Accepted(p)
  BY DEF Packet
<1>8. peer' = ReadFrame(peer, Accept(p)[k])
  BY <1>1
<1> HIDE DEF n, k, p
<1>9. CASE k = 1
  <2>1. peer.partial = NoPartial
    BY <1>4, <1>5, <1>6, <1>9
  <2>2. CASE Parts(p) = 1
    <3>1. ReadFrame(peer, Accept(p)[1]) =
            [partial |-> peer.partial, got |-> peer.got \o <<Accepted(p)>>]
      BY <1>2, <2>2, ReadWhole
    <3>2. Completes
      BY <1>2, <1>7, <1>8, <1>9, <2>1, <2>2, <3>1 DEF Completes, n, k
    <3> QED BY <1>9, <3>2 DEF k
  <2>3. CASE Parts(p) > 1
    <3>1. ReadFrame(peer, Accept(p)[1]) =
            [partial |-> <<After(p, 1)>>, got |-> peer.got]
      BY <1>2, <1>3, <2>3, ReadText
    <3>2. peer' = [partial |-> <<After(p, k)>>, got |-> peer.got] /\ k < Size(n)
      BY <1>2, <1>8, <1>9, <2>3, <3>1
    <3>3. Collects
      BY <3>2 DEF Collects, n, k, p
    <3> QED BY <1>9, <3>3 DEF k
  <2> QED BY <1>2, <2>2, <2>3
<1>10. CASE k > 1
  <2>1. k - 1 \in 1..Parts(p) - 1 /\ (k - 1) + 1 = k
    BY <1>1, <1>2, <1>10
  <2>2. CASE HalfRead
    <3>1. peer.partial = <<After(p, k - 1)>>
      BY <1>5, <2>2
    <3>2. ReadFrame(peer, Accept(p)[(k - 1) + 1]) =
            IF (k - 1) + 1 = Parts(p)
            THEN [partial |-> NoPartial, got |-> peer.got \o <<Accepted(p)>>]
            ELSE [partial |-> <<After(p, (k - 1) + 1)>>, got |-> peer.got]
      BY <1>2, <1>3, <2>1, <3>1, ReadData
    <3>3. CASE k = Parts(p)
      <4>1. peer' = [partial |-> NoPartial, got |-> peer.got \o <<Packet(n)>>]
        BY <1>7, <1>8, <2>1, <3>2, <3>3
      <4>2. Completes
        BY <1>2, <3>3, <4>1 DEF Completes, n, k
      <4> QED BY <2>2, <4>2
    <3>4. CASE k < Parts(p)
      <4>1. peer' = [partial |-> <<After(p, k)>>, got |-> peer.got] /\ k < Size(n)
        BY <1>2, <1>8, <2>1, <3>2, <3>4
      <4>2. Collects
        BY <4>1 DEF Collects, n, k, p
      <4> QED BY <2>2, <4>2
    <3> QED BY <1>1, <1>2, <3>3, <3>4
  <2>3. CASE ~HalfRead
    <3>1. peer.partial = NoPartial
      BY <1>4, <2>3
    <3>2. ReadFrame(peer, Accept(p)[(k - 1) + 1]) = peer
      BY <1>2, <1>3, <2>1, <3>1, ReadStray
    <3>3. Drops
      BY <1>6, <1>8, <1>10, <2>1, <3>1, <3>2 DEF Drops
    <3> QED BY <1>10, <2>3, <3>3 DEF k
  <2> QED BY <2>2, <2>3
<1> QED BY <1>1, <1>2, <1>9, <1>10

-----------------------------------------------------------------------------
(* Outwards: the steps.                                                    *)

OutwardInv ==
  /\ AreEmitted /\ RestKept /\ PeerKept /\ GotBefore
  /\ WireKept /\ HalfKept /\ HalfTorn
  /\ GotIsEmitted /\ GotInOrder /\ LossNeedsOverlap /\ TornNeedsReconnect
  /\ peer.partial # NoPartial => Waits(peer.partial)

(* A posted call of send_impl runs.                                        *)
LEMMA SendsSame ==
  ASSUME NetSends
  PROVE  opened' = opened /\ session' = session /\ emitted' = emitted
BY DEF NetSends

(* NetSends: nothing is emitted.                                           *)
LEMMA SendsEmitted ==
  ASSUME AreEmitted, NetSends
  PROVE  AreEmitted'
BY SendsSame DEF AreEmitted

(* NetSends: the rest of the user's frames is still in order.              *)
LEMMA SendsRest ==
  ASSUME AreEmitted, RestKept, NetSends
  PROVE  RestKept'
<1>1. Follow(Rest', Rest, Head(posted))
  BY RestTail
<1>2. emitted' = emitted
  BY SendsSame
<1>3. IsSequence(posted') /\ IsSequence(encoding')
  BY TailIsSequence DEF RestKept, NetSends
<1>4. /\ Len(Rest') \in Nat /\ Len(Rest) = Len(Rest') + 1
      /\ DOMAIN Rest' = 1..Len(Rest') /\ DOMAIN Rest = 1..Len(Rest') + 1
      /\ \A i \in 1..Len(Rest') : Rest'[i] = Rest[i + 1]
  BY <1>1 DEF Follow
<1>5. \A i \in DOMAIN Rest' : IsUsers(Rest[i])'
  <2>1. SUFFICES ASSUME NEW i \in DOMAIN Rest' PROVE IsUsers(Rest[i])'
    OBVIOUS
  <2>2. i + 1 \in DOMAIN Rest /\ Rest'[i] = Rest[i + 1]
    BY <1>4, <2>1
  <2>3. IsUsers(Rest[i + 1])
    BY <2>2 DEF RestKept
  <2> QED BY <1>2, <2>2, <2>3 DEF IsUsers
<1>6. \A i \in DOMAIN Rest' : i + 1 \in DOMAIN Rest' => Follows(Rest[i], Rest[i + 1])'
  <2>1. SUFFICES ASSUME NEW i \in DOMAIN Rest', i + 1 \in DOMAIN Rest'
                 PROVE  Follows(Rest[i], Rest[i + 1])'
    OBVIOUS
  <2>2. /\ i + 1 \in DOMAIN Rest /\ Rest'[i] = Rest[i + 1]
        /\ (i + 1) + 1 \in DOMAIN Rest /\ Rest'[i + 1] = Rest[(i + 1) + 1]
    BY <1>4, <2>1
  <2>3. Follows(Rest[i + 1], Rest[(i + 1) + 1])
    BY <2>2 DEF RestKept
  <2> QED BY <1>2, <2>2, <2>3 DEF Follows, Size
<1>7. \A i, j \in DOMAIN Rest' : i <= j => Rest'[i].of <= Rest'[j].of
  <2>1. SUFFICES ASSUME NEW i \in DOMAIN Rest', NEW j \in DOMAIN Rest', i <= j
                 PROVE  Rest'[i].of <= Rest'[j].of
    OBVIOUS
  <2>2. /\ i + 1 \in DOMAIN Rest /\ Rest'[i] = Rest[i + 1]
        /\ j + 1 \in DOMAIN Rest /\ Rest'[j] = Rest[j + 1] /\ i + 1 <= j + 1
    BY <1>4, <2>1
  <2> QED BY <2>2 DEF RestKept
<1>8. Rest' # <<>> => Rest'[Len(Rest')].part = Size(Rest[Len(Rest)].of)'
  <2>1. SUFFICES ASSUME Rest' # <<>>
                 PROVE  Rest'[Len(Rest')].part = Size(Rest[Len(Rest)].of)'
    OBVIOUS
  <2>2. Len(Rest') \in 1..Len(Rest')
    <3>1. IsSequence(Rest')
      BY <1>1 DEF Follow
    <3>2. Rest' \in Seq({Rest'[i] : i \in DOMAIN Rest'})
      BY <3>1 DEF IsSequence
    <3> QED BY <1>4, <2>1, <3>2
  <2>3. Rest'[Len(Rest')] = Rest[Len(Rest)] /\ Rest # <<>>
    BY <1>4, <2>2
  <2> QED BY <1>2, <2>3 DEF Size, RestKept
<1> QED BY <1>3, <1>5, <1>6, <1>7, <1>8 DEF RestKept

(* The two next frames of the user.                                        *)
LEMMA NextFrames ==
  ASSUME AreEmitted, RestKept, NetSends
  PROVE  /\ 1 \in DOMAIN Rest /\ IsUsers(Rest[1])
         /\ Rest[1].of \in DOMAIN emitted /\ emitted[Rest[1].of].thread = "user"
         /\ Rest[1].part \in 1..Size(Rest[1].of) /\ Size(Rest[1].of) \in Nat \ {0}
         /\ Rest[1].of \in Nat
         /\ IsSequence(Rest') /\ (Rest' # <<>> <=> 1 \in DOMAIN Rest')
         /\ Rest' # <<>> => Follows(Rest[1], Rest'[1])
         /\ Rest' = <<>> => Rest[1].part = Size(Rest[1].of)
         /\ \A j \in DOMAIN Rest' : /\ j + 1 \in DOMAIN Rest /\ Rest'[j] = Rest[j + 1]
                                    /\ Rest'[1].of <= Rest'[j].of
<1>1. Follow(Rest', Rest, Head(posted))
  BY RestTail
<1>2. /\ Len(Rest') \in Nat /\ Len(Rest) = Len(Rest') + 1 /\ IsSequence(Rest')
      /\ DOMAIN Rest' = 1..Len(Rest') /\ DOMAIN Rest = 1..Len(Rest') + 1
      /\ \A i \in 1..Len(Rest') : Rest'[i] = Rest[i + 1]
  BY <1>1 DEF Follow
<1>3. 1 \in DOMAIN Rest /\ IsUsers(Rest[1])
  BY <1>2 DEF RestKept
<1>4. /\ Rest[1].of \in DOMAIN emitted /\ emitted[Rest[1].of].thread = "user"
      /\ Rest[1].part \in 1..Size(Rest[1].of)
  BY <1>3, UsersIs
<1>5. Size(Rest[1].of) \in Nat \ {0}
  BY <1>4, EmittedPacket
<1>6. Rest[1].of \in Nat
  BY <1>4, EmittedIs
<1>7. Rest' # <<>> <=> Len(Rest') >= 1
  <2>1. Rest' \in Seq({Rest'[i] : i \in DOMAIN Rest'})
    BY <1>2 DEF IsSequence
  <2> QED BY <1>2, <2>1
<1>8. Rest' # <<>> => Follows(Rest[1], Rest'[1])
  <2>1. SUFFICES ASSUME Rest' # <<>> PROVE Follows(Rest[1], Rest'[1])
    OBVIOUS
  <2>2. 1 \in DOMAIN Rest /\ 1 + 1 \in DOMAIN Rest /\ Rest'[1] = Rest[1 + 1]
    BY <1>2, <1>7, <2>1
  <2>3. Follows(Rest[1], Rest[1 + 1])
    BY <2>2 DEF RestKept
  <2> QED BY <2>2, <2>3
<1>9. Rest' = <<>> => Rest[1].part = Size(Rest[1].of)
  <2>1. SUFFICES ASSUME Rest' = <<>> PROVE Rest[1].part = Size(Rest[1].of)
    OBVIOUS
  <2>2. Len(Rest) = 1 /\ Rest # <<>>
    BY <1>2, <1>3, <1>7, <2>1
  <2> QED BY <2>2 DEF RestKept
<1>10. \A j \in DOMAIN Rest' : /\ j + 1 \in DOMAIN Rest /\ Rest'[j] = Rest[j + 1]
                               /\ Rest'[1].of <= Rest'[j].of
  <2>1. SUFFICES ASSUME NEW j \in DOMAIN Rest'
                 PROVE  /\ j + 1 \in DOMAIN Rest /\ Rest'[j] = Rest[j + 1]
                        /\ Rest'[1].of <= Rest'[j].of
    OBVIOUS
  <2>2. /\ j + 1 \in DOMAIN Rest /\ Rest'[j] = Rest[j + 1]
        /\ 1 + 1 \in DOMAIN Rest /\ Rest'[1] = Rest[1 + 1] /\ 1 + 1 <= j + 1
    BY <1>2, <2>1
  <2>3. Rest[1 + 1].of <= Rest[j + 1].of
    BY <2>2 DEF RestKept
  <2> QED BY <2>2, <2>3
<1> QED BY <1>2, <1>3, <1>4, <1>5, <1>6, <1>7, <1>8, <1>9, <1>10

(* What the server has got after it: as before, or the user's packet too.  *)
LEMMA SendsOutcome ==
  ASSUME OutwardInv, opened \in BOOLEAN, NetSends
  PROVE  /\ opened => /\ Wrote(Rest[1].of, Rest[1].part, Rest[1].part)
                      /\ Completes \/ Collects \/ Drops
                      /\ HalfRead \/ Rest[1].part = 1 => Completes \/ Collects
         /\ ~opened => wire' = wire /\ peer' = peer
         /\ \/ peer'.got = peer.got
            \/ /\ Completes /\ opened
               /\ Extends(peer'.got, peer.got, Packet(Rest[1].of))
<1>1. /\ AreEmitted /\ RestKept /\ PeerKept /\ WireKept
  BY DEF OutwardInv
<1>2. /\ Rest # <<>> /\ IsUsers(Rest[1])
      /\ opened => /\ Wrote(Rest[1].of, Rest[1].part, Rest[1].part)
                   /\ peer' = ReadFrame(peer, Rest[1].frame)
      /\ ~opened => wire' = wire /\ peer' = peer
  BY <1>1, SendWrites
<1>3. opened => /\ Completes \/ Collects \/ Drops
                /\ HalfRead \/ Rest[1].part = 1 => Completes \/ Collects
  BY <1>1, <1>2, SendReads
<1>4. Collects => peer'.got = peer.got
  BY DEF Collects
<1>5. Drops => peer'.got = peer.got
  BY DEF Drops
<1>6. Completes => Extends(peer'.got, peer.got, Packet(Rest[1].of))
  <2>1. IsSequence(peer.got)
    BY <1>1 DEF PeerKept
  <2> DEFINE x == Packet(Rest[1].of)
  <2> HIDE DEF x
  <2>2. SUFFICES ASSUME Completes PROVE Extends(peer'.got, peer.got, x)
    BY DEF x
  <2>3. peer'.got = peer.got \o <<x>>
    BY <2>2 DEF Completes, x
  <2>4. peer'.got = Append(peer.got, x)
    BY <2>1, <2>3, SequenceAppend
  <2> QED BY <2>1, <2>4, AppendIs
<1> QED BY <1>2, <1>3, <1>4, <1>5, <1>6

(* NetSends: what the server gets is the user's packet, after those it has *)
(* got and before those to come.                                           *)
LEMMA SendsGot ==
  ASSUME OutwardInv, opened \in BOOLEAN, NetSends
  PROVE  GotIsEmitted' /\ GotInOrder' /\ GotBefore'
<1> DEFINE e == Rest[1].of
<1>1. /\ AreEmitted /\ RestKept /\ GotBefore /\ GotIsEmitted /\ GotInOrder
  BY DEF OutwardInv
<1>2. emitted' = emitted
  BY SendsSame
<1>3. \A n : Packet(n)' = Packet(n)
  BY <1>2 DEF Packet
<1>4. /\ 1 \in DOMAIN Rest /\ e \in DOMAIN emitted /\ emitted[e].thread = "user"
      /\ e \in Nat /\ IsSequence(Rest')
      /\ Rest' # <<>> <=> 1 \in DOMAIN Rest'
      /\ Rest' # <<>> => Follows(Rest[1], Rest'[1])
      /\ \A j \in DOMAIN Rest' : /\ j + 1 \in DOMAIN Rest /\ Rest'[j] = Rest[j + 1]
                                 /\ Rest'[1].of <= Rest'[j].of
  BY <1>1, NextFrames
<1> HIDE DEF e
<1>5. \A i \in DOMAIN peer.got : \A n \in DOMAIN emitted : \A j \in DOMAIN Rest :
        /\ peer.got[i] = Packet(n) /\ emitted[n].thread = "user"
        /\ emitted[n].packet.message # NoMessage
        => n < Rest[j].of
  BY <1>1 DEF GotBefore
<1>6. CASE peer'.got = peer.got
  <2>1. GotIsEmitted'
    BY <1>1, <1>2, <1>3, <1>6 DEF GotIsEmitted
  <2>2. GotInOrder'
    BY <1>1, <1>2, <1>3, <1>6 DEF GotInOrder
  <2>3. GotBefore'
    <3>1. SUFFICES ASSUME NEW i \in DOMAIN peer.got, NEW n \in DOMAIN emitted,
                          NEW j \in DOMAIN Rest', peer.got[i] = Packet(n),
                          emitted[n].thread = "user",
                          emitted[n].packet.message # NoMessage
                   PROVE  n < Rest'[j].of
      BY <1>2, <1>3, <1>6 DEF GotBefore
    <3>2. j + 1 \in DOMAIN Rest /\ Rest'[j] = Rest[j + 1]
      BY <1>4
    <3> QED BY <1>5, <3>1, <3>2
  <2> QED BY <2>1, <2>2, <2>3
<1>7. CASE Completes /\ Extends(peer'.got, peer.got, Packet(e))
  <2> DEFINE got == peer.got
             new == peer'.got
             N == Len(got) + 1
  <2>1. Rest[1].part = Size(e)
    BY <1>7 DEF Completes, e
  <2>2. /\ Len(got) \in Nat /\ DOMAIN got = 1..Len(got) /\ DOMAIN new = 1..N
        /\ \A i \in 1..Len(got) : new[i] = got[i]
        /\ new[N] = Packet(e)
    BY <1>7 DEF Extends
  <2> HIDE DEF got, new, N
  <2>3. N \in Nat /\ N \notin DOMAIN got /\ \A i \in DOMAIN new : i = N \/ i \in DOMAIN got
    BY <2>2 DEF N
  <2>4. \A i \in DOMAIN got : new[i] = got[i] /\ i < N
    BY <2>2 DEF N
  <2>5. GotIsEmitted'
    <3>1. SUFFICES ASSUME NEW i \in DOMAIN new
                   PROVE  \E n \in DOMAIN emitted : new[i] = Packet(n)
      BY <1>2, <1>3 DEF GotIsEmitted, new
    <3>2. CASE i = N
      BY <1>4, <2>2, <3>2
    <3>3. CASE i \in DOMAIN got
      BY <1>1, <2>4, <3>3 DEF GotIsEmitted, got
    <3> QED BY <2>3, <3>2, <3>3
  <2>6. GotInOrder'
    <3>1. SUFFICES ASSUME NEW i \in DOMAIN new, NEW j \in DOMAIN new,
                          NEW n \in DOMAIN emitted, NEW m \in DOMAIN emitted,
                          i < j, new[i] = Packet(n), new[j] = Packet(m),
                          emitted[n].thread = emitted[m].thread,
                          emitted[n].packet.message # NoMessage,
                          emitted[m].packet.message # NoMessage
                   PROVE  n < m
      BY <1>2, <1>3 DEF GotInOrder, new
    <3>2. i \in DOMAIN got
      BY <2>2, <2>3, <2>4, <3>1 DEF N
    <3>3. CASE j \in DOMAIN got
      BY <1>1, <2>4, <3>1, <3>2, <3>3 DEF GotInOrder, got
    <3>4. CASE j = N
      <4>1. Packet(m) = Packet(e)
        BY <2>2, <3>1, <3>4
      <4>2. m = e
        BY <1>1, <1>4, <3>1, <4>1, SamePacket
      <4>3. emitted[n].thread = "user" /\ got[i] = Packet(n)
        BY <1>4, <2>4, <3>1, <3>2, <4>2
      <4> QED BY <1>4, <1>5, <3>1, <3>2, <4>2, <4>3 DEF got, e
    <3> QED BY <2>3, <3>3, <3>4
  <2>7. GotBefore'
    <3>1. SUFFICES ASSUME NEW i \in DOMAIN new, NEW n \in DOMAIN emitted,
                          NEW j \in DOMAIN Rest', new[i] = Packet(n),
                          emitted[n].thread = "user",
                          emitted[n].packet.message # NoMessage
                   PROVE  n < Rest'[j].of
      BY <1>2, <1>3 DEF GotBefore, new
    <3>2. j + 1 \in DOMAIN Rest /\ Rest'[j] = Rest[j + 1] /\ Rest'[1].of <= Rest'[j].of
      BY <1>4
    <3>3. CASE i \in DOMAIN got
      BY <1>5, <2>4, <3>1, <3>2, <3>3 DEF got
    <3>4. CASE i = N
      <4>1. Packet(n) = Packet(e)
        BY <2>2, <3>1, <3>4
      <4>2. n = e
        BY <1>1, <1>4, <3>1, <4>1, SamePacket
      <4>3. Rest' # <<>>
        BY <3>1
      <4>4. Rest'[1].of > e
        <5>1. Follows(Rest[1], Rest'[1])
          BY <1>4, <4>3
        <5>2. Size(e) \in Nat
          BY <1>1, <1>4, EmittedPacket
        <5> QED BY <2>1, <5>1, <5>2 DEF Follows, e
      <4>5. Rest'[1].of \in Nat /\ Rest'[j].of \in Nat
        <5>1. 1 \in DOMAIN Rest'
          BY <1>4, <4>3
        <5>2. 1 + 1 \in DOMAIN Rest /\ Rest'[1] = Rest[1 + 1]
          BY <1>4, <5>1
        <5>3. IsUsers(Rest[1 + 1]) /\ IsUsers(Rest[j + 1])
          BY <1>1, <3>2, <5>2 DEF RestKept
        <5>4. Rest[1 + 1].of \in DOMAIN emitted /\ Rest[j + 1].of \in DOMAIN emitted
          BY <5>3 DEF IsUsers
        <5>5. DOMAIN emitted \subseteq Nat
          BY <1>1, EmittedIs
        <5> QED BY <3>2, <5>2, <5>4, <5>5
      <4> QED BY <1>4, <3>2, <4>2, <4>4, <4>5
    <3> QED BY <2>3, <3>3, <3>4
  <2> QED BY <2>5, <2>6, <2>7
<1>8. peer'.got = peer.got \/ (Completes /\ Extends(peer'.got, peer.got, Packet(e)))
  BY SendsOutcome DEF e
<1> QED BY <1>6, <1>7, <1>8

(* NetSends: one frame more is written.                                    *)
LEMMA SendsWrote ==
  ASSUME OutwardInv, opened, NetSends
  PROVE  /\ Len(wire) \in Nat /\ DOMAIN wire = 1..Len(wire) /\ IsSequence(wire')
         /\ Len(wire') = Len(wire) + 1 /\ DOMAIN wire' = 1..Len(wire) + 1
         /\ \A i \in 1..Len(wire) : wire'[i] = wire[i]
         /\ wire'[Len(wire) + 1] =
              [session |-> session, of |-> Rest[1].of, part |-> Rest[1].part]
<1>1. Wrote(Rest[1].of, Rest[1].part, Rest[1].part)
  BY SendsOutcome
<1>2. Rest[1].part \in Nat
  <2>1. Rest[1].part \in 1..Size(Rest[1].of)
    BY NextFrames DEF OutwardInv
  <2> QED BY <2>1
<1>3. Rest[1].part - Rest[1].part + 1 = 1 /\ Rest[1].part \in Rest[1].part..Rest[1].part
  BY <1>2
<1> QED BY <1>1, <1>3 DEF Wrote

(* A packet of which the user's thread has more to send.                   *)
LEMMA HalfNext ==
  ASSUME OutwardInv, NetSends
  PROVE  /\ Rest[1].part < Size(Rest[1].of) => Half'
         /\ Half' => /\ Rest'[1].of = Rest[1].of
                     /\ Rest'[1].part = Rest[1].part + 1
                     /\ Rest[1].part < Size(Rest[1].of)
<1>1. /\ Rest[1].part \in 1..Size(Rest[1].of) /\ Size(Rest[1].of) \in Nat \ {0}
      /\ Rest' # <<>> => Follows(Rest[1], Rest'[1])
      /\ Rest' = <<>> => Rest[1].part = Size(Rest[1].of)
  BY NextFrames DEF OutwardInv
<1>2. Half' <=> Rest' # <<>> /\ Rest'[1].part > 1
  BY DEF Half
<1> QED BY <1>1, <1>2 DEF Follows

(* NetSends: a frame that was collected leaves the packet half read.       *)
LEMMA SendsCollects ==
  ASSUME OutwardInv, NetSends, Collects
  PROVE  HalfRead'
<1>1. /\ Half' /\ Rest'[1].of = Rest[1].of /\ Rest'[1].part = Rest[1].part + 1
  BY HalfNext DEF Collects
<1>2. Rest[1].part \in Nat
  <2>1. Rest[1].part \in 1..Size(Rest[1].of)
    BY NextFrames DEF OutwardInv
  <2> QED BY <2>1
<1>3. Rest'[1].part - 1 = Rest[1].part
  BY <1>1, <1>2
<1>4. emitted' = emitted
  BY SendsSame
<1>5. peer'.partial = <<After(emitted[Rest[1].of].packet, Rest[1].part)>>
  BY DEF Collects
<1> QED BY <1>1, <1>3, <1>4, <1>5 DEF HalfRead

(* NetSends: what the server keeps.                                        *)
LEMMA SendsPeer ==
  ASSUME OutwardInv, opened \in BOOLEAN, NetSends
  PROVE  PeerKept' /\ (peer'.partial # NoPartial => Waits(peer'.partial))
<1>1. opened' = opened /\ emitted' = emitted
  BY SendsSame
<1>2. AreEmitted /\ RestKept /\ PeerKept
  BY DEF OutwardInv
<1>3. IsSequence(peer'.got)
  BY <1>2, SendsOutcome DEF PeerKept, Extends
<1>4. CASE opened /\ Collects
  <2>1. HalfRead'
    BY <1>4, SendsCollects
  <2>2. peer' = [partial |-> peer'.partial, got |-> peer'.got]
    BY <1>4 DEF Collects
  <2>3. Waits(peer'.partial)
    <3> DEFINE k == Rest[1].part
               p == emitted[Rest[1].of].packet
    <3>1. k \in 1..Size(Rest[1].of) /\ Rest[1].of \in DOMAIN emitted
      BY <1>2, NextFrames
    <3>2. IsPacket(p) /\ Size(Rest[1].of) = Parts(p) /\ Parts(p) \in Nat \ {0}
      BY <1>2, <3>1, EmittedPacket
    <3>3. peer'.partial = <<After(p, k)>> /\ k < Size(Rest[1].of)
      BY <1>4 DEF Collects
    <3> HIDE DEF k, p
    <3>4. k \in 1..Parts(p) - 1
      BY <3>1, <3>2, <3>3
    <3> QED BY <3>2, <3>3, <3>4, WaitsAfter
  <2> QED BY <1>3, <2>1, <2>2, <2>3 DEF PeerKept
<1>5. CASE opened /\ (Completes \/ Drops)
  <2>1. peer' = [partial |-> peer'.partial, got |-> peer'.got] /\ peer'.partial = NoPartial
    BY <1>2, <1>5 DEF Completes, Drops, PeerKept
  <2> QED BY <1>3, <2>1 DEF PeerKept
<1>6. CASE ~opened
  <2>1. peer' = peer
    BY <1>6, SendsOutcome
  <2>2. peer' = [partial |-> peer'.partial, got |-> peer'.got]
    BY <1>2, <2>1 DEF PeerKept
  <2>3. PeerKept'
    BY <1>1, <1>3, <1>6, <2>2 DEF PeerKept
  <2> QED BY <2>1, <2>3 DEF OutwardInv
<1> QED BY <1>4, <1>5, <1>6, SendsOutcome

(* NetSends: what is known of a packet half written.                       *)
LEMMA SendsHalf ==
  ASSUME OutwardInv, opened \in BOOLEAN, NetSends
  PROVE  HalfKept' /\ HalfTorn'
<1> DEFINE e == Rest[1]
<1>1. opened' = opened /\ emitted' = emitted /\ session' = session
  BY SendsSame
<1>2. \A n : (HasData(n)' <=> HasData(n))
  BY <1>1 DEF HasData, Size
<1>3. e.part \in Nat \ {0}
  <2>1. e.part \in 1..Size(e.of)
    BY NextFrames DEF OutwardInv
  <2> QED BY <2>1
<1>4. SUFFICES ASSUME opened, Half' PROVE HalfKept' /\ HalfTorn'
  BY <1>1 DEF HalfKept, HalfTorn
<1>5. /\ Rest'[1].of = e.of /\ Rest'[1].part = e.part + 1 /\ e.part < Size(e.of)
  BY <1>4, HalfNext
<1>6. /\ Len(wire) \in Nat /\ DOMAIN wire = 1..Len(wire)
      /\ Len(wire') = Len(wire) + 1 /\ DOMAIN wire' = 1..Len(wire) + 1
      /\ \A i \in 1..Len(wire) : wire'[i] = wire[i]
      /\ wire'[Len(wire) + 1] = [session |-> session, of |-> e.of, part |-> e.part]
  BY <1>4, SendsWrote
<1>7. /\ Collects \/ Completes \/ Drops
      /\ HalfRead \/ e.part = 1 => Completes \/ Collects
  BY <1>4, SendsOutcome
<1>8. ~Completes
  BY <1>3, <1>5 DEF Completes
<1>9. Half <=> e.part > 1
  <2>1. Rest # <<>>
    <3>1. 1 \in DOMAIN Rest
      BY NextFrames DEF OutwardInv
    <3> QED BY <3>1
  <2> QED BY <2>1 DEF Half
<1>10. \A i : Begun(i) <=> wire[i] = [session |-> session, of |-> e.of, part |-> 1]
  BY DEF Begun
<1>11. \A i : Begun(i)' <=> wire'[i] = [session |-> session, of |-> e.of, part |-> 1]
  BY <1>1, <1>5 DEF Begun
<1> HIDE DEF e
<1>12. HalfKept'
  <2>1. CASE Collects
    <3>1. HalfRead'
      BY <2>1, SendsCollects
    <3> QED BY <3>1 DEF HalfKept
  <2>2. CASE ~Collects
    <3>1. ~HalfRead /\ e.part # 1
      BY <1>7, <1>8, <2>2
    <3>2. Half
      BY <1>3, <1>9, <3>1
    <3>3. SUFFICES ASSUME NEW first \in DOMAIN wire', Begun(first)'
                   PROVE  \E i \in first..Len(wire') :
                            /\ HasData(wire[i].of)'
                            /\ emitted'[wire'[i].of].thread = "net"
      BY DEF HalfKept
    <3>4. wire'[first] = [session |-> session, of |-> e.of, part |-> 1]
      BY <1>11, <3>3
    <3>5. first # Len(wire) + 1
      BY <1>6, <3>1, <3>4
    <3>6. first \in DOMAIN wire /\ wire'[first] = wire[first]
      BY <1>6, <3>3, <3>5
    <3>7. Begun(first)
      BY <1>10, <3>4, <3>6
    <3>8. PICK i \in first..Len(wire) :
            HasData(wire[i].of) /\ emitted[wire[i].of].thread = "net"
      BY <1>4, <3>1, <3>2, <3>6, <3>7 DEF OutwardInv, HalfKept
    <3>9. i \in first..Len(wire') /\ wire'[i] = wire[i]
      BY <1>6, <3>6, <3>8
    <3>10. HasData(wire[i].of)'
      <4> DEFINE m == wire[i].of
      <4>1. HasData(m) /\ wire'[i].of = m
        BY <3>8, <3>9
      <4> HIDE DEF m
      <4>2. Len(Buffers(emitted[m].packet.message)) =
              Len(Buffers(emitted'[m].packet.message))
        BY <1>1
      <4> QED BY <1>1, <4>1 DEF HasData, Size
    <3>11. emitted'[wire'[i].of].thread = "net"
      BY <1>1, <3>8, <3>9
    <3> QED BY <3>9, <3>10, <3>11
  <2> QED BY <2>1, <2>2
<1>13. HalfTorn'
  <2>1. CASE e.part = 1
    <3>1. PICK k \in DOMAIN wire' : k = Len(wire) + 1
      BY <1>6
    <3>2. Begun(k)'
      BY <1>6, <1>11, <2>1, <3>1
    <3> QED BY <3>2 DEF HalfTorn
  <2>2. CASE e.part # 1
    <3>1. Half
      BY <1>3, <1>9, <2>2
    <3>2. \/ emitted[e.of].session < session
          \/ \E first \in DOMAIN wire : Begun(first)
      BY <1>4, <3>1 DEF OutwardInv, HalfTorn, e
    <3>3. CASE emitted[e.of].session < session
      BY <1>1, <1>5, <3>3 DEF HalfTorn
    <3>4. CASE \E first \in DOMAIN wire : Begun(first)
      <4>1. PICK first \in DOMAIN wire : Begun(first)
        BY <3>4
      <4>2. first \in DOMAIN wire' /\ wire'[first] = wire[first]
        BY <1>6, <4>1
      <4>3. Begun(first)'
        BY <1>10, <1>11, <4>1, <4>2
      <4> QED BY <4>2, <4>3 DEF HalfTorn
    <3> QED BY <3>2, <3>3, <3>4
  <2> QED BY <2>1, <2>2
<1> QED BY <1>12, <1>13

(* Whether a packet has data does not change.                              *)
LEMMA SameData ==
  ASSUME NEW i, NEW m, wire'[i].of = m, emitted'[m] = emitted[m]
  PROVE  HasData(wire[i].of)' <=> HasData(m)
<1>1. Len(Buffers(emitted[m].packet.message)) = Len(Buffers(emitted'[m].packet.message))
  OBVIOUS
<1> QED BY <1>1 DEF HasData, Size

(* What was written and got stays written and got.                         *)
LEMMA WireGrows ==
  ASSUME WireKept, IsSequence(wire'), session \in Nat, session' = session,
         DOMAIN wire \subseteq DOMAIN wire',
         \A i \in DOMAIN wire : wire'[i] = wire[i],
         \A n \in DOMAIN emitted : n \in DOMAIN emitted',
         \A i \in DOMAIN wire' \ DOMAIN wire :
           \E n \in DOMAIN emitted', k \in Nat \ {0} :
             wire'[i] = [session |-> session, of |-> n, part |-> k]
  PROVE  WireKept'
<1> DEFINE S == [session : 0..session, of : DOMAIN emitted', part : Nat \ {0}]
<1>1. ASSUME NEW i \in DOMAIN wire' PROVE wire'[i] \in S
  <2>1. CASE i \in DOMAIN wire
    <3>1. wire[i] \in [session : 0..session, of : DOMAIN emitted, part : Nat \ {0}]
      BY <2>1, ElementIn, Zenon DEF WireKept
    <3> QED BY <2>1, <3>1
  <2>2. CASE i \notin DOMAIN wire
    <3>1. PICK n \in DOMAIN emitted', k \in Nat \ {0} :
            wire'[i] = [session |-> session, of |-> n, part |-> k]
      BY <1>1, <2>2
    <3>2. session \in 0..session
      OBVIOUS
    <3> QED BY <3>1, <3>2
  <2> QED BY <2>1, <2>2
<1> HIDE DEF S
<1>2. wire' \in Seq(S)
  BY <1>1, SequenceIn
<1> QED BY <1>2 DEF WireKept, S

(* What is known of a frame that was written.                              *)
LEMMA WireAt ==
  ASSUME WireKept, NEW i \in DOMAIN wire
  PROVE  /\ wire[i].of \in DOMAIN emitted /\ wire[i].session \in 0..session
         /\ wire[i].part \in Nat \ {0}
         /\ wire[i] = [session |-> wire[i].session, of |-> wire[i].of,
                       part |-> wire[i].part]
<1>1. wire[i] \in [session : 0..session, of : DOMAIN emitted, part : Nat \ {0}]
  BY ElementIn, Zenon DEF WireKept
<1> QED BY <1>1

(* What the server got stays got.                                          *)
LEMMA GotStays ==
  ASSUME NEW n \in DOMAIN emitted, emitted'[n] = emitted[n], Got(n),
         \A i \in DOMAIN peer.got : i \in DOMAIN peer'.got /\ peer'.got[i] = peer.got[i]
  PROVE  Got(n)'
<1>1. PICK i \in DOMAIN peer.got : peer.got[i] = Packet(n)
  BY DEF Got
<1>2. i \in DOMAIN peer'.got /\ peer'.got[i] = Packet(n)
  BY <1>1
<1>3. Packet(n)' = Packet(n)
  BY OldPacket
<1> QED BY <1>2, <1>3 DEF Got

(* A packet written to its last frame before the step.                     *)
LEMMA OldLoss ==
  ASSUME AreEmitted, WireKept, LossNeedsOverlap, session' = session,
         \A n \in DOMAIN emitted : n \in DOMAIN emitted' /\ emitted'[n] = emitted[n],
         \A i \in DOMAIN wire : i \in DOMAIN wire' /\ wire'[i] = wire[i],
         \A i \in DOMAIN peer.got : i \in DOMAIN peer'.got /\ peer'.got[i] = peer.got[i],
         DOMAIN wire' \subseteq Nat \ {0},
         NEW first \in DOMAIN wire', NEW last \in DOMAIN wire,
         NEW n \in DOMAIN emitted', Written(n, first, last)'
  PROVE  \/ Got(n)'
         \/ \E i \in first..last :
              /\ HasData(n)' /\ emitted'[n].thread = "user"
              /\ HasData(wire[i].of)' /\ emitted'[wire'[i].of].thread = "net"
<1>1. /\ first <= last
      /\ wire'[first] = [session |-> session, of |-> n, part |-> 1]
      /\ wire'[last] = [session |-> session, of |-> n, part |-> Size(n)']
  BY DEF Written
<1>2. Len(wire) \in Nat /\ DOMAIN wire = 1..Len(wire)
  BY WireIs
<1>3. first \in DOMAIN wire
  BY <1>1, <1>2
<1>4. wire'[first] = wire[first] /\ wire'[last] = wire[last]
  BY <1>3
<1>5. n \in DOMAIN emitted
  <2>1. wire[last].of \in DOMAIN emitted
    BY WireAt
  <2>2. wire[last].of = n
    BY <1>1, <1>4
  <2> QED BY <2>1, <2>2
<1>6. emitted'[n] = emitted[n]
  BY <1>5
<1>7. Size(n)' = Size(n) /\ HasData(n)' = HasData(n)
  BY <1>6, OldPacket
<1>8. Written(n, first, last)
  BY <1>1, <1>4, <1>7 DEF Written
<1>9. CASE Got(n)
  BY <1>5, <1>6, <1>9, GotStays
<1>10. CASE ~Got(n)
  <2>1. PICK i \in first..last : LET m == wire[i].of IN
          /\ HasData(n) /\ emitted[n].thread = "user"
          /\ HasData(m) /\ emitted[m].thread = "net"
    BY <1>3, <1>5, <1>8, <1>10 DEF LossNeedsOverlap
  <2>2. i \in DOMAIN wire
    BY <1>2, <1>3, <2>1
  <2>3. PICK m : m = wire[i].of
    OBVIOUS
  <2>4. m \in DOMAIN emitted
    BY <2>2, <2>3, WireAt
  <2>5. wire'[i].of = m /\ emitted'[m] = emitted[m]
    BY <2>2, <2>3, <2>4
  <2>6. HasData(wire[i].of)'
    BY <2>1, <2>3, <2>5, SameData
  <2> QED BY <1>6, <1>7, <2>1, <2>3, <2>5, <2>6
<1> QED BY <1>9, <1>10

(* A data frame written before the step.                                   *)
LEMMA OldTorn ==
  ASSUME AreEmitted, WireKept, TornNeedsReconnect, session' = session,
         \A n \in DOMAIN emitted : n \in DOMAIN emitted' /\ emitted'[n] = emitted[n],
         \A i \in DOMAIN wire : i \in DOMAIN wire' /\ wire'[i] = wire[i],
         NEW i \in DOMAIN wire, wire'[i].part > 1
  PROVE  \/ emitted'[wire'[i].of].session < wire'[i].session
         \/ \E j \in 1..i - 1 : wire'[j] = [wire'[i] EXCEPT !.part = 1]
<1>1. wire'[i] = wire[i] /\ wire[i].of \in DOMAIN emitted
  BY WireAt
<1>2. emitted'[wire'[i].of] = emitted[wire[i].of]
  BY <1>1
<1>3. CASE emitted[wire[i].of].session < wire[i].session
  BY <1>1, <1>2, <1>3
<1>4. CASE \E j \in 1..i - 1 : wire[j] = [wire[i] EXCEPT !.part = 1]
  <2>1. PICK j \in 1..i - 1 : wire[j] = [wire[i] EXCEPT !.part = 1]
    BY <1>4
  <2>2. Len(wire) \in Nat /\ DOMAIN wire = 1..Len(wire)
    BY WireIs
  <2>3. wire'[j] = wire[j]
    BY <2>1, <2>2
  <2> QED BY <1>1, <2>1, <2>3
<1> QED BY <1>1, <1>3, <1>4 DEF TornNeedsReconnect

(* A step that writes nothing.                                             *)
LEMMA WireStays ==
  ASSUME AreEmitted, WireKept, LossNeedsOverlap, TornNeedsReconnect,
         session \in Nat, session' = session, wire' = wire, peer' = peer,
         \A n \in DOMAIN emitted : n \in DOMAIN emitted' /\ emitted'[n] = emitted[n]
  PROVE  WireKept' /\ LossNeedsOverlap' /\ TornNeedsReconnect'
<1>1. IsSequence(wire) /\ Len(wire) \in Nat /\ DOMAIN wire = 1..Len(wire)
  BY WireIs
<1>2. WireKept'
  BY <1>1, WireGrows
<1>3. LossNeedsOverlap'
  <2>1. SUFFICES ASSUME NEW first \in DOMAIN wire', NEW last \in DOMAIN wire',
                        NEW n \in DOMAIN emitted', Written(n, first, last)'
                 PROVE  \/ Got(n)'
                        \/ \E i \in first..last :
                             /\ HasData(n)' /\ emitted'[n].thread = "user"
                             /\ HasData(wire[i].of)'
                             /\ emitted'[wire'[i].of].thread = "net"
    BY DEF LossNeedsOverlap
  <2>2. DOMAIN wire' \subseteq Nat \ {0} /\ last \in DOMAIN wire
    BY <1>1
  <2>3. \A i \in DOMAIN wire : i \in DOMAIN wire' /\ wire'[i] = wire[i]
    OBVIOUS
  <2>4. \A i \in DOMAIN peer.got : i \in DOMAIN peer'.got /\ peer'.got[i] = peer.got[i]
    OBVIOUS
  <2> QED BY <2>1, <2>2, <2>3, <2>4, OldLoss
<1>4. TornNeedsReconnect'
  <2>1. SUFFICES ASSUME NEW i \in DOMAIN wire, wire'[i].part > 1
                 PROVE  \/ emitted'[wire'[i].of].session < wire'[i].session
                        \/ \E j \in 1..i - 1 : wire'[j] = [wire'[i] EXCEPT !.part = 1]
    BY DEF TornNeedsReconnect
  <2>2. \A j \in DOMAIN wire : j \in DOMAIN wire' /\ wire'[j] = wire[j]
    OBVIOUS
  <2> QED BY <2>1, <2>2, OldTorn
<1> QED BY <1>2, <1>3, <1>4

(* NetSends: lost only by an overlap, torn only by a reconnection.         *)
LEMMA SendsWire ==
  ASSUME OutwardInv, opened \in BOOLEAN, session \in Nat, NetSends
  PROVE  WireKept' /\ LossNeedsOverlap' /\ TornNeedsReconnect'
<1> DEFINE e == Rest[1]
           L == Len(wire) + 1
<1>1. opened' = opened /\ emitted' = emitted /\ session' = session
  BY SendsSame
<1>2. /\ AreEmitted /\ RestKept /\ WireKept /\ HalfKept /\ HalfTorn
      /\ LossNeedsOverlap /\ TornNeedsReconnect
  BY DEF OutwardInv
<1>3. CASE ~opened
  <2>1. wire' = wire /\ peer' = peer
    BY <1>3, SendsOutcome
  <2> QED BY <1>1, <1>2, <2>1, WireStays
<1>4. CASE opened
  <2>1. /\ Len(wire) \in Nat /\ DOMAIN wire = 1..Len(wire) /\ IsSequence(wire')
        /\ DOMAIN wire' = 1..L /\ L \in Nat \ {0} /\ L \notin DOMAIN wire
        /\ \A i \in DOMAIN wire' : i = L \/ i \in DOMAIN wire
        /\ \A i \in DOMAIN wire : i \in DOMAIN wire' /\ wire'[i] = wire[i] /\ i < L
        /\ wire'[L] = [session |-> session, of |-> e.of, part |-> e.part]
    BY <1>4, SendsWrote
  <2>2. /\ e.of \in DOMAIN emitted /\ emitted[e.of].thread = "user"
        /\ e.part \in 1..Size(e.of) /\ Size(e.of) \in Nat \ {0}
        /\ 1 \in DOMAIN Rest
    BY <1>2, NextFrames
  <2>3. /\ Collects \/ Completes \/ Drops
        /\ HalfRead \/ e.part = 1 => Completes \/ Collects
    BY <1>4, SendsOutcome
  <2>4. \A i \in DOMAIN peer.got : i \in DOMAIN peer'.got /\ peer'.got[i] = peer.got[i]
    BY SendsOutcome DEF Extends
  <2>5. Half <=> e.part > 1
    <3>1. Rest # <<>>
      BY <2>2
    <3> QED BY <3>1 DEF Half
  <2>6. \A i : Begun(i) <=> wire[i] = [session |-> session, of |-> e.of, part |-> 1]
    BY DEF Begun
  <2> HIDE DEF e, L
  <2>7. e.part \in Nat \ {0}
    BY <2>2
  <2>8. WireKept'
    <3>1. \A i \in DOMAIN wire' \ DOMAIN wire :
            wire'[i] = [session |-> session, of |-> e.of, part |-> e.part]
      BY <2>1
    <3>2. \A i \in DOMAIN wire' \ DOMAIN wire :
            \E n \in DOMAIN emitted', k \in Nat \ {0} :
              wire'[i] = [session |-> session, of |-> n, part |-> k]
      BY <1>1, <2>2, <2>7, <3>1
    <3>3. DOMAIN wire \subseteq DOMAIN wire'
      BY <2>1
    <3> QED BY <1>1, <1>2, <2>1, <3>2, <3>3, WireGrows
  <2>9. LossNeedsOverlap'
    <3>1. SUFFICES ASSUME NEW first \in DOMAIN wire', NEW last \in DOMAIN wire',
                          NEW n \in DOMAIN emitted', Written(n, first, last)'
                   PROVE  \/ Got(n)'
                          \/ \E i \in first..last :
                               /\ HasData(n)' /\ emitted'[n].thread = "user"
                               /\ HasData(wire[i].of)'
                               /\ emitted'[wire'[i].of].thread = "net"
      BY DEF LossNeedsOverlap
    <3>2. CASE last \in DOMAIN wire
      <4>1. DOMAIN wire' \subseteq Nat \ {0}
        BY <2>1
      <4> QED BY <1>1, <1>2, <2>1, <2>4, <3>1, <3>2, <4>1, OldLoss
    <3>3. CASE last = L
      <4>1. /\ first <= last
            /\ wire'[first] = [session |-> session, of |-> n, part |-> 1]
            /\ wire'[last] = [session |-> session, of |-> n, part |-> Size(n)]
        <5>1. Size(n)' = Size(n)
          BY <1>1 DEF Size
        <5> QED BY <1>1, <3>1, <5>1 DEF Written
      <4>2. n = e.of /\ Size(n) = e.part
        BY <2>1, <3>3, <4>1
      <4>3. CASE Completes
        <5>1. Extends(peer'.got, peer.got, Packet(e.of)) \/ peer'.got = peer.got
          BY SendsOutcome DEF e
        <5>2. peer'.got = peer.got \o <<Packet(e.of)>>
          BY <4>3 DEF Completes, e
        <5>3. IsSequence(peer.got)
          BY DEF OutwardInv, PeerKept
        <5>4. PICK x : x = Packet(e.of)
          OBVIOUS
        <5>5. peer'.got = Append(peer.got, x)
          BY <5>2, <5>3, <5>4, SequenceAppend
        <5>6. Extends(peer'.got, peer.got, x)
          BY <5>3, <5>5, AppendIs
        <5>7. PICK i \in DOMAIN peer'.got : peer'.got[i] = x
          BY <5>6 DEF Extends
        <5>8. Packet(n)' = x
          BY <1>1, <4>2, <5>4 DEF Packet
        <5> QED BY <5>7, <5>8 DEF Got
      <4>4. CASE Collects
        BY <2>2, <4>2, <4>4 DEF Collects, e
      <4>5. CASE ~Completes /\ ~Collects
        <5>1. ~HalfRead /\ e.part # 1
          BY <2>3, <4>5
        <5>2. Half
          BY <2>5, <2>7, <5>1
        <5>3. first # L
          BY <2>1, <4>1, <5>1
        <5>4. first \in DOMAIN wire /\ wire'[first] = wire[first]
          BY <2>1, <5>3
        <5>5. Begun(first)
          BY <2>6, <4>1, <4>2, <5>4
        <5>6. PICK i \in first..Len(wire) :
                HasData(wire[i].of) /\ emitted[wire[i].of].thread = "net"
          BY <1>2, <1>4, <5>1, <5>2, <5>4, <5>5 DEF HalfKept
        <5>7. i \in DOMAIN wire /\ i \in first..last
          BY <2>1, <3>3, <5>4, <5>6 DEF L
        <5>8. PICK m : m = wire[i].of
          OBVIOUS
        <5>9. wire'[i].of = m /\ emitted'[m] = emitted[m]
          BY <1>1, <2>1, <5>7, <5>8
        <5>10. HasData(wire[i].of)' /\ emitted'[wire'[i].of].thread = "net"
          BY <5>6, <5>8, <5>9, SameData
        <5>11. HasData(n)
          BY <2>7, <4>2, <5>1 DEF HasData
        <5>12. HasData(n)' /\ emitted'[n].thread = "user"
          BY <1>1, <2>2, <4>2, <5>11 DEF HasData, Size
        <5> QED BY <5>7, <5>10, <5>12
      <4> QED BY <4>3, <4>4, <4>5
    <3> QED BY <2>1, <3>2, <3>3
  <2>10. TornNeedsReconnect'
    <3>1. SUFFICES ASSUME NEW i \in DOMAIN wire', wire'[i].part > 1
                   PROVE  \/ emitted'[wire'[i].of].session < wire'[i].session
                          \/ \E j \in 1..i - 1 : wire'[j] = [wire'[i] EXCEPT !.part = 1]
      BY DEF TornNeedsReconnect
    <3>2. CASE i \in DOMAIN wire
      BY <1>1, <1>2, <2>1, <3>1, <3>2, OldTorn
    <3>3. CASE i = L
      <4>1. /\ wire'[i] = [session |-> session, of |-> e.of, part |-> e.part]
            /\ e.part > 1
        BY <2>1, <3>1, <3>3
      <4>2. Half
        BY <2>5, <4>1
      <4>3. \/ emitted[e.of].session < session
            \/ \E first \in DOMAIN wire : Begun(first)
        BY <1>2, <1>4, <4>2 DEF HalfTorn, e
      <4>4. CASE emitted[e.of].session < session
        BY <1>1, <4>1, <4>4
      <4>5. CASE \E first \in DOMAIN wire : Begun(first)
        <5>1. PICK first \in DOMAIN wire : Begun(first)
          BY <4>5
        <5>2. wire'[first] = [session |-> session, of |-> e.of, part |-> 1]
          BY <2>1, <2>6, <5>1
        <5>3. first \in 1..i - 1
          BY <2>1, <3>3, <5>1
        <5>4. [wire'[i] EXCEPT !.part = 1] =
                [session |-> session, of |-> e.of, part |-> 1]
          BY <4>1
        <5> QED BY <5>2, <5>3, <5>4
      <4> QED BY <4>3, <4>4, <4>5
    <3> QED BY <2>1, <3>2, <3>3
  <2> QED BY <2>8, <2>9, <2>10
<1> QED BY <1>3, <1>4

(* NetSends keeps the outward part of the invariant.                       *)
LEMMA OutwardNetSends ==
  ASSUME OutwardInv, opened \in BOOLEAN, session \in Nat, NetSends
  PROVE  OutwardInv'
BY SendsEmitted, SendsRest, SendsGot, SendsPeer, SendsHalf, SendsWire DEF OutwardInv

(* The calls of send_impl still to run, in a step that leaves them.        *)
LEMMA RestStays ==
  ASSUME AreEmitted, RestKept, posted' = posted, encoding' = encoding,
         \A n \in DOMAIN emitted : n \in DOMAIN emitted' /\ emitted'[n] = emitted[n]
  PROVE  RestKept'
<1>1. Rest' = Rest
  BY DEF Rest
<1>2. \A i \in DOMAIN Rest : IsUsers(Rest[i]) /\ Rest[i].of \in DOMAIN emitted
  BY DEF RestKept, IsUsers
<1>3. \A i \in DOMAIN Rest : emitted'[Rest[i].of] = emitted[Rest[i].of]
                             /\ Rest[i].of \in DOMAIN emitted'
  BY <1>2
<1>4. \A i \in DOMAIN Rest' : IsUsers(Rest[i])'
  <2>1. SUFFICES ASSUME NEW i \in DOMAIN Rest PROVE IsUsers(Rest[i])'
    BY <1>1
  <2>2. IsUsers(Rest[i]) /\ Rest'[i] = Rest[i]
    BY <1>1, <1>2
  <2>3. emitted'[Rest[i].of] = emitted[Rest[i].of] /\ Rest[i].of \in DOMAIN emitted'
    BY <1>3
  <2> QED BY <2>2, <2>3 DEF IsUsers
<1>5. \A i \in DOMAIN Rest' : i + 1 \in DOMAIN Rest' => Follows(Rest[i], Rest[i + 1])'
  <2>1. SUFFICES ASSUME NEW i \in DOMAIN Rest, i + 1 \in DOMAIN Rest
                 PROVE  Follows(Rest[i], Rest[i + 1])'
    BY <1>1
  <2>2. /\ Follows(Rest[i], Rest[i + 1])
        /\ Rest'[i] = Rest[i] /\ Rest'[i + 1] = Rest[i + 1]
    BY <1>1, <2>1 DEF RestKept
  <2>3. emitted'[Rest[i].of] = emitted[Rest[i].of]
    BY <1>3
  <2> QED BY <2>2, <2>3 DEF Follows, Size
<1>6. \A i, j \in DOMAIN Rest' : i <= j => Rest'[i].of <= Rest'[j].of
  BY <1>1 DEF RestKept
<1>7. Rest' # <<>> => Rest'[Len(Rest')].part = Size(Rest[Len(Rest)].of)'
  <2>1. SUFFICES ASSUME Rest # <<>>
                 PROVE  Rest[Len(Rest)].part = Size(Rest[Len(Rest)].of)'
    BY <1>1
  <2>2. Rest[Len(Rest)].part = Size(Rest[Len(Rest)].of)
    BY <2>1 DEF RestKept
  <2>3. Len(Rest) \in DOMAIN Rest
    <3>1. IsSequence(Rest) /\ Len(Rest) \in Nat /\ DOMAIN Rest = 1..Len(Rest)
      BY RestIs
    <3>2. Rest \in Seq({Rest[i] : i \in DOMAIN Rest})
      BY <3>1 DEF IsSequence
    <3> QED BY <2>1, <3>1, <3>2
  <2>4. emitted'[Rest[Len(Rest)].of] = emitted[Rest[Len(Rest)].of]
    BY <1>3, <2>3
  <2> QED BY <1>1, <2>2, <2>4 DEF Size
<1>8. IsSequence(posted') /\ IsSequence(encoding')
  BY DEF RestKept
<1> QED BY <1>4, <1>5, <1>6, <1>7, <1>8 DEF RestKept

(* What the server has got, in a step that gives it nothing.               *)
LEMMA GotKept ==
  ASSUME AreEmitted, AreEmitted', GotIsEmitted, GotInOrder, peer'.got = peer.got,
         \A n \in DOMAIN emitted : n \in DOMAIN emitted' /\ emitted'[n] = emitted[n]
  PROVE  /\ GotIsEmitted' /\ GotInOrder'
         /\ Rest' = Rest /\ GotBefore => GotBefore'
<1> DEFINE got == peer.got
<1>1. \A i \in DOMAIN got, n \in DOMAIN emitted' :
        got[i] = Packet(n)' /\ emitted'[n].packet.message # NoMessage
        => n \in DOMAIN emitted /\ got[i] = Packet(n) /\ emitted'[n] = emitted[n]
  BY OldGot
<1>2. \A n \in DOMAIN emitted : Packet(n)' = Packet(n)
  BY DEF Packet
<1>3. GotIsEmitted'
  <2>1. SUFFICES ASSUME NEW i \in DOMAIN got
                 PROVE  \E n \in DOMAIN emitted' : got[i] = Packet(n)'
    BY DEF GotIsEmitted
  <2> QED BY <1>2 DEF GotIsEmitted
<1>4. GotInOrder'
  <2>1. SUFFICES ASSUME NEW i \in DOMAIN got, NEW j \in DOMAIN got,
                        NEW n \in DOMAIN emitted', NEW m \in DOMAIN emitted',
                        i < j, got[i] = Packet(n)', got[j] = Packet(m)',
                        emitted'[n].thread = emitted'[m].thread,
                        emitted'[n].packet.message # NoMessage,
                        emitted'[m].packet.message # NoMessage
                 PROVE  n < m
    BY DEF GotInOrder
  <2>2. n \in DOMAIN emitted /\ got[i] = Packet(n) /\ emitted'[n] = emitted[n]
    BY <1>1, <2>1
  <2>3. m \in DOMAIN emitted /\ got[j] = Packet(m) /\ emitted'[m] = emitted[m]
    BY <1>1, <2>1
  <2> HIDE DEF got
  <2> QED BY <2>1, <2>2, <2>3 DEF GotInOrder, got
<1>5. ASSUME Rest' = Rest, GotBefore PROVE GotBefore'
  <2>1. SUFFICES ASSUME NEW i \in DOMAIN got, NEW n \in DOMAIN emitted',
                        NEW j \in DOMAIN Rest, got[i] = Packet(n)',
                        emitted'[n].thread = "user",
                        emitted'[n].packet.message # NoMessage
                 PROVE  n < Rest[j].of
    BY <1>5 DEF GotBefore
  <2>2. n \in DOMAIN emitted /\ got[i] = Packet(n) /\ emitted'[n] = emitted[n]
    BY <1>1, <2>1
  <2> QED BY <1>5, <2>1, <2>2 DEF GotBefore
<1> QED BY <1>3, <1>4, <1>5

(* A packet is emitted and written on the network thread.                  *)
LEMMA NetsSame ==
  ASSUME NetEncodes
  PROVE  /\ opened' = opened /\ session' = session
         /\ posted' = posted /\ encoding' = encoding /\ Rest' = Rest
BY DEF NetEncodes, Rest

(* Its outcome, while the connection is open and while it is not.          *)
NetWrote(n, p) ==
  /\ AreEmitted'
  /\ n \notin DOMAIN emitted /\ DOMAIN emitted = 1..n - 1
  /\ DOMAIN emitted' = 1..n /\ n \in Nat \ {0}
  /\ \A m \in DOMAIN emitted : m \in DOMAIN emitted' /\ emitted'[m] = emitted[m]
  /\ emitted'[n].packet = p /\ emitted'[n].thread = "net" /\ IsPacket(p)
  /\ Parts(p) \in Nat \ {0}
  /\ opened =>
       /\ Wrote(n, 1, Parts(p))
       /\ peer'.partial = IF Parts(p) = 1 THEN peer.partial ELSE NoPartial
       /\ peer' = [partial |-> peer'.partial, got |-> peer'.got]
       /\ Extends(peer'.got, peer.got, Accepted(p))
  /\ ~opened => wire' = wire /\ peer' = peer

(* NetEncodes: the number and the packet that were emitted.                *)
LEMMA NetsOutcome ==
  ASSUME OutwardInv, session \in Nat, NetEncodes
  PROVE  \E n, p : NetWrote(n, p)
<1>1. AreEmitted /\ WireKept /\ PeerKept
  BY DEF OutwardInv
<1>2. PICK p : /\ Emits(Number, "net", p) /\ IsPacket(p)
               /\ opened => /\ Wrote(Number, 1, Parts(p))
                            /\ peer' = [partial |-> IF Parts(p) = 1 THEN peer.partial
                                                    ELSE NoPartial,
                                        got |-> peer.got \o <<Accepted(p)>>]
               /\ ~opened => wire' = wire /\ peer' = peer
  BY <1>1, NetWrites
<1>3. PICK n : n = Number
  OBVIOUS
<1>4. Emits(n, "net", p)
  BY <1>2, <1>3
<1>5. /\ AreEmitted' /\ n \notin DOMAIN emitted
      /\ DOMAIN emitted = 1..n - 1 /\ DOMAIN emitted' = 1..n /\ n \in Nat \ {0}
      /\ \A m \in DOMAIN emitted : emitted'[m] = emitted[m]
      /\ emitted'[n].packet = p /\ emitted'[n].thread = "net"
  BY <1>1, <1>4, NetsSame, EmittedGrows
<1>6. \A m \in DOMAIN emitted : m \in DOMAIN emitted'
  BY <1>5
<1>7. Parts(p) \in Nat \ {0}
  BY <1>2, FramesIs
<1>8. ASSUME opened
      PROVE  /\ Wrote(n, 1, Parts(p))
             /\ peer'.partial = IF Parts(p) = 1 THEN peer.partial ELSE NoPartial
             /\ peer' = [partial |-> peer'.partial, got |-> peer'.got]
             /\ Extends(peer'.got, peer.got, Accepted(p))
  <2> DEFINE x == Accepted(p)
             kept == IF Parts(p) = 1 THEN peer.partial ELSE NoPartial
  <2>1. peer' = [partial |-> kept, got |-> peer.got \o <<x>>]
    BY <1>2, <1>8
  <2> HIDE DEF x, kept
  <2>2. IsSequence(peer.got)
    BY <1>1 DEF PeerKept
  <2>3. peer.got \o <<x>> = Append(peer.got, x)
    BY <2>2, SequenceAppend
  <2>4. /\ peer'.partial = kept /\ peer' = [partial |-> peer'.partial, got |-> peer'.got]
        /\ peer'.got = Append(peer.got, x)
    BY <2>1, <2>3
  <2>5. Extends(peer'.got, peer.got, x)
    BY <2>2, <2>4, AppendIs
  <2> QED BY <1>2, <1>3, <1>8, <2>4, <2>5 DEF x, kept
<1>9. ~opened => wire' = wire /\ peer' = peer
  BY <1>2
<1>10. NetWrote(n, p)
  BY <1>2, <1>5, <1>6, <1>7, <1>8, <1>9 DEF NetWrote
<1> QED BY <1>10

(* NetEncodes: what the server gets is the packet just emitted.            *)
LEMMA NetsGot ==
  ASSUME OutwardInv, opened \in BOOLEAN, NetEncodes, NEW n, NEW p, NetWrote(n, p)
  PROVE  GotIsEmitted' /\ GotInOrder' /\ GotBefore'
<1>1. /\ AreEmitted /\ GotBefore /\ GotIsEmitted /\ GotInOrder
  BY DEF OutwardInv
<1>2. /\ AreEmitted' /\ n \notin DOMAIN emitted /\ n \in DOMAIN emitted'
      /\ \A m \in DOMAIN emitted : m \in DOMAIN emitted' /\ emitted'[m] = emitted[m]
      /\ \A m \in DOMAIN emitted' : m = n \/ (m \in DOMAIN emitted /\ m < n)
      /\ emitted'[n].packet = p /\ emitted'[n].thread = "net"
  BY DEF NetWrote
<1>3. Rest' = Rest
  BY NetsSame
<1>4. CASE ~opened
  <2>1. peer'.got = peer.got
    BY <1>4 DEF NetWrote
  <2> QED BY <1>1, <1>2, <1>3, <2>1, GotKept
<1>5. CASE opened
  <2> DEFINE got == peer.got
             new == peer'.got
             N == Len(got) + 1
  <2>1. Extends(new, got, Accepted(p))
    BY <1>5 DEF NetWrote
  <2>2. Packet(n)' = Accepted(p)
    BY <1>2 DEF Packet
  <2> HIDE DEF got, new, N
  <2>3. /\ Len(got) \in Nat /\ DOMAIN got = 1..Len(got) /\ DOMAIN new = 1..N
        /\ \A i \in 1..Len(got) : new[i] = got[i]
        /\ new[N] = Packet(n)'
    BY <2>1, <2>2 DEF Extends, N
  <2>4. /\ N \in Nat /\ \A i \in DOMAIN new : i = N \/ i \in DOMAIN got
        /\ \A i \in DOMAIN got : new[i] = got[i] /\ i < N
        /\ \A i, j \in DOMAIN new : i < j => i \in DOMAIN got
    BY <2>3 DEF N
  <2>5. \A i \in DOMAIN got, m \in DOMAIN emitted' :
          got[i] = Packet(m)' /\ emitted'[m].packet.message # NoMessage
          => m \in DOMAIN emitted /\ got[i] = Packet(m) /\ emitted'[m] = emitted[m]
    BY <1>1, <1>2, OldGot DEF got
  <2>6. GotIsEmitted'
    <3>1. SUFFICES ASSUME NEW i \in DOMAIN new
                   PROVE  \E m \in DOMAIN emitted' : new[i] = Packet(m)'
      BY DEF GotIsEmitted, new
    <3>2. CASE i = N
      BY <1>2, <2>3, <3>2
    <3>3. CASE i \in DOMAIN got
      <4>1. PICK m \in DOMAIN emitted : got[i] = Packet(m)
        BY <1>1, <3>3 DEF GotIsEmitted, got
      <4>2. Packet(m)' = Packet(m)
        BY <1>2, OldPacket
      <4> QED BY <1>2, <2>4, <3>3, <4>1, <4>2
    <3> QED BY <2>4, <3>2, <3>3
  <2>7. GotInOrder'
    <3>1. SUFFICES ASSUME NEW i \in DOMAIN new, NEW j \in DOMAIN new,
                          NEW k \in DOMAIN emitted', NEW m \in DOMAIN emitted',
                          i < j, new[i] = Packet(k)', new[j] = Packet(m)',
                          emitted'[k].thread = emitted'[m].thread,
                          emitted'[k].packet.message # NoMessage,
                          emitted'[m].packet.message # NoMessage
                   PROVE  k < m
      BY DEF GotInOrder, new
    <3>2. i \in DOMAIN got /\ new[i] = got[i]
      BY <2>4, <3>1
    <3>3. k \in DOMAIN emitted /\ got[i] = Packet(k) /\ emitted'[k] = emitted[k]
      BY <2>5, <3>1, <3>2
    <3>4. CASE j \in DOMAIN got
      <4>1. m \in DOMAIN emitted /\ got[j] = Packet(m) /\ emitted'[m] = emitted[m]
        BY <2>4, <2>5, <3>1, <3>4
      <4> QED BY <1>1, <3>1, <3>2, <3>3, <3>4, <4>1 DEF GotInOrder, got
    <3>5. CASE j = N
      <4>1. Accepted(emitted'[m].packet) = Accepted(emitted'[n].packet)
        BY <2>3, <3>1, <3>5 DEF Packet
      <4>2. PICK shape \in Outward : emitted'[m].packet = Numbered(shape, m)
        BY <1>2 DEF AreEmitted
      <4>3. PICK other \in Outward : emitted'[n].packet = Numbered(other, n)
        BY <1>2 DEF AreEmitted
      <4>4. m = n
        BY <3>1, <4>1, <4>2, <4>3, PacketsDiffer
      <4> QED BY <1>2, <3>3, <4>4
    <3> QED BY <2>4, <3>4, <3>5
  <2>8. GotBefore'
    <3>1. SUFFICES ASSUME NEW i \in DOMAIN new, NEW m \in DOMAIN emitted',
                          NEW j \in DOMAIN Rest, new[i] = Packet(m)',
                          emitted'[m].thread = "user",
                          emitted'[m].packet.message # NoMessage
                   PROVE  m < Rest[j].of
      BY <1>3 DEF GotBefore, new
    <3>2. CASE i \in DOMAIN got
      <4>1. m \in DOMAIN emitted /\ got[i] = Packet(m) /\ emitted'[m] = emitted[m]
        BY <2>4, <2>5, <3>1, <3>2
      <4> QED BY <1>1, <3>1, <3>2, <4>1 DEF GotBefore, got
    <3>3. CASE i = N
      <4>1. Accepted(emitted'[m].packet) = Accepted(emitted'[n].packet)
        BY <2>3, <3>1, <3>3 DEF Packet
      <4>2. PICK shape \in Outward : emitted'[m].packet = Numbered(shape, m)
        BY <1>2 DEF AreEmitted
      <4>3. PICK other \in Outward : emitted'[n].packet = Numbered(other, n)
        BY <1>2 DEF AreEmitted
      <4>4. m = n
        BY <3>1, <4>1, <4>2, <4>3, PacketsDiffer
      <4> QED BY <1>2, <3>1, <4>4
    <3> QED BY <2>4, <3>2, <3>3
  <2> QED BY <2>6, <2>7, <2>8
<1> QED BY <1>4, <1>5

(* What the server keeps of the user's packet, if the new one leaves it.   *)
LEMMA HalfReadStays ==
  ASSUME AreEmitted, RestKept, HalfRead, Rest' = Rest, peer'.partial = peer.partial,
         \A n \in DOMAIN emitted : n \in DOMAIN emitted' /\ emitted'[n] = emitted[n]
  PROVE  HalfRead'
<1>1. Rest # <<>>
  BY DEF HalfRead, Half
<1>2. 1 \in DOMAIN Rest
  <2>1. IsSequence(Rest) /\ Len(Rest) \in Nat /\ DOMAIN Rest = 1..Len(Rest)
    BY RestIs
  <2>2. Rest \in Seq({Rest[i] : i \in DOMAIN Rest})
    BY <2>1 DEF IsSequence
  <2> QED BY <1>1, <2>1, <2>2
<1>3. Rest[1].of \in DOMAIN emitted
  BY <1>2 DEF RestKept, IsUsers
<1>4. emitted'[Rest[1].of] = emitted[Rest[1].of]
  BY <1>3
<1> QED BY <1>4 DEF HalfRead, Half

(* NetEncodes: what the server keeps.                                      *)
LEMMA NetsPeer ==
  ASSUME OutwardInv, opened \in BOOLEAN, NetEncodes, NEW n, NEW p, NetWrote(n, p)
  PROVE  PeerKept' /\ (peer'.partial # NoPartial => Waits(peer'.partial))
<1>1. AreEmitted /\ RestKept /\ PeerKept
  BY DEF OutwardInv
<1>2. opened' = opened /\ Rest' = Rest
  BY NetsSame
<1>3. \A m \in DOMAIN emitted : m \in DOMAIN emitted' /\ emitted'[m] = emitted[m]
  BY DEF NetWrote
<1>4. CASE opened
  <2>1. /\ peer'.partial = IF Parts(p) = 1 THEN peer.partial ELSE NoPartial
        /\ peer' = [partial |-> peer'.partial, got |-> peer'.got]
        /\ IsSequence(peer'.got)
    BY <1>4 DEF NetWrote, Extends
  <2>2. CASE peer'.partial = NoPartial
    BY <2>1, <2>2 DEF PeerKept
  <2>3. CASE peer'.partial # NoPartial
    <3>1. peer'.partial = peer.partial /\ peer.partial # NoPartial
      BY <2>1, <2>3
    <3>2. HalfRead
      BY <1>1, <1>4, <3>1 DEF PeerKept
    <3>3. HalfRead'
      BY <1>1, <1>2, <1>3, <3>1, <3>2, HalfReadStays
    <3>4. Waits(peer'.partial)
      BY <3>1 DEF OutwardInv
    <3> QED BY <2>1, <3>3, <3>4 DEF PeerKept
  <2> QED BY <2>2, <2>3
<1>5. CASE ~opened
  <2>1. peer' = peer
    BY <1>5 DEF NetWrote
  <2>2. /\ peer' = [partial |-> peer'.partial, got |-> peer'.got]
        /\ IsSequence(peer'.got)
    BY <1>1, <2>1 DEF PeerKept
  <2>3. PeerKept'
    BY <1>2, <1>5, <2>2 DEF PeerKept
  <2> QED BY <2>1, <2>3 DEF OutwardInv
<1> QED BY <1>4, <1>5

(* NetEncodes: a packet half written is still kept, or it has been         *)
(* overlapped.                                                             *)
LEMMA NetsHalf ==
  ASSUME OutwardInv, opened \in BOOLEAN, NetEncodes, NEW n, NEW p, NetWrote(n, p)
  PROVE  HalfKept' /\ HalfTorn'
<1>1. AreEmitted /\ RestKept /\ WireKept /\ HalfKept /\ HalfTorn
  BY DEF OutwardInv
<1>2. opened' = opened /\ session' = session /\ Rest' = Rest
  BY NetsSame
<1>3. /\ \A m \in DOMAIN emitted : m \in DOMAIN emitted' /\ emitted'[m] = emitted[m]
      /\ n \notin DOMAIN emitted
      /\ emitted'[n].packet = p /\ emitted'[n].thread = "net" /\ Parts(p) \in Nat \ {0}
  BY DEF NetWrote
<1>4. Half' <=> Half
  BY <1>2 DEF Half
<1>5. SUFFICES ASSUME opened, Half PROVE HalfKept' /\ HalfTorn'
  BY <1>2, <1>4 DEF HalfKept, HalfTorn
<1> DEFINE e == Rest[1]
<1>6. e.of \in DOMAIN emitted
  <2>1. IsSequence(Rest) /\ Len(Rest) \in Nat /\ DOMAIN Rest = 1..Len(Rest)
    BY <1>1, RestIs
  <2>2. Rest # <<>> /\ Rest \in Seq({Rest[i] : i \in DOMAIN Rest})
    BY <1>5, <2>1 DEF IsSequence, Half
  <2>3. 1 \in DOMAIN Rest
    BY <2>1, <2>2
  <2> QED BY <1>1, <2>3 DEF RestKept, IsUsers
<1>7. /\ Len(wire) \in Nat /\ DOMAIN wire = 1..Len(wire)
      /\ DOMAIN wire' = 1..Len(wire) + (Parts(p) - 1 + 1)
      /\ Len(wire') = Len(wire) + (Parts(p) - 1 + 1)
      /\ \A i \in 1..Len(wire) : wire'[i] = wire[i]
      /\ \A i \in 1..Parts(p) :
           wire'[Len(wire) + (i - 1 + 1)] = [session |-> session, of |-> n, part |-> i]
  BY <1>5 DEF NetWrote, Wrote
<1>8. \A i : Begun(i) <=> wire[i] = [session |-> session, of |-> e.of, part |-> 1]
  BY DEF Begun
<1>9. \A i : Begun(i)' <=> wire'[i] = [session |-> session, of |-> e.of, part |-> 1]
  BY <1>2 DEF Begun
<1>10. \A i \in DOMAIN wire' \ DOMAIN wire : wire'[i].of = n
  <2>1. SUFFICES ASSUME NEW i \in DOMAIN wire', i \notin DOMAIN wire
                 PROVE  wire'[i].of = n
    OBVIOUS
  <2>2. i - Len(wire) \in 1..Parts(p) /\ Len(wire) + ((i - Len(wire)) - 1 + 1) = i
    BY <1>3, <1>7, <2>1
  <2>3. wire'[i] = [session |-> session, of |-> n, part |-> i - Len(wire)]
    BY <1>7, <2>2
  <2> QED BY <2>3
<1> HIDE DEF e
<1>11. HalfKept'
  <2>1. SUFFICES ASSUME NEW first \in DOMAIN wire', Begun(first)', ~HalfRead'
                 PROVE  \E i \in first..Len(wire') :
                          /\ HasData(wire[i].of)'
                          /\ emitted'[wire'[i].of].thread = "net"
    BY DEF HalfKept
  <2>2. wire'[first] = [session |-> session, of |-> e.of, part |-> 1]
    BY <1>9, <2>1
  <2>3. first \in DOMAIN wire /\ wire'[first] = wire[first]
    BY <1>3, <1>6, <1>7, <1>10, <2>1, <2>2
  <2>4. Begun(first)
    BY <1>8, <2>2, <2>3
  <2>5. CASE HalfRead
    <3>1. Parts(p) # 1
      <4>1. peer'.partial = IF Parts(p) = 1 THEN peer.partial ELSE NoPartial
        BY <1>5 DEF NetWrote
      <4> QED BY <1>1, <1>2, <1>3, <2>1, <2>5, <4>1, HalfReadStays
    <3>2. PICK i : i = Len(wire) + 1
      OBVIOUS
    <3>3. i \in first..Len(wire') /\ i \in DOMAIN wire' /\ i \notin DOMAIN wire
      BY <1>3, <1>7, <2>3, <3>2
    <3>4. wire'[i].of = n
      BY <1>10, <3>3
    <3>5. HasData(n)'
      BY <1>3, <3>1 DEF HasData, Size, Parts
    <3>6. HasData(wire[i].of)'
      BY <3>4, <3>5 DEF HasData, Size
    <3> QED BY <1>3, <3>3, <3>4, <3>6
  <2>6. CASE ~HalfRead
    <3>1. PICK i \in first..Len(wire) :
            HasData(wire[i].of) /\ emitted[wire[i].of].thread = "net"
      BY <1>1, <1>5, <2>3, <2>4, <2>6 DEF HalfKept
    <3>2. i \in DOMAIN wire /\ i \in first..Len(wire')
      BY <1>3, <1>7, <2>3, <3>1
    <3>3. PICK m : m = wire[i].of
      OBVIOUS
    <3>4. m \in DOMAIN emitted
      BY <1>1, <3>2, <3>3, WireAt
    <3>5. wire'[i].of = m /\ emitted'[m] = emitted[m]
      BY <1>3, <1>7, <3>2, <3>3, <3>4
    <3>6. HasData(wire[i].of)'
      BY <3>1, <3>3, <3>5, SameData
    <3> QED BY <3>1, <3>2, <3>3, <3>5, <3>6
  <2> QED BY <2>5, <2>6
<1>12. HalfTorn'
  <2>1. \/ emitted[e.of].session < session
        \/ \E first \in DOMAIN wire : Begun(first)
    BY <1>1, <1>5 DEF HalfTorn, e
  <2>2. CASE emitted[e.of].session < session
    <3>1. emitted'[e.of].session < session
      BY <1>3, <1>6, <2>2
    <3> QED BY <1>2, <3>1 DEF HalfTorn, e
  <2>3. CASE \E first \in DOMAIN wire : Begun(first)
    <3>1. PICK first \in DOMAIN wire : Begun(first)
      BY <2>3
    <3>2. first \in DOMAIN wire' /\ wire'[first] = wire[first]
      BY <1>3, <1>7, <3>1
    <3>3. Begun(first)'
      BY <1>8, <1>9, <3>1, <3>2
    <3> QED BY <3>2, <3>3 DEF HalfTorn
  <2> QED BY <2>1, <2>2, <2>3
<1> QED BY <1>11, <1>12

(* NetEncodes: lost only by an overlap, torn only by a reconnection.       *)
LEMMA NetsWire ==
  ASSUME OutwardInv, opened \in BOOLEAN, session \in Nat, NetEncodes,
         NEW n, NEW p, NetWrote(n, p)
  PROVE  WireKept' /\ LossNeedsOverlap' /\ TornNeedsReconnect'
<1>1. AreEmitted /\ WireKept /\ LossNeedsOverlap /\ TornNeedsReconnect
  BY DEF OutwardInv
<1>2. opened' = opened /\ session' = session
  BY NetsSame
<1>3. /\ \A m \in DOMAIN emitted : m \in DOMAIN emitted' /\ emitted'[m] = emitted[m]
      /\ n \in DOMAIN emitted' /\ emitted'[n].packet = p /\ Parts(p) \in Nat \ {0}
  BY DEF NetWrote
<1>4. CASE ~opened
  <2>1. wire' = wire /\ peer' = peer
    BY <1>4 DEF NetWrote
  <2> QED BY <1>1, <1>2, <1>3, <2>1, WireStays
<1>5. CASE opened
  <2> DEFINE L == Len(wire)
  <2>1. /\ L \in Nat /\ DOMAIN wire = 1..L /\ IsSequence(wire')
        /\ DOMAIN wire' = 1..L + (Parts(p) - 1 + 1)
        /\ \A i \in 1..L : wire'[i] = wire[i]
        /\ \A i \in 1..Parts(p) :
             wire'[L + (i - 1 + 1)] = [session |-> session, of |-> n, part |-> i]
    BY <1>5 DEF NetWrote, Wrote
  <2> HIDE DEF L
  <2>2. /\ \A i \in DOMAIN wire : i \in DOMAIN wire' /\ wire'[i] = wire[i]
        /\ DOMAIN wire' \subseteq Nat \ {0}
    BY <1>3, <2>1
  <2>3. ASSUME NEW i \in DOMAIN wire', i \notin DOMAIN wire
        PROVE  /\ i - L \in 1..Parts(p)
               /\ wire'[i] = [session |-> session, of |-> n, part |-> i - L]
    <3>1. i - L \in 1..Parts(p) /\ L + ((i - L) - 1 + 1) = i
      BY <1>3, <2>1, <2>3
    <3>2. wire'[L + ((i - L) - 1 + 1)] =
            [session |-> session, of |-> n, part |-> i - L]
      BY <2>1, <3>1
    <3> QED BY <3>1, <3>2
  <2>4. WireKept'
    <3>1. \A i \in DOMAIN wire' \ DOMAIN wire :
            \E m \in DOMAIN emitted', k \in Nat \ {0} :
              wire'[i] = [session |-> session, of |-> m, part |-> k]
      <4>1. SUFFICES ASSUME NEW i \in DOMAIN wire', i \notin DOMAIN wire
                     PROVE  \E m \in DOMAIN emitted', k \in Nat \ {0} :
                              wire'[i] = [session |-> session, of |-> m, part |-> k]
        OBVIOUS
      <4>2. /\ i - L \in Nat \ {0}
            /\ wire'[i] = [session |-> session, of |-> n, part |-> i - L]
        BY <1>3, <2>3, <4>1
      <4> QED BY <1>3, <4>2
    <3>2. DOMAIN wire \subseteq DOMAIN wire'
      BY <2>2
    <3> QED BY <1>1, <1>2, <1>3, <2>1, <2>2, <3>1, <3>2, WireGrows
  <2>5. Extends(peer'.got, peer.got, Accepted(p))
    BY <1>5 DEF NetWrote
  <2>6. Got(n)'
    <3>1. Packet(n)' = Accepted(p)
      BY <1>3 DEF Packet
    <3>2. PICK i \in DOMAIN peer'.got : peer'.got[i] = Accepted(p)
      BY <2>5 DEF Extends
    <3> QED BY <3>1, <3>2 DEF Got
  <2>7. LossNeedsOverlap'
    <3>1. SUFFICES ASSUME NEW first \in DOMAIN wire', NEW last \in DOMAIN wire',
                          NEW m \in DOMAIN emitted', Written(m, first, last)'
                   PROVE  \/ Got(m)'
                          \/ \E i \in first..last :
                               /\ HasData(m)' /\ emitted'[m].thread = "user"
                               /\ HasData(wire[i].of)'
                               /\ emitted'[wire'[i].of].thread = "net"
      BY DEF LossNeedsOverlap
    <3>2. CASE last \in DOMAIN wire
      <4>1. \A i \in DOMAIN peer.got : i \in DOMAIN peer'.got /\ peer'.got[i] = peer.got[i]
        BY <2>5 DEF Extends
      <4> QED BY <1>1, <1>2, <1>3, <2>2, <3>1, <3>2, <4>1, OldLoss
    <3>3. CASE last \notin DOMAIN wire
      <4>1. wire'[last].of = n
        BY <2>3, <3>3
      <4>2. wire'[last].of = m
        BY <3>1 DEF Written
      <4> QED BY <2>6, <4>1, <4>2
    <3> QED BY <3>2, <3>3
  <2>8. TornNeedsReconnect'
    <3>1. SUFFICES ASSUME NEW i \in DOMAIN wire', wire'[i].part > 1
                   PROVE  \/ emitted'[wire'[i].of].session < wire'[i].session
                          \/ \E j \in 1..i - 1 : wire'[j] = [wire'[i] EXCEPT !.part = 1]
      BY DEF TornNeedsReconnect
    <3>2. CASE i \in DOMAIN wire
      BY <1>1, <1>2, <1>3, <2>2, <3>1, <3>2, OldTorn
    <3>3. CASE i \notin DOMAIN wire
      <4>1. /\ i - L \in 1..Parts(p)
            /\ wire'[i] = [session |-> session, of |-> n, part |-> i - L]
        BY <2>3, <3>3
      <4>2. i - L > 1 /\ i \in Nat
        BY <2>2, <3>1, <4>1
      <4>3. 1 \in 1..Parts(p) /\ L + (1 - 1 + 1) = L + 1 /\ L + 1 \in 1..i - 1
        BY <1>3, <2>1, <4>2
      <4>4. wire'[L + 1] = [session |-> session, of |-> n, part |-> 1]
        BY <2>1, <4>3
      <4>5. [wire'[i] EXCEPT !.part = 1] = [session |-> session, of |-> n, part |-> 1]
        BY <4>1
      <4> QED BY <4>3, <4>4, <4>5
    <3> QED BY <3>2, <3>3
  <2> QED BY <2>4, <2>7, <2>8
<1> QED BY <1>4, <1>5

(* NetEncodes keeps the outward part of the invariant.                     *)
LEMMA OutwardNetEncodes ==
  ASSUME OutwardInv, opened \in BOOLEAN, session \in Nat, NetEncodes
  PROVE  OutwardInv'
<1>1. PICK n, p : NetWrote(n, p)
  BY NetsOutcome
<1>2. AreEmitted' /\ \A m \in DOMAIN emitted : m \in DOMAIN emitted' /\ emitted'[m] = emitted[m]
  BY <1>1 DEF NetWrote
<1>3. RestKept'
  BY <1>2, NetsSame, RestStays DEF OutwardInv
<1>4. GotIsEmitted' /\ GotInOrder' /\ GotBefore'
  BY <1>1, NetsGot
<1>5. PeerKept' /\ (peer'.partial # NoPartial => Waits(peer'.partial))
  BY <1>1, NetsPeer
<1>6. HalfKept' /\ HalfTorn'
  BY <1>1, NetsHalf
<1>7. WireKept' /\ LossNeedsOverlap' /\ TornNeedsReconnect'
  BY <1>1, NetsWire
<1> QED BY <1>2, <1>3, <1>4, <1>5, <1>6, <1>7 DEF OutwardInv

(* A step that writes nothing and leaves the user's next frame.            *)
LEMMA HalfSame ==
  ASSUME AreEmitted, RestKept, PeerKept, WireKept, HalfKept, HalfTorn,
         opened' = opened, session' = session, wire' = wire, peer' = peer,
         Half' <=> Half, Half => Rest'[1] = Rest[1],
         \A n \in DOMAIN emitted : n \in DOMAIN emitted' /\ emitted'[n] = emitted[n]
  PROVE  PeerKept' /\ HalfKept' /\ HalfTorn'
<1> DEFINE e == Rest[1]
<1>1. Half => e.of \in DOMAIN emitted
  <2>1. IsSequence(Rest) /\ Len(Rest) \in Nat /\ DOMAIN Rest = 1..Len(Rest)
    BY RestIs
  <2>2. SUFFICES ASSUME Half PROVE e.of \in DOMAIN emitted
    OBVIOUS
  <2>3. Rest # <<>> /\ Rest \in Seq({Rest[i] : i \in DOMAIN Rest})
    BY <2>1, <2>2 DEF IsSequence, Half
  <2>4. 1 \in DOMAIN Rest
    BY <2>1, <2>3
  <2> QED BY <2>4 DEF RestKept, IsUsers
<1>2. Half => emitted'[e.of] = emitted[e.of]
  BY <1>1
<1>3. HalfRead => HalfRead'
  <2>1. SUFFICES ASSUME HalfRead PROVE HalfRead'
    OBVIOUS
  <2>2. Half /\ Half' /\ peer.partial = <<After(emitted[e.of].packet, e.part - 1)>>
    BY <2>1 DEF HalfRead
  <2>3. emitted'[e.of] = emitted[e.of] /\ Rest'[1] = e
    BY <1>2, <2>2
  <2> QED BY <2>2, <2>3 DEF HalfRead
<1>4. PeerKept'
  BY <1>3 DEF PeerKept
<1>5. Half => \A i : Begun(i)' <=> Begun(i)
  BY DEF Begun
<1>6. HalfKept'
  <2>1. SUFFICES ASSUME opened, Half, NEW first \in DOMAIN wire, Begun(first),
                        ~HalfRead
                 PROVE  \E i \in first..Len(wire) :
                          /\ HasData(wire[i].of)'
                          /\ emitted'[wire'[i].of].thread = "net"
    BY <1>3, <1>5 DEF HalfKept
  <2>2. PICK i \in first..Len(wire) :
          HasData(wire[i].of) /\ emitted[wire[i].of].thread = "net"
    BY <2>1 DEF HalfKept
  <2>3. i \in DOMAIN wire
    BY <2>1, <2>2, WireIs
  <2>4. PICK m : m = wire[i].of
    OBVIOUS
  <2>5. m \in DOMAIN emitted
    BY <2>3, <2>4, WireAt
  <2>6. wire'[i].of = m /\ emitted'[m] = emitted[m]
    BY <2>4, <2>5
  <2>7. HasData(wire[i].of)'
    BY <2>2, <2>4, <2>6, SameData
  <2> QED BY <2>2, <2>4, <2>6, <2>7
<1>7. HalfTorn'
  <2>1. SUFFICES ASSUME opened, Half PROVE HalfTorn'
    BY DEF HalfTorn
  <2>2. CASE emitted[e.of].session < session
    <3>1. emitted'[e.of].session < session /\ Rest'[1] = e
      BY <1>2, <2>1, <2>2
    <3> QED BY <3>1 DEF HalfTorn
  <2>3. CASE \E first \in DOMAIN wire : Begun(first)
    <3>1. PICK first \in DOMAIN wire : Begun(first)
      BY <2>3
    <3>2. Begun(first)' /\ first \in DOMAIN wire'
      BY <1>5, <2>1, <3>1
    <3> QED BY <3>2 DEF HalfTorn
  <2> QED BY <2>1, <2>2, <2>3 DEF HalfTorn
<1> QED BY <1>4, <1>6, <1>7

(* The user emits: the frames of one packet more are to be sent.           *)
UserAdds(n, p) ==
  /\ Emits(n, "user", p)
  /\ Chains(Rest', Rest, Frames(p, n))
  /\ (Half' <=> Half) /\ (Half => Rest'[1] = Rest[1])
  /\ IsSequence(posted') /\ IsSequence(encoding')

LEMMA UserEncodesAdds ==
  ASSUME AreEmitted, RestKept, session \in Nat, UserEncodes
  PROVE  \E n, p : UserAdds(n, p)
<1>1. encoding = <<>> /\ posted' = posted /\ session' = session
  BY DEF UserEncodes
<1>2. PICK shape \in Outward :
        /\ encoding' = Frames(Numbered(shape, Number), Number)
        /\ Emitted("user", Numbered(shape, Number))
  BY DEF UserEncodes
<1>3. PICK n : n = Number
  OBVIOUS
<1> DEFINE p == Numbered(shape, n)
<1>4. Emits(n, "user", p)
  <2>1. IsSequence(emitted)
    BY EmittedIs
  <2>2. emitted' = Append(emitted, [thread |-> "user", session |-> session, packet |-> p])
    BY <1>2, <1>3 DEF Emitted
  <2>3. Extends(emitted', emitted, [thread |-> "user", session |-> session, packet |-> p])
    BY <2>1, <2>2, AppendIs
  <2> QED BY <1>3, <2>3 DEF Emits, Number
<1>5. encoding' = Frames(p, n)
  BY <1>2, <1>3
<1>6. IsPacket(p)
  BY PacketShapes, NumberedIsPacket, Zenon
<1> HIDE DEF p
<1> DEFINE fs == Frames(p, n)
<1>7. /\ IsSequence(fs) /\ Len(fs) = Parts(p) /\ Parts(p) \in Nat \ {0}
      /\ DOMAIN fs = 1..Parts(p)
      /\ \A k \in 1..Parts(p) : fs[k] = [of |-> n, part |-> k, frame |-> Accept(p)[k]]
  BY <1>6, FramesIs
<1> HIDE DEF fs
<1>8. IsSequence(posted) /\ Rest = posted
  <2>1. IsSequence(posted)
    BY DEF RestKept
  <2> QED BY <1>1, <2>1, SequenceShape DEF Rest
<1>9. Chains(Rest', Rest, fs)
  BY <1>1, <1>5, <1>7, <1>8, JoinIs DEF Rest, fs
<1>10. (Half' <=> Half) /\ (Half => Rest'[1] = Rest[1])
  <2>1. /\ Len(Rest) \in Nat /\ DOMAIN Rest = 1..Len(Rest)
        /\ DOMAIN Rest' = 1..Len(Rest) + Parts(p)
        /\ \A i \in 1..Len(Rest) : Rest'[i] = Rest[i]
        /\ Rest'[Len(Rest) + 1] = fs[1]
    BY <1>7, <1>9 DEF Chains
  <2>2. Rest' # <<>> /\ 1 \in DOMAIN Rest'
    BY <1>7, <2>1
  <2>3. CASE Len(Rest) = 0
    <3>1. Rest = <<>>
      BY <1>8, <2>3 DEF IsSequence
    <3>2. Rest'[1] = fs[1] /\ fs[1].part = 1
      BY <1>7, <2>1, <2>3
    <3> QED BY <3>1, <3>2 DEF Half
  <2>4. CASE Len(Rest) # 0
    <3>1. 1 \in DOMAIN Rest /\ Rest'[1] = Rest[1]
      BY <2>1, <2>4
    <3>2. Rest # <<>>
      BY <3>1
    <3> QED BY <2>2, <3>1, <3>2 DEF Half
  <2> QED BY <2>3, <2>4
<1>11. UserAdds(n, p)
  BY <1>1, <1>4, <1>5, <1>7, <1>8, <1>9, <1>10 DEF UserAdds, fs
<1> QED BY <1>11

(* A packet is emitted on the user's thread, which has posted the last.    *)
LEMMA OutwardUserEncodes ==
  ASSUME OutwardInv, opened \in BOOLEAN, session \in Nat, UserEncodes
  PROVE  OutwardInv'
<1>1. /\ AreEmitted /\ RestKept /\ PeerKept /\ GotBefore
      /\ WireKept /\ HalfKept /\ HalfTorn
      /\ GotIsEmitted /\ GotInOrder /\ LossNeedsOverlap /\ TornNeedsReconnect
  BY DEF OutwardInv
<1>2. /\ encoding = <<>> /\ posted' = posted /\ wire' = wire /\ peer' = peer
      /\ opened' = opened /\ session' = session
  BY DEF UserEncodes
<1>3. PICK n, p : UserAdds(n, p)
  BY <1>1, UserEncodesAdds
<1>4. /\ Emits(n, "user", p) /\ Chains(Rest', Rest, Frames(p, n))
      /\ IsSequence(posted') /\ IsSequence(encoding')
  BY <1>3 DEF UserAdds
<1>5. /\ AreEmitted' /\ n \notin DOMAIN emitted /\ n \in DOMAIN emitted'
      /\ DOMAIN emitted = 1..n - 1 /\ n \in Nat \ {0}
      /\ \A m \in DOMAIN emitted : m \in DOMAIN emitted' /\ emitted'[m] = emitted[m]
      /\ emitted'[n].packet = p /\ emitted'[n].thread = "user" /\ IsPacket(p)
  <2>1. /\ AreEmitted' /\ n \notin DOMAIN emitted
        /\ DOMAIN emitted = 1..n - 1 /\ DOMAIN emitted' = 1..n /\ n \in Nat \ {0}
        /\ \A m \in DOMAIN emitted : emitted'[m] = emitted[m]
        /\ emitted'[n].packet = p /\ emitted'[n].thread = "user" /\ IsPacket(p)
    BY <1>1, <1>2, <1>4, EmittedGrows
  <2> QED BY <2>1
<1>6. Size(n)' = Parts(p)
  BY <1>5 DEF Size, Parts
<1> DEFINE fs == Frames(p, n)
           L == Len(Rest)
<1>7. /\ IsSequence(fs) /\ Len(fs) = Parts(p) /\ Parts(p) \in Nat \ {0}
      /\ DOMAIN fs = 1..Parts(p)
      /\ \A k \in 1..Parts(p) : fs[k] = [of |-> n, part |-> k, frame |-> Accept(p)[k]]
  BY <1>5, FramesIs
<1>8. Chains(Rest', Rest, fs)
  BY <1>4
<1> HIDE DEF fs, L
<1>9. /\ L \in Nat /\ DOMAIN Rest = 1..L /\ DOMAIN Rest' = 1..L + Parts(p)
      /\ Len(Rest') = L + Parts(p) /\ Len(Rest) = L
      /\ \A i \in 1..L : Rest'[i] = Rest[i]
      /\ \A k \in 1..Parts(p) : Rest'[L + k] = fs[k]
  BY <1>7, <1>8 DEF Chains, L
<1>10. ASSUME NEW i \in DOMAIN Rest'
       PROVE  \/ /\ i \in DOMAIN Rest /\ Rest'[i] = Rest[i] /\ IsUsers(Rest[i])
                 /\ Rest[i].of \in DOMAIN emitted /\ Rest[i].of < n
              \/ \E k \in 1..Parts(p) :
                   /\ i = L + k /\ Rest'[i] = fs[k]
                   /\ fs[k] = [of |-> n, part |-> k, frame |-> Accept(p)[k]]
  <2>1. CASE i \in 1..L
    <3>1. IsUsers(Rest[i])
      BY <1>1, <1>9, <2>1 DEF RestKept
    <3>2. Rest[i].of \in DOMAIN emitted
      BY <3>1 DEF IsUsers
    <3> QED BY <1>5, <1>9, <2>1, <3>1, <3>2
  <2>2. CASE i \notin 1..L
    <3>1. i - L \in 1..Parts(p) /\ i = L + (i - L)
      BY <1>7, <1>9, <1>10, <2>2
    <3>2. Rest'[L + (i - L)] = fs[i - L]
      BY <1>9, <3>1
    <3> QED BY <1>7, <3>1, <3>2
  <2> QED BY <2>1, <2>2
<1>11. ASSUME NEW i \in DOMAIN Rest'
       PROVE  IF i \in DOMAIN Rest
              THEN Rest'[i].of \in DOMAIN emitted /\ Rest'[i].of < n
              ELSE Rest'[i].of = n
  <2>1. CASE i \in DOMAIN Rest
    <3>1. IsUsers(Rest[i]) /\ Rest'[i] = Rest[i]
      BY <1>1, <1>9, <2>1 DEF RestKept
    <3>2. Rest'[i].of \in DOMAIN emitted
      BY <3>1 DEF IsUsers
    <3> QED BY <1>5, <2>1, <3>2
  <2>2. CASE i \notin DOMAIN Rest
    <3>1. i - L \in 1..Parts(p) /\ i = L + (i - L)
      BY <1>7, <1>9, <1>11, <2>2
    <3>2. Rest'[L + (i - L)] = fs[i - L] /\ fs[i - L].of = n
      BY <1>7, <1>9, <3>1
    <3> QED BY <2>2, <3>1, <3>2
  <2> QED BY <2>1, <2>2
<1>12. RestKept'
  <2>1. IsSequence(posted') /\ IsSequence(encoding')
    BY <1>4
  <2>2. ASSUME NEW i \in DOMAIN Rest' PROVE IsUsers(Rest[i])'
    <3>1. CASE /\ i \in DOMAIN Rest /\ Rest'[i] = Rest[i] /\ IsUsers(Rest[i])
               /\ Rest[i].of \in DOMAIN emitted
      <4>1. /\ emitted'[Rest[i].of] = emitted[Rest[i].of]
            /\ Rest[i].of \in DOMAIN emitted'
        BY <1>5, <3>1
      <4> QED BY <3>1, <4>1 DEF IsUsers
    <3>2. CASE \E k \in 1..Parts(p) :
                 /\ i = L + k /\ Rest'[i] = fs[k]
                 /\ fs[k] = [of |-> n, part |-> k, frame |-> Accept(p)[k]]
      <4>1. PICK k \in 1..Parts(p) :
                 /\ i = L + k /\ Rest'[i] = fs[k]
                 /\ fs[k] = [of |-> n, part |-> k, frame |-> Accept(p)[k]]
        BY <3>2
      <4>2. fs[k] \in Range(fs)
        BY <1>7, <4>1 DEF Range
      <4>3. Rest'[i].of = n /\ Rest'[i] \in Range(Frames(p, n))
        BY <4>1, <4>2 DEF fs
      <4> QED BY <1>5, <4>3 DEF IsUsers
    <3> QED BY <1>10, <2>2, <3>1, <3>2
  <2>3. ASSUME NEW i \in DOMAIN Rest', i + 1 \in DOMAIN Rest'
        PROVE  Follows(Rest[i], Rest[i + 1])'
    <3>1. CASE i \in 1..L /\ i + 1 \in 1..L
      <4>1. /\ Follows(Rest[i], Rest[i + 1])
            /\ Rest'[i] = Rest[i] /\ Rest'[i + 1] = Rest[i + 1]
        BY <1>1, <1>9, <3>1 DEF RestKept
      <4>2. emitted'[Rest[i].of] = emitted[Rest[i].of]
        <5>1. i \in DOMAIN Rest
          BY <1>9, <3>1
        <5>2. Rest[i].of \in DOMAIN emitted
          BY <1>1, <5>1 DEF RestKept, IsUsers
        <5> QED BY <1>5, <5>2
      <4> QED BY <4>1, <4>2 DEF Follows, Size
    <3>2. CASE i = L
      <4>1. /\ i \in DOMAIN Rest /\ Rest'[i] = Rest[i] /\ Rest # <<>> /\ Len(Rest) = i
        BY <1>9, <2>3, <3>2
      <4>2. Rest[i].part = Size(Rest[i].of)
        BY <1>1, <4>1 DEF RestKept
      <4>3. Rest[i].of \in DOMAIN emitted
        BY <1>1, <4>1 DEF RestKept, IsUsers
      <4>4. emitted'[Rest[i].of] = emitted[Rest[i].of] /\ Rest[i].of < n
        BY <1>5, <4>3
      <4>5. Rest'[i + 1] = fs[1] /\ fs[1].of = n /\ fs[1].part = 1
        BY <1>7, <1>9, <3>2
      <4>6. Rest'[i].part = Size(Rest[i].of)'
        BY <4>1, <4>2, <4>4 DEF Size
      <4>7. Size(Rest[i].of) \in Nat
        BY <1>1, <4>3, EmittedPacket
      <4>8. ~(Rest'[i].part < Size(Rest[i].of)')
        BY <4>1, <4>2, <4>6, <4>7
      <4> QED BY <4>1, <4>4, <4>5, <4>8 DEF Follows
    <3>3. CASE i \notin 1..L
      <4>1. i - L \in 1..Parts(p) /\ i = L + (i - L)
            /\ (i - L) + 1 \in 1..Parts(p) /\ i + 1 = L + ((i - L) + 1)
        BY <1>7, <1>9, <2>3, <3>3
      <4>2. Rest'[i] = fs[i - L] /\ Rest'[i + 1] = fs[(i - L) + 1]
        BY <1>9, <4>1
      <4>3. /\ Rest'[i].of = n /\ Rest'[i + 1].of = n
            /\ Rest'[i].part = i - L /\ Rest'[i + 1].part = (i - L) + 1
        BY <1>7, <4>1, <4>2
      <4>4. Size(Rest[i].of)' = Parts(p)
        BY <1>6, <4>3
      <4>5. Rest'[i].part < Size(Rest[i].of)'
        BY <1>7, <4>1, <4>3, <4>4
      <4> QED BY <4>3, <4>5 DEF Follows
    <3> QED BY <1>7, <1>9, <2>3, <3>1, <3>2, <3>3
  <2>4. ASSUME NEW i \in DOMAIN Rest', NEW j \in DOMAIN Rest', i <= j
        PROVE  Rest'[i].of <= Rest'[j].of
    <3>1. CASE j \in DOMAIN Rest
      <4>1. /\ i \in DOMAIN Rest /\ Rest'[i] = Rest[i] /\ Rest'[j] = Rest[j]
        BY <1>9, <2>4, <3>1
      <4> QED BY <1>1, <2>4, <3>1, <4>1 DEF RestKept
    <3>2. CASE j \notin DOMAIN Rest
      <4>1. Rest'[j].of = n
        BY <1>11, <2>4, <3>2
      <4>2. Rest'[i].of = n \/ (Rest'[i].of < n /\ Rest'[i].of \in DOMAIN emitted)
        BY <1>11, <2>4
      <4> QED BY <1>5, <4>1, <4>2
    <3> QED BY <3>1, <3>2
  <2>5. Rest'[Len(Rest')].part = Size(Rest[Len(Rest)].of)'
    <3>1. Rest'[Len(Rest')] = fs[Parts(p)]
      BY <1>7, <1>9
    <3>2. Rest'[Len(Rest')].of = n /\ Rest'[Len(Rest')].part = Parts(p)
      BY <1>7, <3>1
    <3> QED BY <1>6, <3>2
  <2> QED BY <2>1, <2>2, <2>3, <2>4, <2>5 DEF RestKept
<1>13. GotIsEmitted' /\ GotInOrder'
  BY <1>1, <1>2, <1>5, GotKept
<1>14. GotBefore'
  <2>1. SUFFICES ASSUME NEW i \in DOMAIN peer.got, NEW m \in DOMAIN emitted',
                        NEW j \in DOMAIN Rest', peer.got[i] = Packet(m)',
                        emitted'[m].thread = "user",
                        emitted'[m].packet.message # NoMessage
                 PROVE  m < Rest'[j].of
    BY <1>2 DEF GotBefore
  <2>2. m \in DOMAIN emitted /\ peer.got[i] = Packet(m)
    BY <1>1, <1>5, <2>1, OldGot
  <2>3. emitted'[m] = emitted[m] /\ m < n
    BY <1>5, <2>2
  <2>4. CASE j \in DOMAIN Rest
    <3>1. Rest'[j] = Rest[j]
      BY <1>9, <2>4
    <3> QED BY <1>1, <2>1, <2>2, <2>3, <2>4, <3>1 DEF GotBefore
  <2>5. CASE j \notin DOMAIN Rest
    <3>1. Rest'[j].of = n
      BY <1>11, <2>1, <2>5
    <3> QED BY <2>3, <3>1
  <2> QED BY <2>4, <2>5
<1>15. (Half' <=> Half) /\ (Half => Rest'[1] = Rest[1])
  BY <1>3 DEF UserAdds
<1>16. PeerKept' /\ HalfKept' /\ HalfTorn'
  BY <1>1, <1>2, <1>5, <1>15, HalfSame
<1>17. WireKept' /\ LossNeedsOverlap' /\ TornNeedsReconnect'
  BY <1>1, <1>2, <1>5, WireStays
<1>18. peer'.partial # NoPartial => Waits(peer'.partial)
  BY <1>2 DEF OutwardInv
<1> QED BY <1>5, <1>12, <1>13, <1>14, <1>16, <1>17, <1>18 DEF OutwardInv

(* A step that leaves the packets, their frames and what is written.       *)
LEMMA OutwardSame ==
  ASSUME OutwardInv, opened \in BOOLEAN, session \in Nat,
         opened' = opened, session' = session, emitted' = emitted,
         wire' = wire, peer' = peer, Rest' = Rest,
         IsSequence(posted') /\ IsSequence(encoding')
  PROVE  OutwardInv'
<1>1. /\ AreEmitted /\ RestKept /\ PeerKept /\ GotBefore
      /\ WireKept /\ HalfKept /\ HalfTorn
      /\ GotIsEmitted /\ GotInOrder /\ LossNeedsOverlap /\ TornNeedsReconnect
  BY DEF OutwardInv
<1>2. AreEmitted'
  BY <1>1 DEF AreEmitted
<1>3. RestKept'
  <2>1. \A i \in DOMAIN Rest' : IsUsers(Rest[i])'
    BY <1>1 DEF RestKept, IsUsers
  <2>2. \A i \in DOMAIN Rest' : i + 1 \in DOMAIN Rest' => Follows(Rest[i], Rest[i + 1])'
    BY <1>1 DEF RestKept, Follows, Size
  <2>3. \A i, j \in DOMAIN Rest' : i <= j => Rest'[i].of <= Rest'[j].of
    BY <1>1 DEF RestKept
  <2>4. Rest' # <<>> => Rest'[Len(Rest')].part = Size(Rest[Len(Rest)].of)'
    BY <1>1 DEF RestKept, Size
  <2> QED BY <2>1, <2>2, <2>3, <2>4 DEF RestKept
<1>4. GotIsEmitted' /\ GotInOrder' /\ GotBefore'
  BY <1>1, <1>2, GotKept
<1>5. (Half' <=> Half) /\ (Half => Rest'[1] = Rest[1])
  BY DEF Half
<1>6. PeerKept' /\ HalfKept' /\ HalfTorn'
  BY <1>1, <1>5, HalfSame
<1>7. WireKept' /\ LossNeedsOverlap' /\ TornNeedsReconnect'
  BY <1>1, WireStays
<1>8. peer'.partial # NoPartial => Waits(peer'.partial)
  BY DEF OutwardInv
<1> QED BY <1>2, <1>3, <1>4, <1>6, <1>7, <1>8 DEF OutwardInv

(* A frame is posted.                                                      *)
LEMMA UserPostsSame ==
  ASSUME RestKept, UserPosts
  PROVE  Rest' = Rest /\ IsSequence(posted') /\ IsSequence(encoding')
<1>1. /\ encoding # <<>> /\ posted' = Append(posted, Head(encoding))
      /\ encoding' = Tail(encoding)
  BY DEF UserPosts, PostLast
<1> DEFINE h == <<Head(encoding)>>
           t == Tail(encoding)
<1>2. IsSequence(posted) /\ IsSequence(encoding)
  BY DEF RestKept
<1>3. IsSequence(t) /\ IsSequence(h) /\ encoding = h \o t
  BY <1>1, <1>2, SequenceTail
<1>4. posted' = posted \o h /\ IsSequence(posted')
  BY <1>1, <1>2, SequenceAppend
<1>5. encoding' = t
  BY <1>1
<1> HIDE DEF h, t
<1>6. (posted \o h) \o t = posted \o (h \o t)
  BY <1>2, <1>3, SequenceAssociative
<1>7. Rest' = Rest
  BY <1>3, <1>4, <1>5, <1>6 DEF Rest
<1> QED BY <1>3, <1>4, <1>5, <1>7

(* The step keeps the outward part.                                        *)
LEMMA OutwardUserPosts ==
  ASSUME OutwardInv, opened \in BOOLEAN, session \in Nat, UserPosts
  PROVE  OutwardInv'
BY UserPostsSame, OutwardSame DEF UserPosts, OutwardInv

(* So does a step that concerns the other direction.                       *)
LEMMA OutwardUnchanged ==
  ASSUME OutwardInv, opened \in BOOLEAN, session \in Nat,
         UNCHANGED <<opened, session, outVars>>
  PROVE  OutwardInv'
<1>1. /\ opened' = opened /\ session' = session /\ emitted' = emitted
      /\ wire' = wire /\ peer' = peer /\ posted' = posted /\ encoding' = encoding
  BY DEF outVars
<1>2. Rest' = Rest
  BY <1>1 DEF Rest
<1>3. IsSequence(posted') /\ IsSequence(encoding')
  BY <1>1 DEF OutwardInv, RestKept
<1> QED BY <1>1, <1>2, <1>3, OutwardSame

(* A session ends: what the server keeps is lost with it.                  *)
LEMMA OutwardClose ==
  ASSUME OutwardInv, session \in Nat, Close
  PROVE  OutwardInv'
<1>1. /\ ~opened' /\ session' = session /\ emitted' = emitted
      /\ wire' = wire /\ peer' = peer /\ posted' = posted /\ encoding' = encoding
  BY DEF Close, outVars
<1>2. /\ AreEmitted /\ RestKept /\ PeerKept /\ GotBefore /\ WireKept
      /\ GotIsEmitted /\ GotInOrder /\ LossNeedsOverlap /\ TornNeedsReconnect
  BY DEF OutwardInv
<1>3. Rest' = Rest
  BY <1>1 DEF Rest
<1>4. AreEmitted'
  BY <1>1, <1>2 DEF AreEmitted
<1>5. RestKept'
  BY <1>1, <1>2, RestStays
<1>6. GotIsEmitted' /\ GotInOrder' /\ GotBefore'
  BY <1>1, <1>2, <1>3, <1>4, GotKept
<1>7. PeerKept'
  BY <1>1, <1>2 DEF PeerKept
<1>8. HalfKept' /\ HalfTorn'
  BY <1>1 DEF HalfKept, HalfTorn
<1>9. WireKept' /\ LossNeedsOverlap' /\ TornNeedsReconnect'
  BY <1>1, <1>2, WireStays
<1>10. peer'.partial # NoPartial => Waits(peer'.partial)
  BY <1>1 DEF OutwardInv
<1> QED BY <1>4, <1>5, <1>6, <1>7, <1>8, <1>9, <1>10 DEF OutwardInv

(* The next one starts: nothing was written or emitted in it yet.          *)
LEMMA OutwardOpen ==
  ASSUME OutwardInv, session \in Nat, Open
  PROVE  OutwardInv'
<1>1. /\ session' = session + 1 /\ emitted' = emitted
      /\ wire' = wire /\ peer' = [partial |-> NoPartial, got |-> <<>>]
      /\ posted' = posted /\ encoding' = encoding
  BY DEF Open, NewPeer
<1>2. /\ AreEmitted /\ RestKept /\ WireKept /\ TornNeedsReconnect
  BY DEF OutwardInv
<1>3. Rest' = Rest
  BY <1>1 DEF Rest
<1>4. peer'.got = <<>> /\ peer'.partial = NoPartial /\ IsSequence(<<>>)
  BY <1>1, SequenceEmpty
<1>5. AreEmitted'
  <2> DEFINE S == {emitted[n].packet : n \in DOMAIN emitted}
             T == [thread : {"user", "net"}, session : 0..session', packet : S]
  <2>1. ASSUME NEW n \in DOMAIN emitted PROVE emitted[n] \in T
    <3>1. /\ emitted[n].thread \in {"user", "net"} /\ emitted[n].session \in 0..session
          /\ emitted[n] = [thread |-> emitted[n].thread,
                           session |-> emitted[n].session,
                           packet |-> emitted[n].packet]
      BY <1>2, EmittedPacket
    <3>2. emitted[n].session \in 0..session'
      BY <1>1, <3>1
    <3>3. emitted[n].packet \in S
      OBVIOUS
    <3> HIDE DEF S
    <3> QED BY <3>1, <3>2, <3>3
  <2>2. IsSequence(emitted)
    BY <1>2, EmittedIs
  <2> HIDE DEF T
  <2>3. emitted \in Seq(T)
    BY <2>1, <2>2, SequenceIn
  <2> QED BY <1>1, <1>2, <2>3 DEF AreEmitted, T
<1>6. RestKept'
  BY <1>1, <1>2, RestStays
<1>7. GotIsEmitted' /\ GotInOrder' /\ GotBefore' /\ PeerKept'
  BY <1>1, <1>4 DEF GotIsEmitted, GotInOrder, GotBefore, PeerKept
<1>8. ASSUME NEW i \in DOMAIN wire PROVE wire[i].session # session'
  <2>1. wire[i].session \in 0..session
    BY <1>2, WireAt
  <2> QED BY <1>1, <2>1
<1>9. WireKept'
  <2> DEFINE T == [session : 0..session', of : DOMAIN emitted, part : Nat \ {0}]
  <2>1. ASSUME NEW i \in DOMAIN wire PROVE wire[i] \in T
    <3>1. /\ wire[i].of \in DOMAIN emitted /\ wire[i].session \in 0..session
          /\ wire[i].part \in Nat \ {0}
          /\ wire[i] = [session |-> wire[i].session, of |-> wire[i].of,
                        part |-> wire[i].part]
      BY <1>2, WireAt
    <3>2. wire[i].session \in 0..session'
      BY <1>1, <3>1
    <3> QED BY <3>1, <3>2
  <2>2. IsSequence(wire)
    BY <1>2, WireIs
  <2> HIDE DEF T
  <2>3. wire \in Seq(T)
    BY <2>1, <2>2, SequenceIn
  <2> QED BY <1>1, <2>3 DEF WireKept, T
<1>10. HalfKept'
  <2>1. SUFFICES ASSUME NEW first \in DOMAIN wire, Begun(first)' PROVE FALSE
    BY <1>1 DEF HalfKept
  <2>2. wire[first].session = session'
    BY <1>1, <2>1 DEF Begun
  <2> QED BY <1>8, <2>2
<1>11. HalfTorn'
  <2>1. SUFFICES ASSUME Half PROVE emitted[Rest[1].of].session < session'
    BY <1>1, <1>3 DEF HalfTorn, Half
  <2>2. IsSequence(Rest) /\ Len(Rest) \in Nat /\ DOMAIN Rest = 1..Len(Rest)
    BY <1>2, RestIs
  <2>3. Rest # <<>> /\ Rest \in Seq({Rest[i] : i \in DOMAIN Rest})
    BY <2>1, <2>2 DEF IsSequence, Half
  <2>4. 1 \in DOMAIN Rest
    BY <2>2, <2>3
  <2>5. Rest[1].of \in DOMAIN emitted
    BY <1>2, <2>4 DEF RestKept, IsUsers
  <2>6. emitted[Rest[1].of].session \in 0..session
    BY <1>2, <2>5, EmittedPacket
  <2> QED BY <1>1, <2>6
<1>12. LossNeedsOverlap'
  <2>1. SUFFICES ASSUME NEW first \in DOMAIN wire, NEW last, NEW n,
                        Written(n, first, last)'
                 PROVE  FALSE
    BY <1>1 DEF LossNeedsOverlap
  <2>2. wire[first].session = session'
    BY <1>1, <2>1 DEF Written
  <2> QED BY <1>8, <2>2
<1>13. TornNeedsReconnect'
  BY <1>1, <1>2 DEF TornNeedsReconnect
<1>14. peer'.partial # NoPartial => Waits(peer'.partial)
  BY <1>4
<1> QED BY <1>5, <1>6, <1>7, <1>9, <1>10, <1>11, <1>12, <1>13, <1>14 DEF OutwardInv

-----------------------------------------------------------------------------
(* The inductive invariant.                                                *)

Bounded ==
  /\ opened \in BOOLEAN /\ session \in 0..MaxSessions
  /\ Len(emitted) <= MaxEmits /\ Len(sent) <= MaxSends /\ pongs \in 0..MaxPongs

(* The invariant in the parts in which it is proved.                       *)
LEMMA InvParts ==
  IInv <=> Bounded /\ InwardInv /\ OutwardInv
BY DEF IInv, TypeOK, Support, Bounded, InwardInv, OutwardInv

(* The outward part of the invariant holds at the start.                   *)
LEMMA OutwardInit ==
  ASSUME Init
  PROVE  OutwardInv
<1>1. /\ opened = FALSE /\ session = 0 /\ encoding = <<>> /\ posted = <<>>
      /\ emitted = <<>> /\ wire = <<>> /\ peer = [partial |-> NoPartial, got |-> <<>>]
  BY DEF Init, NewPeer
<1>2. IsSequence(<<>>)
  BY SequenceEmpty
<1>3. Rest = <<>>
  BY <1>1 DEF Rest
<1>4. AreEmitted
  BY <1>1 DEF AreEmitted
<1>5. RestKept
  BY <1>1, <1>2, <1>3 DEF RestKept
<1>6. PeerKept /\ GotBefore /\ GotIsEmitted /\ GotInOrder
  BY <1>1, <1>2 DEF PeerKept, GotBefore, GotIsEmitted, GotInOrder
<1>7. WireKept /\ HalfKept /\ HalfTorn /\ LossNeedsOverlap /\ TornNeedsReconnect
  BY <1>1 DEF WireKept, HalfKept, HalfTorn, LossNeedsOverlap, TornNeedsReconnect
<1>8. peer.partial = NoPartial
  BY <1>1
<1> QED BY <1>4, <1>5, <1>6, <1>7, <1>8 DEF OutwardInv

(* Every action on its own, and stuttering.                                *)
LEMMA InwardNext ==
  ASSUME InwardInv, opened \in BOOLEAN, [Next]_vars
  PROVE  InwardInv'
<1>1. CASE Open
  BY <1>1, InwardOpen
<1>2. CASE Close
  BY <1>2, InwardClose
<1>3. CASE UserEncodes
  BY <1>3, InwardUnchanged DEF UserEncodes
<1>4. CASE UserPosts
  BY <1>4, InwardUnchanged DEF UserPosts
<1>5. CASE NetSends
  BY <1>5, InwardUnchanged DEF NetSends
<1>6. CASE NetEncodes
  BY <1>6, InwardUnchanged DEF NetEncodes
<1>7. CASE ServerEncodes
  BY <1>7, InwardServerEncodes
<1>8. CASE ServerSends
  BY <1>8, InwardServerSends
<1>9. CASE ServerPongs
  BY <1>9, InwardServerPongs
<1>10. CASE OnMessage
  BY <1>10, InwardOnMessage
<1>11. CASE UNCHANGED vars
  BY <1>11, InwardUnchanged DEF vars
<1> QED BY <1>1, <1>2, <1>3, <1>4, <1>5, <1>6, <1>7, <1>8, <1>9, <1>10, <1>11 DEF Next

(* Every step keeps the outward part.                                      *)
LEMMA OutwardNext ==
  ASSUME OutwardInv, opened \in BOOLEAN, session \in Nat, [Next]_vars
  PROVE  OutwardInv'
<1>1. CASE Open
  BY <1>1, OutwardOpen
<1>2. CASE Close
  BY <1>2, OutwardClose
<1>3. CASE UserEncodes
  BY <1>3, OutwardUserEncodes
<1>4. CASE UserPosts
  BY <1>4, OutwardUserPosts
<1>5. CASE NetSends
  BY <1>5, OutwardNetSends
<1>6. CASE NetEncodes
  BY <1>6, OutwardNetEncodes
<1>7. CASE ServerEncodes
  BY <1>7, OutwardUnchanged DEF ServerEncodes
<1>8. CASE ServerSends
  BY <1>8, OutwardUnchanged DEF ServerSends
<1>9. CASE ServerPongs
  BY <1>9, OutwardUnchanged DEF ServerPongs
<1>10. CASE OnMessage
  BY <1>10, OutwardUnchanged DEF OnMessage
<1>11. CASE UNCHANGED vars
  BY <1>11, OutwardUnchanged DEF vars
<1> QED BY <1>1, <1>2, <1>3, <1>4, <1>5, <1>6, <1>7, <1>8, <1>9, <1>10, <1>11 DEF Next

(* Every step keeps the bounds and the inward decoder's type.              *)
LEMMA BoundedNext ==
  ASSUME Bounded, InwardInv, OutwardInv, [Next]_vars
  PROVE  Bounded'
<1>1. IsSequence(emitted) /\ Len(emitted) \in Nat
  BY EmittedIs DEF OutwardInv
<1>2. IsSequence(sent) /\ Len(sent) \in Nat
  <2>1. IsSequence(sent)
    BY DEF InwardInv, AreSent
  <2> QED BY <2>1, SequenceShape
<1>3. \A e : Len(Append(emitted, e)) = Len(emitted) + 1
  BY <1>1, SequenceAppend
<1>4. \A e : Len(Append(sent, e)) = Len(sent) + 1
  BY <1>2, SequenceAppend
<1>5. MaxEmits \in Nat /\ MaxSends \in Nat /\ MaxPongs \in Nat /\ MaxSessions \in Nat
  BY PacketBounds
<1>6. opened' \in BOOLEAN
  BY DEF Bounded, Next, vars, Open, Close, UserEncodes, UserPosts, NetSends,
         NetEncodes, ServerEncodes, ServerSends, ServerPongs, OnMessage
<1>7. session' \in 0..MaxSessions
  BY <1>5 DEF Bounded, Next, vars, Open, Close, UserEncodes, UserPosts, NetSends,
              NetEncodes, ServerEncodes, ServerSends, ServerPongs, OnMessage
<1>8. Len(emitted') <= MaxEmits
  <2>1. CASE \E thread, p : Emitted(thread, p) /\ Len(emitted) < MaxEmits
    BY <1>1, <1>3, <1>5, <2>1 DEF Emitted
  <2>2. CASE emitted' = emitted
    BY <2>2 DEF Bounded
  <2> QED BY <2>1, <2>2 DEF Next, vars, outVars, Open, Close, UserEncodes,
             UserPosts, NetSends, NetEncodes, ServerEncodes, ServerSends,
             ServerPongs, OnMessage
<1>9. Len(sent') <= MaxSends
  <2>1. CASE \E p : sent' = Append(sent, p) /\ Len(sent) < MaxSends
    BY <1>2, <1>4, <1>5, <2>1
  <2>2. CASE sent' = sent
    BY <2>2 DEF Bounded
  <2>3. CASE sent' = <<>>
    BY <1>5, <2>3, SequenceEmpty
  <2> QED BY <2>1, <2>2, <2>3 DEF Next, vars, inVars, Open, Close, UserEncodes,
             UserPosts, NetSends, NetEncodes, ServerEncodes, ServerSends,
             ServerPongs, OnMessage
<1>10. pongs' \in 0..MaxPongs
  BY <1>5 DEF Bounded, Next, vars, inVars, Open, Close, UserEncodes, UserPosts,
              NetSends, NetEncodes, ServerEncodes, ServerSends, ServerPongs, OnMessage
<1> QED BY <1>6, <1>7, <1>8, <1>9, <1>10 DEF Bounded

(* The invariant holds of every behaviour.                                 *)
THEOREM Invariance == Spec => []IInv
<1>1. Init => IInv
  <2>1. SUFFICES ASSUME Init PROVE IInv
    OBVIOUS
  <2>2. Bounded
    <3>1. Len(<<>>) = 0
      BY SequenceEmpty
    <3>2. /\ 0 <= MaxEmits /\ 0 <= MaxSends
          /\ 0 \in 0..MaxPongs /\ 0 \in 0..MaxSessions
      BY PacketBounds
    <3>3. /\ opened = FALSE /\ session = 0 /\ emitted = <<>> /\ sent = <<>>
          /\ pongs = 0
      BY <2>1 DEF Init
    <3> QED BY <3>1, <3>2, <3>3 DEF Bounded
  <2> QED BY <2>1, <2>2, InwardInit, OutwardInit, InvParts
<1>2. IInv /\ [Next]_vars => IInv'
  <2>1. SUFFICES ASSUME IInv, [Next]_vars PROVE IInv'
    OBVIOUS
  <2>2. Bounded /\ InwardInv /\ OutwardInv
    BY <2>1, InvParts
  <2>3. opened \in BOOLEAN /\ session \in Nat
    BY <2>2, PacketBounds DEF Bounded
  <2>4. Bounded'
    BY <2>1, <2>2, BoundedNext
  <2>5. InwardInv'
    BY <2>1, <2>2, <2>3, InwardNext
  <2>6. OutwardInv'
    BY <2>1, <2>2, <2>3, OutwardNext
  <2>7. IInv'
    BY <2>4, <2>5, <2>6 DEF IInv, TypeOK, Support, Bounded, InwardInv, OutwardInv
  <2> QED BY <2>7
<1> QED BY <1>1, <1>2, PTL DEF Spec

(* Types, and what a decoder that waits has and waits for.                 *)
THEOREM TypesOK == Spec => []TypeOK
<1>1. IInv => TypeOK
  BY DEF IInv
<1> QED BY <1>1, Invariance, PTL

(* The parts of the invariant about frames on their way, in both           *)
(* directions.                                                             *)
THEOREM Supported == Spec => []Support
<1>1. IInv => Support
  BY DEF IInv
<1> QED BY <1>1, Invariance, PTL

(* The listeners of the client get what the server sent: each packet with  *)
(* its own data, once and in order, whatever is sent between its frames.   *)
THEOREM DecodesWhatIsSent == Spec => []DecodedIsSent
<1>1. IInv => DecodedIsSent
  <2>1. SUFFICES ASSUME IInv PROVE DecodedIsSent
    OBVIOUS
  <2>2. InwardInv /\ opened \in BOOLEAN
    BY <2>1, InvParts DEF Bounded
  <2> QED BY <2>2, DecodedKept
<1> QED BY <1>1, Invariance, PTL

(* However the frames of the two threads interleave and wherever sessions  *)
(* end, no packet reaches the server that was not emitted.                 *)
THEOREM GetsWhatIsEmitted == Spec => []GotIsEmitted
<1>1. IInv => GotIsEmitted
  BY DEF IInv
<1> QED BY <1>1, Invariance, PTL

(* The packets of a thread get there at most once, and in their order.     *)
THEOREM GetsInOrder == Spec => []GotInOrder
<1>1. IInv => GotInOrder
  BY DEF IInv
<1> QED BY <1>1, Invariance, PTL

(* A packet that was written to its end in a session is lost only if the   *)
(* network thread wrote a packet with data between its frames.             *)
THEOREM LosesByOverlap == Spec => []LossNeedsOverlap
<1>1. IInv => LossNeedsOverlap
  BY DEF IInv
<1> QED BY <1>1, Invariance, PTL

(* A data frame without its text before it in the session belongs to a     *)
(* packet that was emitted before the session opened.                      *)
THEOREM TearsByReconnect == Spec => []TornNeedsReconnect
<1>1. IInv => TornNeedsReconnect
  BY DEF IInv
<1> QED BY <1>1, Invariance, PTL

-----------------------------------------------------------------------------
(* PacketManager implements PacketChannel.                                 *)

(* The packets that may be emitted, as the channel knows them.             *)
LEMMA OnChannel ==
  ASSUME NEW shape \in Outward, NEW n \in 1..MaxEmits, NEW p, p = Numbered(shape, n)
  PROVE  /\ Accepted(p) \in OutwardPackets
         /\ Parts(p) > 1 => Accepted(p) \in OutwardWithData
<1>1. p \in PacketsOf(Outward, MaxEmits)
  BY DEF PacketsOf
<1>2. Parts(p) > 1 => Buffers(p.message) # <<>>
  BY SequenceEmpty DEF Parts
<1> QED BY <1>1, <1>2 DEF OutwardPackets, OutwardWithData

(* Those that were emitted are such packets.                               *)
LEMMA EmittedOnChannel ==
  ASSUME AreEmitted, Bounded, NEW n \in DOMAIN emitted
  PROVE  /\ EmittedPackets[n] = Packet(n) /\ Packet(n) \in OutwardPackets
         /\ Size(n) > 1 => Packet(n) \in OutwardWithData
<1>1. PICK shape \in Outward : emitted[n].packet = Numbered(shape, n)
  BY DEF AreEmitted
<1>2. n \in 1..MaxEmits
  BY EmittedIs, PacketBounds DEF Bounded
<1>3. Size(n) = Parts(emitted[n].packet)
  BY DEF Size, Parts
<1> QED BY <1>1, <1>2, <1>3, OnChannel DEF EmittedPackets, Packet

(* An emit adds one to them.                                               *)
LEMMA ChannelEmits ==
  ASSUME AreEmitted, AreEmitted', NEW n \in Nat \ {0}, NEW p,
         DOMAIN emitted = 1..n - 1, DOMAIN emitted' = 1..n,
         \A m \in DOMAIN emitted : emitted'[m] = emitted[m],
         emitted'[n].packet = p
  PROVE  EmittedPackets' = Append(EmittedPackets, Accepted(p))
<1> DEFINE s == EmittedPackets
           t == EmittedPackets'
           u == Append(s, Accepted(p))
<1>1. s = [m \in 1..n - 1 |-> Accepted(emitted[m].packet)]
  BY DEF EmittedPackets, Packet
<1>2. t = [m \in 1..n |-> Accepted(emitted'[m].packet)]
  BY DEF EmittedPackets, Packet
<1>3. s \in Seq({Accepted(emitted[m].packet) : m \in 1..n - 1})
  BY <1>1
<1>4. t \in Seq({Accepted(emitted'[m].packet) : m \in 1..n})
  BY <1>2
<1>5. IsSequence(s) /\ IsSequence(t)
  BY <1>3, <1>4, SequenceOf
<1>6. Len(s) = n - 1 /\ Len(t) = n
  BY <1>1, <1>2, <1>5, SequenceShape
<1>7. Extends(u, s, Accepted(p))
  BY <1>5, AppendIs
<1> HIDE DEF s, t, u
<1>8. IsSequence(u) /\ Len(u) = n /\ u[n] = Accepted(p)
  BY <1>6, <1>7 DEF Extends
<1>9. \A m \in 1..n - 1 : u[m] = s[m]
  BY <1>6, <1>7 DEF Extends
<1>10. \A m \in 1..n : t[m] = u[m]
  <2>1. SUFFICES ASSUME NEW m \in 1..n PROVE t[m] = u[m]
    OBVIOUS
  <2>2. t[m] = Accepted(emitted'[m].packet)
    BY <1>2
  <2>3. CASE m = n
    BY <1>8, <2>2, <2>3
  <2>4. CASE m \in 1..n - 1
    BY <1>1, <1>9, <2>2, <2>4
  <2> QED BY <2>3, <2>4
<1>11. t = u
  BY <1>5, <1>6, <1>8, <1>10, SequenceSame
<1> QED BY <1>11 DEF t, u, s

(* The one that is due is the one whose frame is next.                     *)
LEMMA FirstIsDue ==
  ASSUME AreEmitted, RestKept, Rest # <<>>
  PROVE  /\ Rest[1].of \in Pending /\ Rest[1].of \in DOMAIN emitted
         /\ \A n : Channel!Due(n) <=> n = Rest[1].of
<1>1. IsSequence(Rest) /\ Len(Rest) \in Nat /\ DOMAIN Rest = 1..Len(Rest)
  BY RestIs
<1>2. 1 \in DOMAIN Rest
  BY <1>1 DEF IsSequence
<1>3. \A i \in DOMAIN Rest : Rest[i].of \in DOMAIN emitted /\ Rest[i].of \in Nat
  BY EmittedIs DEF RestKept, IsUsers
<1>4. \A i \in DOMAIN Rest : Rest[1].of <= Rest[i].of
  BY <1>1, <1>2 DEF RestKept
<1>5. \A m \in Pending : m \in Nat /\ Rest[1].of <= m
  BY <1>3, <1>4 DEF Pending
<1>6. Rest[1].of \in Pending
  BY <1>2 DEF Pending
<1> QED BY <1>2, <1>3, <1>5, <1>6 DEF Channel!Due

(* If it is in the middle of its frames, it can be broken.                 *)
LEMMA HalfIsBreakable ==
  ASSUME AreEmitted, RestKept, Bounded, Half
  PROVE  Channel!Breakable = {Rest[1].of}
<1>1. Rest # <<>> /\ Rest[1].part > 1
  BY DEF Half
<1>2. 1 \in DOMAIN Rest
  BY <1>1, RestIs DEF IsSequence
<1>3. /\ Rest[1].of \in DOMAIN emitted /\ Rest[1].part \in 1..Size(Rest[1].of)
  BY <1>2, UsersIs DEF RestKept
<1>4. Size(Rest[1].of) > 1
  BY <1>1, <1>3, EmittedPacket
<1>5. EmittedPackets[Rest[1].of] \in OutwardWithData
  BY <1>3, <1>4, EmittedOnChannel
<1> QED BY <1>1, <1>5, FirstIsDue DEF Channel!Breakable

(* Steps that the channel does not see.                                    *)
LEMMA ChannelUnchanged ==
  ASSUME opened' = opened, sent' = sent, decoded' = decoded, emitted' = emitted,
         Rest' = Rest, peer' = peer
  PROVE  UNCHANGED Channel!channel
BY DEF Channel!channel, SentAsDecoded, EmittedPackets, Packet, Pending, Broken, Half

(* A session opens: what is half sent is broken.                           *)
LEMMA ChannelOpens ==
  ASSUME IInv, Open PROVE Channel!Open
<1>1. AreEmitted /\ RestKept /\ Bounded
  BY InvParts DEF OutwardInv
<1>2. /\ ~opened /\ opened' = TRUE /\ peer'.got = <<>> /\ peer'.partial = NoPartial
      /\ emitted' = emitted /\ Rest' = Rest /\ sent' = sent /\ decoded' = decoded
  BY DEF Open, NewPeer, Rest
<1>3. Broken' = IF Half THEN {Rest[1].of} ELSE {}
  BY <1>2 DEF Broken, Half
<1>4. Broken' \in {{}, Channel!Breakable}
  BY <1>1, <1>3, HalfIsBreakable
<1> QED BY <1>2, <1>4 DEF Channel!Open, SentAsDecoded, EmittedPackets, Packet, Pending

(* It closes.                                                              *)
LEMMA ChannelCloses ==
  ASSUME Close PROVE Channel!Close
<1>1. /\ opened /\ opened' = FALSE /\ peer' = peer /\ sent' = <<>>
      /\ emitted' = emitted /\ Rest' = Rest /\ decoded' = <<>>
  BY DEF Close, outVars, Rest
<1>2. SentAsDecoded' = <<>>
  BY <1>1 DEF SentAsDecoded
<1>3. Broken' = {}
  BY <1>1 DEF Broken
<1> QED BY <1>1, <1>2, <1>3 DEF Channel!Close, EmittedPackets, Packet, Pending

(* The user emits a packet.                                                *)
LEMMA ChannelUserEmits ==
  ASSUME IInv, IInv', UserEncodes PROVE Channel!UserEmits
<1>1. AreEmitted /\ AreEmitted' /\ RestKept /\ Bounded' /\ session \in Nat
  BY InvParts, PacketBounds DEF OutwardInv, IInv, Support, TypeOK, Bounded
<1>2. /\ encoding = <<>> /\ posted' = posted /\ peer' = peer
      /\ opened' = opened /\ session' = session /\ sent' = sent /\ decoded' = decoded
  BY DEF UserEncodes, inVars
<1>3. PICK n, p : UserAdds(n, p)
  BY <1>1, UserEncodesAdds
<1>4. Emits(n, "user", p) /\ Chains(Rest', Rest, Frames(p, n))
  BY <1>3 DEF UserAdds
<1>5. PICK shape \in Outward : p = Numbered(shape, n)
  BY <1>4 DEF Emits
<1>6. /\ DOMAIN emitted = 1..n - 1 /\ DOMAIN emitted' = 1..n /\ n \in Nat \ {0}
      /\ \A m \in DOMAIN emitted : emitted'[m] = emitted[m]
      /\ emitted'[n].packet = p /\ IsPacket(p)
  BY <1>1, <1>2, <1>4, EmittedGrows
<1>7. EmittedPackets' = Append(EmittedPackets, Accepted(p))
  BY <1>1, <1>6, ChannelEmits
<1>8. Accepted(p) \in OutwardPackets
  <2>1. n \in 1..MaxEmits
    <3>1. Len(emitted') = n
      BY <1>4 DEF Emits, Extends
    <3> QED BY <1>1, <1>6, <3>1, PacketBounds DEF Bounded
  <2> QED BY <1>5, <2>1, OnChannel
<1>9. Len(EmittedPackets) + 1 = n
  <2>1. DOMAIN EmittedPackets = 1..n - 1
    BY <1>6 DEF EmittedPackets
  <2>2. EmittedPackets \in Seq({Packet(m) : m \in 1..n - 1})
    BY <1>6 DEF EmittedPackets
  <2> QED BY <1>6, <2>1, <2>2
<1> DEFINE fs == Frames(p, n)
           L == Len(Rest)
<1>10. /\ Parts(p) \in Nat \ {0} /\ Len(fs) = Parts(p)
       /\ \A k \in 1..Parts(p) : fs[k].of = n
  <2>1. /\ Parts(p) \in Nat \ {0} /\ Len(fs) = Parts(p)
        /\ \A k \in 1..Parts(p) : fs[k] = [of |-> n, part |-> k, frame |-> Accept(p)[k]]
    BY <1>6, FramesIs
  <2> HIDE DEF fs
  <2> QED BY <2>1
<1>11. Chains(Rest', Rest, fs)
  BY <1>4
<1> HIDE DEF fs, L
<1>12. /\ L \in Nat /\ DOMAIN Rest = 1..L /\ DOMAIN Rest' = 1..L + Parts(p)
       /\ \A i \in 1..L : Rest'[i] = Rest[i]
       /\ \A k \in 1..Parts(p) : Rest'[L + k] = fs[k]
  BY <1>10, <1>11 DEF Chains, L
<1>13. Pending' = Pending \cup {n}
  <2>1. ASSUME NEW m \in Pending' PROVE m \in Pending \/ m = n
    <3>1. PICK i \in DOMAIN Rest' : m = Rest'[i].of
      BY <2>1 DEF Pending
    <3>2. CASE i \in 1..L
      BY <1>12, <3>1, <3>2 DEF Pending
    <3>3. CASE i \notin 1..L
      <4>1. i - L \in 1..Parts(p) /\ i = L + (i - L)
        BY <1>10, <1>12, <3>1, <3>3
      <4>2. Rest'[L + (i - L)] = fs[i - L] /\ fs[i - L].of = n
        BY <1>10, <1>12, <4>1
      <4> QED BY <3>1, <4>1, <4>2
    <3> QED BY <3>2, <3>3
  <2>2. ASSUME NEW m \in Pending PROVE m \in Pending'
    <3>1. PICK i \in DOMAIN Rest : m = Rest[i].of
      BY <2>2 DEF Pending
    <3>2. i \in DOMAIN Rest' /\ Rest'[i] = Rest[i]
      BY <1>10, <1>12, <3>1
    <3> QED BY <3>1, <3>2 DEF Pending
  <2>3. n \in Pending'
    <3>1. 1 \in 1..Parts(p) /\ L + 1 \in DOMAIN Rest'
      BY <1>10, <1>12
    <3>2. Rest'[L + 1].of = n
      BY <1>10, <1>12, <3>1
    <3> QED BY <3>1, <3>2 DEF Pending
  <2> QED BY <2>1, <2>2, <2>3
<1>14. (Half' <=> Half) /\ (Half => Rest'[1] = Rest[1])
  BY <1>3 DEF UserAdds
<1>15. Broken' = Broken
  BY <1>2, <1>14 DEF Broken
<1> QED BY <1>2, <1>7, <1>8, <1>9, <1>13, <1>15 DEF Channel!UserEmits, SentAsDecoded

(* A frame of the user's is sent: its packet is under way until the last.  *)
LEMMA PendingNext ==
  ASSUME IInv, NetSends
  PROVE  /\ Rest[1].part = Size(Rest[1].of) => Pending' = Pending \ {Rest[1].of}
         /\ Rest[1].part < Size(Rest[1].of) => Pending' = Pending
         /\ Rest[1].part = Size(Rest[1].of) \/ Rest[1].part < Size(Rest[1].of)
<1>1. AreEmitted /\ RestKept
  BY InvParts DEF OutwardInv
<1>2. Follow(Rest', Rest, Head(posted))
  BY <1>1, RestTail
<1>3. /\ 1 \in DOMAIN Rest /\ Rest[1].of \in Nat
      /\ Rest[1].part \in 1..Size(Rest[1].of) /\ Size(Rest[1].of) \in Nat \ {0}
      /\ Rest' # <<>> <=> 1 \in DOMAIN Rest'
      /\ Rest' # <<>> => Follows(Rest[1], Rest'[1])
      /\ Rest' = <<>> => Rest[1].part = Size(Rest[1].of)
      /\ \A j \in DOMAIN Rest' : Rest'[j] = Rest[j + 1] /\ Rest'[1].of <= Rest'[j].of
  BY <1>1, NextFrames
<1>4. \A i \in DOMAIN Rest : Rest[i].of \in Nat
  BY <1>1, EmittedIs DEF RestKept, IsUsers
<1>5. \A m : m \in Pending <=> m = Rest[1].of \/ m \in Pending'
  <2>1. ASSUME NEW m \in Pending PROVE m = Rest[1].of \/ m \in Pending'
    <3>1. PICK i \in DOMAIN Rest : m = Rest[i].of
      BY <2>1 DEF Pending
    <3>2. CASE i = 1
      BY <3>1, <3>2
    <3>3. CASE i # 1
      <4>1. i - 1 \in DOMAIN Rest' /\ (i - 1) + 1 = i
        BY <1>2, <3>1, <3>3 DEF Follow
      <4>2. Rest'[i - 1] = Rest[i]
        BY <1>3, <4>1
      <4> QED BY <3>1, <4>1, <4>2 DEF Pending
    <3> QED BY <3>2, <3>3
  <2>2. ASSUME NEW m \in Pending' PROVE m \in Pending
    <3>1. PICK j \in DOMAIN Rest' : m = Rest'[j].of
      BY <2>2 DEF Pending
    <3>2. j + 1 \in DOMAIN Rest /\ Rest'[j] = Rest[j + 1]
      BY <1>2, <1>3, <3>1 DEF Follow
    <3> QED BY <3>1, <3>2 DEF Pending
  <2>3. Rest[1].of \in Pending
    BY <1>3 DEF Pending
  <2> QED BY <2>1, <2>2, <2>3
<1>6. CASE Rest[1].part = Size(Rest[1].of)
  <2>1. Rest[1].of \notin Pending'
    <3>1. SUFFICES ASSUME NEW j \in DOMAIN Rest', Rest[1].of = Rest'[j].of PROVE FALSE
      BY DEF Pending
    <3>2. Rest' # <<>> /\ 1 \in DOMAIN Rest'
      BY <1>2, <3>1 DEF Follow
    <3>3. Rest'[1].of > Rest[1].of
      BY <1>3, <1>6, <3>2 DEF Follows
    <3>4. Rest'[1].of \in Nat /\ Rest'[1].of <= Rest'[j].of
      BY <1>2, <1>3, <1>4, <3>1, <3>2 DEF Follow
    <3> QED BY <1>3, <3>1, <3>3, <3>4
  <2> QED BY <1>3, <1>5, <1>6, <2>1
<1>7. CASE Rest[1].part < Size(Rest[1].of)
  <2>1. 1 \in DOMAIN Rest' /\ Rest'[1].of = Rest[1].of
    BY <1>3, <1>7 DEF Follows
  <2>2. Rest[1].of \in Pending'
    BY <2>1 DEF Pending
  <2> QED BY <1>3, <1>5, <1>7, <2>2
<1> QED BY <1>3, <1>6, <1>7

(* A posted frame is sent: its packet arrives with its last frame, is lost *)
(* with it, or is still under way.                                         *)
LEMMA ChannelNetSends ==
  ASSUME IInv, NetSends PROVE [Channel!Next]_(Channel!channel)
<1>1. OutwardInv /\ AreEmitted /\ RestKept /\ PeerKept /\ Bounded /\ opened \in BOOLEAN
  BY InvParts DEF OutwardInv, Bounded
<1>2. /\ opened' = opened /\ emitted' = emitted /\ sent' = sent /\ decoded' = decoded
      /\ SentAsDecoded' = SentAsDecoded /\ EmittedPackets' = EmittedPackets
  BY DEF NetSends, inVars, SentAsDecoded, EmittedPackets, Packet
<1> DEFINE n == Rest[1].of
<1>3. /\ Rest # <<>> /\ n \in DOMAIN emitted /\ n \in Pending /\ Channel!Due(n)
      /\ Rest[1].part \in 1..Size(n) /\ Size(n) \in Nat
  <2>1. Rest # <<>>
    BY <1>1, SendWrites DEF OutwardInv
  <2> QED BY <1>1, <2>1, FirstIsDue, NextFrames
<1>4. /\ Rest[1].part < Size(n) => Half' /\ Rest'[1].of = n
      /\ Half' => Rest[1].part < Size(n)
  BY <1>1, <1>3, HalfNext
<1>5. /\ Rest[1].part = Size(n) => Pending' = Pending \ {n}
      /\ Rest[1].part < Size(n) => Pending' = Pending
      /\ Rest[1].part = Size(n) \/ Rest[1].part < Size(n)
  BY PendingNext
<1>6. EmittedPackets[n] = Packet(n)
  BY <1>1, <1>3, EmittedOnChannel
<1>7. Rest[1].part < Size(n) => Rest[1].part # Size(n)
  BY <1>3
<1>8. Half => Broken = IF opened /\ peer.partial = NoPartial THEN {n} ELSE {}
  BY DEF Broken
<1>9. ~Half => Broken = {}
  BY DEF Broken
<1> HIDE DEF n
<1>10. CASE ~opened
  <2>1. peer' = peer
    BY <1>1, <1>10, SendWrites DEF OutwardInv
  <2>2. Broken = {} /\ Broken' = {}
    BY <1>2, <1>10 DEF Broken
  <2>3. CASE Rest[1].part = Size(n)
    <3>1. Channel!IsLost
      BY <1>2, <1>3, <1>5, <1>10, <2>1, <2>2, <2>3 DEF Channel!IsLost
    <3> QED BY <3>1 DEF Channel!Next
  <2>4. CASE Rest[1].part < Size(n)
    BY <1>2, <1>5, <2>1, <2>2, <2>4 DEF Channel!channel
  <2> QED BY <1>5, <2>3, <2>4
<1>11. CASE opened
  <2>1. /\ HalfRead \/ Rest[1].part = 1 => Completes \/ Collects
        /\ ~(HalfRead \/ Rest[1].part = 1) => Drops
    BY <1>1, <1>3, <1>11, SendWrites, SendReads DEF OutwardInv
  <2>2. HalfRead \/ Rest[1].part = 1 => Broken = {}
    BY <1>9 DEF HalfRead, Half, Broken, NoPartial
  <2>3. CASE Completes /\ Broken = {}
    <3>1. /\ peer'.got = peer.got \o <<Packet(n)>> /\ Rest[1].part = Size(n)
      BY <2>3 DEF Completes, n
    <3>2. peer'.got = Append(peer.got, EmittedPackets[n])
      BY <1>1, <1>6, <3>1, SequenceAppend DEF PeerKept
    <3>3. Broken' = {}
      BY <1>4, <1>7, <3>1 DEF Broken
    <3>4. n \in Pending \ Broken /\ Pending' = Pending \ {n}
      BY <1>3, <1>5, <2>3, <3>1
    <3>5. Channel!Arrives
      BY <1>2, <1>3, <1>11, <2>3, <3>2, <3>3, <3>4 DEF Channel!Arrives
    <3> QED BY <3>5 DEF Channel!Next
  <2>4. CASE Collects /\ Broken = {}
    <3>1. peer'.got = peer.got /\ peer'.partial # NoPartial /\ Rest[1].part < Size(n)
      BY <2>4 DEF Collects, NoPartial, n
    <3>2. Broken' = {} /\ Pending' = Pending
      BY <1>5, <3>1 DEF Broken
    <3> QED BY <1>2, <2>4, <3>1, <3>2 DEF Channel!channel
  <2>5. CASE Drops
    <3>1. peer' = peer /\ peer.partial = NoPartial /\ Broken = {n}
      BY <1>8, <1>11, <2>5 DEF Drops
    <3>2. CASE Rest[1].part = Size(n)
      <4>1. Broken' = {} /\ Pending' = Pending \ {n}
        BY <1>4, <1>5, <1>7, <3>2 DEF Broken
      <4>2. Broken' = Broken \ {n}
        BY <3>1, <4>1
      <4>3. Channel!IsLost
        BY <1>2, <1>3, <3>1, <4>1, <4>2 DEF Channel!IsLost
      <4> QED BY <4>3 DEF Channel!Next
    <3>3. CASE Rest[1].part < Size(n)
      <4>1. Broken' = {n} /\ Pending' = Pending
        BY <1>2, <1>4, <1>5, <1>11, <3>1, <3>3 DEF Broken
      <4> QED BY <1>2, <3>1, <4>1 DEF Channel!channel
    <3> QED BY <1>5, <3>2, <3>3
  <2> QED BY <2>1, <2>2, <2>3, <2>4, <2>5
<1> QED BY <1>1, <1>10, <1>11

(* The network thread emits a packet: it is there at once, and may break   *)
(* the one that is due.                                                    *)
LEMMA ChannelNetEmits ==
  ASSUME IInv, IInv', NetEncodes PROVE Channel!NetEmits
<1>1. /\ OutwardInv /\ AreEmitted /\ RestKept /\ PeerKept /\ Bounded /\ Bounded'
      /\ AreEmitted' /\ opened \in BOOLEAN /\ session \in Nat
  BY InvParts, PacketBounds DEF OutwardInv, IInv, Support, TypeOK, Bounded
<1>2. /\ opened' = opened /\ Rest' = Rest /\ SentAsDecoded' = SentAsDecoded
      /\ decoded' = decoded
  BY DEF NetEncodes, Rest, inVars, SentAsDecoded
<1>3. PICK n, p : NetWrote(n, p)
  BY <1>1, NetsOutcome
<1>4. /\ DOMAIN emitted = 1..n - 1 /\ DOMAIN emitted' = 1..n /\ n \in Nat \ {0}
      /\ \A m \in DOMAIN emitted : emitted'[m] = emitted[m]
      /\ emitted'[n].packet = p /\ IsPacket(p) /\ Parts(p) \in Nat \ {0}
  BY <1>3 DEF NetWrote
<1>5. EmittedPackets' = Append(EmittedPackets, Accepted(p))
  BY <1>1, <1>4, ChannelEmits
<1>6. Accepted(p) \in OutwardPackets /\ (Parts(p) > 1 => Accepted(p) \in OutwardWithData)
  <2>1. n \in DOMAIN emitted'
    BY <1>4
  <2>2. PICK shape \in Outward : emitted'[n].packet = Numbered(shape, n)
    BY <1>1, <2>1 DEF AreEmitted
  <2>3. n \in 1..MaxEmits
    <3>1. emitted' \in Seq({emitted'[m] : m \in DOMAIN emitted'})
      <4>1. \E S : emitted' \in Seq(S)
        BY <1>1 DEF AreEmitted
      <4> QED BY <4>1, SequenceOf DEF IsSequence
    <3>2. Len(emitted') = n
      BY <1>4, <3>1
    <3> QED BY <1>1, <1>4, <3>2, PacketBounds DEF Bounded
  <2> QED BY <1>4, <2>2, <2>3, OnChannel
<1>7. Pending' = Pending
  BY <1>2 DEF Pending
<1>8. peer'.got = IF opened THEN Append(peer.got, Accepted(p)) ELSE peer.got
  <2>1. CASE opened
    <3>1. Extends(peer'.got, peer.got, Accepted(p))
      BY <1>3, <2>1 DEF NetWrote
    <3>2. IsSequence(peer.got)
      BY <1>1 DEF PeerKept
    <3>3. Extends(Append(peer.got, Accepted(p)), peer.got, Accepted(p))
      BY <3>2, AppendIs
    <3> DEFINE t == peer'.got
               u == Append(peer.got, Accepted(p))
    <3> HIDE DEF t, u
    <3>4. Extends(t, peer.got, Accepted(p)) /\ Extends(u, peer.got, Accepted(p))
      BY <3>1, <3>3 DEF t, u
    <3>5. \A i \in 1..Len(t) : t[i] = u[i]
      BY <3>4 DEF Extends
    <3>6. t = u
      BY <3>4, <3>5, SequenceSame DEF Extends
    <3> QED BY <2>1, <3>6 DEF t, u
  <2>2. CASE ~opened
    BY <1>3, <2>2 DEF NetWrote
  <2> QED BY <1>1, <2>1, <2>2
<1>9. Broken' = IF opened /\ Half /\ peer'.partial = NoPartial THEN {Rest[1].of} ELSE {}
  BY <1>2 DEF Broken, Half
<1>10. Broken' \in IF opened /\ Accepted(p) \in OutwardWithData
                   THEN {Broken, Channel!Breakable} ELSE {Broken}
  <2>1. CASE ~opened
    BY <1>9, <2>1 DEF Broken
  <2>2. CASE opened /\ Parts(p) = 1
    <3>1. peer'.partial = peer.partial
      BY <1>3, <2>2 DEF NetWrote
    <3> QED BY <1>9, <3>1 DEF Broken
  <2>3. CASE opened /\ Parts(p) > 1
    <3>1. peer'.partial = NoPartial
      BY <1>3, <2>3 DEF NetWrote
    <3>2. CASE Half
      BY <1>1, <1>6, <1>9, <2>3, <3>1, <3>2, HalfIsBreakable
    <3>3. CASE ~Half
      BY <1>9, <3>3 DEF Broken
    <3> QED BY <3>2, <3>3
  <2> QED BY <1>1, <1>4, <2>1, <2>2, <2>3
<1> QED BY <1>2, <1>5, <1>6, <1>7, <1>8, <1>10 DEF Channel!NetEmits

(* The server sends a packet.                                              *)
LEMMA ChannelServerSends ==
  ASSUME IInv, ServerEncodes PROVE Channel!ServerSends
<1>1. InwardInv /\ Bounded
  BY InvParts
<1>2. PICK shape \in Inward : sent' = Append(sent, Numbered(shape, Len(sent) + 1))
  BY DEF ServerEncodes
<1> DEFINE p == Numbered(shape, Len(sent) + 1)
<1>3. /\ opened /\ opened' = opened /\ Len(sent) < MaxSends /\ decoded' = decoded
      /\ emitted' = emitted /\ Rest' = Rest /\ peer' = peer
  BY DEF ServerEncodes, outVars, Rest
<1>4. IsSequence(sent) /\ Len(sent) \in Nat
  BY <1>1, InwardOpened, SequenceShape
<1>5. p \in PacketsOf(Inward, MaxSends)
  <2>1. Len(sent) + 1 \in 1..MaxSends
    BY <1>3, <1>4, PacketBounds
  <2> QED BY <2>1 DEF PacketsOf
<1>6. sent' = Append(sent, p)
  BY <1>2
<1> HIDE DEF p
<1>7. Accepted(p) \in InwardPackets
  BY <1>5 DEF InwardPackets
<1>8. SentAsDecoded' = Append(SentAsDecoded, Accepted(p))
  <2>1. SentAsDecoded' = AsDecoded(Append(sent, p)) /\ SentAsDecoded = AsDecoded(sent)
    BY <1>6 DEF SentAsDecoded, AsDecoded
  <2>2. AsDecoded(Append(sent, p)) = AsDecoded(sent) \o <<Accepted(p)>>
    BY <1>4, AsDecodedAppend
  <2>3. IsSequence(SentAsDecoded)
    BY <1>1, InwardOpened
  <2> QED BY <2>1, <2>2, <2>3, SequenceAppend
<1>9. /\ EmittedPackets' = EmittedPackets /\ Pending' = Pending /\ Broken' = Broken
  BY <1>3 DEF EmittedPackets, Packet, Pending, Broken, Half
<1> QED BY <1>3, <1>7, <1>8, <1>9 DEF Channel!ServerSends

(* What a prefix says of the elements.                                     *)
LEMMA PrefixHas ==
  ASSUME NEW s, IsSequence(s), NEW t, IsSequence(t), IsPrefix(s, t)
  PROVE  Len(s) <= Len(t) /\ \A i \in 1..Len(s) : s[i] = t[i]
<1>1. s \in Seq({s[i] : i \in DOMAIN s}) /\ t \in Seq({t[i] : i \in DOMAIN t})
  BY DEF IsSequence
<1>2. /\ Len(s) \in Nat /\ Len(t) \in Nat /\ Len(s) <= Len(t)
      /\ SubSeq(s, 1, Len(s)) = SubSeq(t, 1, Len(s))
  BY <1>1 DEF IsPrefix
<1>3. SubSeq(s, 1, Len(s)) = [i \in 1..Len(s) |-> s[i]]
  BY <1>1, <1>2
<1>4. SubSeq(t, 1, Len(s)) = [i \in 1..Len(s) |-> t[i]]
  BY <1>1, <1>2
<1>5. \A i \in 1..Len(s) : [j \in 1..Len(s) |-> s[j]][i] = [j \in 1..Len(s) |-> t[j]][i]
  BY <1>2, <1>3, <1>4
<1> QED BY <1>2, <1>5

(* A frame reaches the client: it completes the next packet, or nothing.   *)
LEMMA ChannelClientReceives ==
  ASSUME IInv, DecodedIsSent', OnMessage PROVE [Channel!Next]_(Channel!channel)
<1>1. InwardInv /\ opened \in BOOLEAN
  BY InvParts DEF Bounded
<1> DEFINE e == PutPayload(m_partial_packet, Head(net)).decoded
<1>2. /\ net # <<>> /\ opened' = opened /\ decoded' = decoded \o e /\ sent' = sent
      /\ emitted' = emitted /\ Rest' = Rest /\ peer' = peer
  BY DEF OnMessage, outVars, Rest
<1>3. opened
  BY <1>1, <1>2 DEF InwardInv, InwardKept
<1>4. e = <<>> \/ \E x : e = <<x>>
  BY DEF PutPayload
<1> HIDE DEF e
<1>5. /\ EmittedPackets' = EmittedPackets /\ Pending' = Pending /\ Broken' = Broken
      /\ SentAsDecoded' = SentAsDecoded
  BY <1>2 DEF EmittedPackets, Packet, Pending, Broken, Half, SentAsDecoded
<1>6. IsSequence(decoded) /\ IsSequence(SentAsDecoded)
  BY <1>1, InwardOpened
<1>7. CASE e = <<>>
  <2>1. decoded' = decoded
    BY <1>2, <1>6, <1>7, SequenceShape
  <2> QED BY <1>2, <1>5, <2>1 DEF Channel!channel
<1>8. CASE \E x : e = <<x>>
  <2>1. PICK x : e = <<x>>
    BY <1>8
  <2>2. decoded' = Append(decoded, x)
    BY <1>2, <1>6, <2>1, SequenceAppend
  <2>3. Extends(decoded', decoded, x)
    BY <1>6, <2>2, AppendIs
  <2>4. IsPrefix(decoded', SentAsDecoded)
    BY <1>5 DEF DecodedIsSent
  <2>5. /\ Len(decoded) + 1 <= Len(SentAsDecoded)
        /\ x = SentAsDecoded[Len(decoded) + 1]
    <3>1. /\ Len(decoded') <= Len(SentAsDecoded)
          /\ \A i \in 1..Len(decoded') : decoded'[i] = SentAsDecoded[i]
      BY <1>6, <2>3, <2>4, PrefixHas DEF Extends
    <3> QED BY <2>3, <3>1 DEF Extends
  <2>6. Len(decoded) < Len(SentAsDecoded)
    BY <1>6, <2>5, SequenceShape
  <2>7. Channel!ClientReceives
    BY <1>2, <1>3, <1>5, <2>2, <2>5, <2>6 DEF Channel!ClientReceives
  <2> QED BY <2>7 DEF Channel!Next
<1> QED BY <1>4, <1>7, <1>8

(* At first the channel is closed and nothing is under way.                *)
LEMMA ChannelInit ==
  ASSUME Init PROVE Channel!Init
<1>1. /\ opened = FALSE /\ sent = <<>> /\ decoded = <<>> /\ emitted = <<>>
      /\ posted = <<>> /\ encoding = <<>> /\ peer.got = <<>>
  BY DEF Init, NewPeer
<1>2. Rest = <<>>
  BY <1>1 DEF Rest
<1>3. SentAsDecoded = <<>> /\ EmittedPackets = <<>>
  BY <1>1 DEF SentAsDecoded, EmittedPackets
<1>4. Pending = {} /\ Broken = {}
  BY <1>1, <1>2 DEF Pending, Broken
<1> QED BY <1>1, <1>3, <1>4 DEF Channel!Init

(* Every step is one of the channel's, or is not seen.                     *)
LEMMA ChannelNext ==
  ASSUME IInv, IInv', DecodedIsSent', [Next]_vars
  PROVE  [Channel!Next]_(Channel!channel)
<1>1. CASE Open
  BY <1>1, ChannelOpens DEF Channel!Next
<1>2. CASE Close
  BY <1>2, ChannelCloses DEF Channel!Next
<1>3. CASE UserEncodes
  BY <1>3, ChannelUserEmits DEF Channel!Next
<1>4. CASE UserPosts
  <2>1. /\ opened' = opened /\ sent' = sent /\ decoded' = decoded
        /\ emitted' = emitted /\ peer' = peer
    BY <1>4 DEF UserPosts, inVars
  <2>2. Rest' = Rest
    BY <1>4, UserPostsSame DEF IInv, Support
  <2> QED BY <2>1, <2>2, ChannelUnchanged
<1>5. CASE NetSends
  BY <1>5, ChannelNetSends
<1>6. CASE NetEncodes
  BY <1>6, ChannelNetEmits DEF Channel!Next
<1>7. CASE ServerEncodes
  BY <1>7, ChannelServerSends DEF Channel!Next
<1>8. CASE ServerSends
  BY <1>8, ChannelUnchanged DEF ServerSends, outVars, Rest
<1>9. CASE ServerPongs
  BY <1>9, ChannelUnchanged DEF ServerPongs, outVars, Rest
<1>10. CASE OnMessage
  BY <1>10, ChannelClientReceives
<1>11. CASE UNCHANGED vars
  BY <1>11, ChannelUnchanged DEF vars, outVars, inVars, Rest
<1> QED BY <1>1, <1>2, <1>3, <1>4, <1>5, <1>6, <1>7, <1>8, <1>9, <1>10, <1>11 DEF Next

(* The connection is a PacketChannel, whatever the packets and the bounds: *)
(* a reliable queue to the client in each session, and to the server the   *)
(* packets that were emitted, each once, lost only where they may be.      *)
THEOREM ImplementsChannel == Spec => IsChannel
<1>1. Init => Channel!Init
  BY ChannelInit
<1>2. /\ IInv /\ IInv' /\ DecodedIsSent' /\ [Next]_vars
      => [Channel!Next]_(Channel!channel)
  BY ChannelNext
<1> QED BY <1>1, <1>2, Invariance, DecodesWhatIsSent, PTL
        DEF Spec, IsChannel, Channel!Spec
=============================================================================
