-------------------------- MODULE PacketCodecProofs ---------------------------
(***************************************************************************)
(* Proofs about the pure part of PacketManager, for every packet: what a   *)
(* decoder makes of a sequence of frames, and that it makes of the frames  *)
(* of accept() the packet itself, with its data in their places.           *)
(*                                                                         *)
(* The recursive functions are shown to satisfy their equations, and what  *)
(* they compute is shown, by induction over the length of the sequence     *)
(* (NatSet).                                                               *)
(***************************************************************************)
EXTENDS PacketManager, DataLemmas, FiniteSetTheorems

(* What a decoder has read of some frames, one frame after the other.      *)
LEMMA ReadingStep ==
  ASSUME NEW reader, NEW frames, Len(frames) \in Nat
  PROVE  /\ Reading(reader, frames)[0] = reader
         /\ \A i \in 1..Len(frames) :
              Reading(reader, frames)[i] =
                ReadFrame(Reading(reader, frames)[i - 1], frames[i])
<1> DEFINE Step(f, i) ==
             IF i = 0 THEN reader ELSE ReadFrame(f[i - 1], frames[i])
           Is(f, n) == f = [i \in 0..n |-> Step(f, i)]
           T == {n \in Nat : \E f : Is(f, n)}
<1>1. 0 \in T
  <2>1. Is([i \in 0..0 |-> reader], 0)
    OBVIOUS
  <2> QED BY <2>1
<1>2. ASSUME NEW n \in T PROVE n + 1 \in T
  <2>1. PICK f : Is(f, n)
    OBVIOUS
  <2> DEFINE g == [i \in 0..n + 1 |->
                     IF i <= n THEN f[i] ELSE ReadFrame(f[n], frames[n + 1])]
  <2>2. ASSUME NEW i \in 0..n + 1 PROVE g[i] = Step(g, i)
    <3>1. CASE i = n + 1
      BY <3>1
    <3>2. CASE i <= n
      BY <2>1, <3>2
    <3> QED BY <3>1, <3>2
  <2>3. Is(g, n + 1)
    BY <2>2
  <2> HIDE DEF g, Is
  <2> QED BY <2>3
<1>3. Len(frames) \in T
  BY <1>1, <1>2, NatSet
<1>4. \E f : Is(f, Len(frames))
  BY <1>3
<1>5. Reading(reader, frames) = CHOOSE f : Is(f, Len(frames))
  BY DEF Reading
<1>6. Is(Reading(reader, frames), Len(frames))
  BY <1>4, <1>5
<1> QED BY <1>6

-----------------------------------------------------------------------------
(* Decoders.                                                               *)

(* put_payload on no frame and on one.                                     *)
LEMMA ReadSome ==
  ASSUME NEW reader
  PROVE  /\ Read(reader, <<>>) = reader
         /\ \A frame : Read(reader, <<frame>>) = ReadFrame(reader, frame)
<1>1. Len(<<>>) = 0
  OBVIOUS
<1>2. Read(reader, <<>>) = reader
  BY ReadingStep DEF Read
<1>3. ASSUME NEW frame
      PROVE  Read(reader, <<frame>>) = ReadFrame(reader, frame)
  <2>1. Len(<<frame>>) = 1 /\ <<frame>>[1] = frame
    OBVIOUS
  <2>2. /\ Reading(reader, <<frame>>)[0] = reader
        /\ Reading(reader, <<frame>>)[1] =
             ReadFrame(Reading(reader, <<frame>>)[1 - 1], <<frame>>[1])
    BY <2>1, ReadingStep
  <2> QED BY <2>1, <2>2 DEF Read
<1> QED BY <1>2, <1>3

(* Reading one sequence after another.                                     *)
LEMMA ReadOver ==
  ASSUME NEW reader, NEW s, NEW t, NEW u, Len(s) \in Nat, Len(t) \in Nat,
         Len(u) = Len(s) + Len(t),
         \A i \in 1..Len(s) : u[i] = s[i],
         \A i \in 1..Len(t) : u[Len(s) + i] = t[i]
  PROVE  Read(reader, u) = Read(Read(reader, s), t)
<1> SUFFICES ASSUME NEW m \in Nat, NEW n \in Nat, Len(s) = m, Len(t) = n,
                    Len(u) = m + n
             PROVE  Read(reader, u) = Read(Read(reader, s), t)
  OBVIOUS
<1> DEFINE both == Reading(reader, u)
           first == Reading(reader, s)
           then == Reading(first[m], t)
<1>3. both[0] = reader /\ \A i \in 1..m + n : both[i] = ReadFrame(both[i - 1], u[i])
  <2>1. Len(u) \in Nat
    OBVIOUS
  <2> QED BY <2>1, ReadingStep
<1>4. first[0] = reader /\ \A i \in 1..m : first[i] = ReadFrame(first[i - 1], s[i])
  BY ReadingStep
<1>5. then[0] = first[m] /\ \A i \in 1..n : then[i] = ReadFrame(then[i - 1], t[i])
  BY ReadingStep
<1> HIDE DEF both, first, then
<1>6. \A i \in 0..m : both[i] = first[i]
  <2> DEFINE T == {i \in Nat : i <= m => both[i] = first[i]}
  <2>1. 0 \in T
    BY <1>3, <1>4
  <2>2. ASSUME NEW i \in T PROVE i + 1 \in T
    <3>1. CASE i + 1 <= m
      <4>1. i + 1 \in 1..m /\ i + 1 \in 1..m + n /\ (i + 1) - 1 = i
        BY <3>1
      <4>2. both[i] = first[i] /\ u[i + 1] = s[i + 1]
        BY <3>1, <4>1
      <4>3. both[i + 1] = first[i + 1]
        BY <4>1, <4>2, <1>3, <1>4
      <4> QED BY <4>3
    <3> QED BY <3>1
  <2>3. T = Nat
    BY <2>1, <2>2, NatSet
  <2> QED BY <2>3
<1>7. \A i \in 0..n : both[m + i] = then[i]
  <2> DEFINE T == {i \in Nat : i <= n => both[m + i] = then[i]}
  <2>1. 0 \in T
    BY <1>5, <1>6
  <2>2. ASSUME NEW i \in T PROVE i + 1 \in T
    <3>1. CASE i + 1 <= n
      <4>1. /\ i + 1 \in 1..n /\ m + (i + 1) \in 1..m + n
            /\ (i + 1) - 1 = i /\ (m + (i + 1)) - 1 = m + i
        BY <3>1
      <4>2. both[m + i] = then[i] /\ u[m + (i + 1)] = t[i + 1]
        BY <3>1, <4>1
      <4>3. both[m + (i + 1)] = then[i + 1]
        BY <4>1, <4>2, <1>3, <1>5
      <4> QED BY <4>3
    <3> QED BY <3>1
  <2>3. T = Nat
    BY <2>1, <2>2, NatSet
  <2> QED BY <2>3
<1>8. both[m + n] = then[n]
  BY <1>7
<1> QED BY <1>8 DEF Read, both, first, then

(* Frames may be read in two goes: nothing but the kept packet is carried  *)
(* from one call of put_payload to the next.                               *)
LEMMA ReadJoin ==
  ASSUME NEW reader, NEW s, IsSequence(s), NEW t, IsSequence(t)
  PROVE  Read(reader, s \o t) = Read(Read(reader, s), t)
<1>1. Len(s) \in Nat /\ Len(t) \in Nat
  BY SequenceShape
<1>2. Len(s \o t) = Len(s) + Len(t)
  BY SequenceJoin
<1>3. \A i \in 1..Len(s) : (s \o t)[i] = s[i]
  BY SequenceJoin
<1>4. \A i \in 1..Len(t) : (s \o t)[Len(s) + i] = t[i]
  BY SequenceJoin
<1> DEFINE u == s \o t
<1> HIDE DEF u
<1>5. /\ Len(u) = Len(s) + Len(t)
      /\ \A i \in 1..Len(s) : u[i] = s[i]
      /\ \A i \in 1..Len(t) : u[Len(s) + i] = t[i]
  BY <1>2, <1>3, <1>4, Zenon DEF u
<1>6. Read(reader, u) = Read(Read(reader, s), t)
  BY <1>1, <1>5, ReadOver
<1> QED BY <1>6 DEF u

(* The first frame, then the others.                                       *)
LEMMA ReadTail ==
  ASSUME NEW reader, NEW s, IsSequence(s), s # <<>>
  PROVE  Read(reader, s) = Read(ReadFrame(reader, Head(s)), Tail(s))
<1>1. s = <<Head(s)>> \o Tail(s)
  BY SequenceTail
<1>2. IsSequence(<<Head(s)>>) /\ IsSequence(Tail(s))
  BY SequenceTail
<1>3. Read(reader, <<Head(s)>> \o Tail(s)) = Read(Read(reader, <<Head(s)>>), Tail(s))
  BY <1>2, ReadJoin
<1>4. Read(reader, <<Head(s)>>) = ReadFrame(reader, Head(s))
  BY ReadSome, Zenon
<1> QED BY <1>1, <1>3, <1>4, Zenon

(* All but the last frame, then the last.                                  *)
LEMMA ReadLast ==
  ASSUME NEW reader, NEW s, IsSequence(s), NEW frame
  PROVE  Read(reader, Append(s, frame)) = ReadFrame(Read(reader, s), frame)
<1>1. Append(s, frame) = s \o <<frame>>
  BY SequenceAppend
<1>2. IsSequence(<<frame>>)
  BY SequenceAppend
<1>3. Read(reader, s \o <<frame>>) = Read(Read(reader, s), <<frame>>)
  BY <1>2, ReadJoin
<1>4. Read(Read(reader, s), <<frame>>) = ReadFrame(Read(reader, s), frame)
  BY ReadSome, Zenon
<1> QED BY <1>1, <1>3, <1>4, Zenon

-----------------------------------------------------------------------------
(* The data of a message.                                                  *)

WithItem(buffers, item) ==
  IF IsBinary(item) THEN Append(buffers, item[2]) ELSE buffers

(* accept_binary_message visits one item after the other.                  *)
LEMMA CollectedStep ==
  ASSUME NEW message, Len(message) \in Nat
  PROVE  /\ Collected(message)[0] = <<>>
         /\ \A i \in 1..Len(message) :
              Collected(message)[i] = WithItem(Collected(message)[i - 1], message[i])
<1> DEFINE Step(f, i) ==
             IF i = 0 THEN <<>> ELSE WithItem(f[i - 1], message[i])
           Is(f, n) == f = [i \in 0..n |-> Step(f, i)]
           T == {n \in Nat : \E f : Is(f, n)}
<1>1. 0 \in T
  <2>1. Is([i \in 0..0 |-> <<>>], 0)
    OBVIOUS
  <2> QED BY <2>1
<1>2. ASSUME NEW n \in T PROVE n + 1 \in T
  <2>1. PICK f : Is(f, n)
    OBVIOUS
  <2> DEFINE g == [i \in 0..n + 1 |->
                     IF i <= n THEN f[i] ELSE WithItem(f[n], message[n + 1])]
  <2>2. ASSUME NEW i \in 0..n + 1 PROVE g[i] = Step(g, i)
    <3>1. CASE i = n + 1
      BY <3>1
    <3>2. CASE i <= n
      BY <2>1, <3>2
    <3> QED BY <3>1, <3>2
  <2>3. Is(g, n + 1)
    BY <2>2
  <2> HIDE DEF g, Is
  <2> QED BY <2>3
<1>3. Len(message) \in T
  BY <1>1, <1>2, NatSet
<1>4. \E f : Is(f, Len(message))
  BY <1>3
<1>5. Collected(message) = CHOOSE f : Is(f, Len(message))
  BY DEF Collected, WithItem
<1>6. Is(Collected(message), Len(message))
  BY <1>4, <1>5
<1> QED BY <1>6

(* What is collected only grows: by the data of each item that has some.   *)
LEMMA CollectedKept ==
  ASSUME NEW message, Len(message) \in Nat
  PROVE  \A i \in 0..Len(message) :
           /\ IsSequence(Collected(message)[i])
           /\ \A k \in 1..i :
                /\ IsBinary(message[k]) =>
                     /\ Num(message, k) \in 0..Len(Collected(message)[i]) - 1
                     /\ Collected(message)[i][Num(message, k) + 1] = message[k][2]
<1> DEFINE c == Collected(message)
<1>1. c[0] = <<>> /\ \A i \in 1..Len(message) : c[i] = WithItem(c[i - 1], message[i])
  BY CollectedStep
<1> HIDE DEF c
<1> DEFINE P(i) == /\ IsSequence(c[i])
                   /\ \A k \in 1..i :
                        IsBinary(message[k]) =>
                          /\ Len(c[k - 1]) \in 0..Len(c[i]) - 1
                          /\ c[i][Len(c[k - 1]) + 1] = message[k][2]
<1>2. P(0)
  BY <1>1, SequenceEmpty
<1>3. ASSUME NEW i \in Nat, i + 1 <= Len(message), P(i) PROVE P(i + 1)
  <2>1. i + 1 \in 1..Len(message) /\ (i + 1) - 1 = i
    BY <1>3
  <2>2. c[i + 1] = WithItem(c[i], message[i + 1])
    BY <1>1, <2>1
  <2>3. CASE ~IsBinary(message[i + 1])
    BY <1>3, <2>1, <2>2, <2>3 DEF WithItem
  <2>4. CASE IsBinary(message[i + 1])
    <3> DEFINE d == message[i + 1][2]
    <3>1. c[i + 1] = Append(c[i], d)
      BY <2>2, <2>4 DEF WithItem
    <3>2. IsSequence(c[i]) /\ Len(c[i]) \in Nat
      BY <1>3, SequenceShape
    <3>3. IsSequence(c[i + 1])
      BY <3>1, <3>2, AppendIsSequence, Zenon
    <3>4. Len(c[i + 1]) = Len(c[i]) + 1
      BY <3>1, <3>2, SequenceAppend
    <3>5. \A j \in 1..Len(c[i]) : c[i + 1][j] = c[i][j]
      BY <3>1, <3>2, SequenceAppend
    <3>6. c[i + 1][Len(c[i]) + 1] = d
      BY <3>1, <3>2, SequenceAppend
    <3> HIDE DEF d
    <3>7. ASSUME NEW k \in 1..i + 1, IsBinary(message[k])
          PROVE  /\ Len(c[k - 1]) \in 0..Len(c[i + 1]) - 1
                 /\ c[i + 1][Len(c[k - 1]) + 1] = message[k][2]
      <4>1. CASE k = i + 1
        BY <4>1, <2>1, <3>2, <3>4, <3>6 DEF d
      <4>2. CASE k \in 1..i
        <5>1. /\ Len(c[k - 1]) \in 0..Len(c[i]) - 1
              /\ c[i][Len(c[k - 1]) + 1] = message[k][2]
          BY <4>2, <1>3, <3>7
        <5>2. Len(c[k - 1]) + 1 \in 1..Len(c[i])
          BY <5>1, <3>2
        <5>3. c[i + 1][Len(c[k - 1]) + 1] = message[k][2]
          BY <5>1, <5>2, <3>5, Zenon
        <5>4. Len(c[k - 1]) \in 0..Len(c[i + 1]) - 1
          BY <5>1, <3>2, <3>4
        <5> QED BY <5>3, <5>4
      <4> QED BY <4>1, <4>2
    <3> QED BY <3>3, <3>7
  <2> QED BY <2>3, <2>4
<1> HIDE DEF P
<1>4. \A i \in 0..Len(message) : P(i)
  <2> DEFINE T == {i \in Nat : i <= Len(message) => P(i)}
  <2>1. 0 \in T
    BY <1>2
  <2>2. ASSUME NEW i \in T PROVE i + 1 \in T
    BY <1>3
  <2>3. T = Nat
    BY <2>1, <2>2, NatSet
  <2> QED BY <2>3
<1> QED BY <1>4 DEF P, c, Num

(* Where no item is binary, nothing is collected.                          *)
LEMMA NothingCollected ==
  ASSUME NEW message, Len(message) \in Nat,
         \A i \in 1..Len(message) : ~IsBinary(message[i])
  PROVE  Buffers(message) = <<>>
<1> DEFINE c == Collected(message)
           T == {i \in Nat : i <= Len(message) => c[i] = <<>>}
<1>1. c[0] = <<>> /\ \A i \in 1..Len(message) : c[i] = WithItem(c[i - 1], message[i])
  BY CollectedStep
<1> HIDE DEF c
<1>2. 0 \in T
  BY <1>1
<1>3. ASSUME NEW i \in T PROVE i + 1 \in T
  <2>1. CASE i + 1 <= Len(message)
    <3>1. i + 1 \in 1..Len(message) /\ (i + 1) - 1 = i /\ c[i] = <<>>
      BY <2>1
    <3>2. c[i + 1] = WithItem(c[i], message[i + 1])
      BY <1>1, <3>1
    <3> QED BY <3>1, <3>2 DEF WithItem
  <2> QED BY <2>1
<1>4. T = Nat
  BY <1>2, <1>3, NatSet
<1>5. c[Len(message)] = <<>>
  BY <1>4
<1> QED BY <1>5 DEF c, Buffers

-----------------------------------------------------------------------------
(* Packets.                                                                *)

IsItem(item) == item \in {<<"value", item[2]>>, <<"binary", item[2]>>}
IsPacket(p) ==
  /\ p = Make(p.type, p.nsp, p.pack_id, p.message)
  /\ p.type \in {"connect", "disconnect", "event", "ack", "error"}
  /\ p.pack_id \in Nat \cup {-1}
  /\ IsSequence(p.message) /\ \A i \in 1..Len(p.message) : IsItem(p.message[i])
  /\ p.type \in {"event", "ack"} => p.message # NoMessage
  /\ p.type \notin {"event", "ack"} =>
       p.pack_id = -1 /\ \A i \in 1..Len(p.message) : ~IsBinary(p.message[i])
Parts(p) == 1 + Len(Buffers(p.message))

(* The packet made from a shape.                                           *)
LEMMA NumberedIsPacket ==
  ASSUME NEW shape, IsShape(shape), NEW n
  PROVE  /\ IsPacket(Numbered(shape, n))
         /\ Numbered(shape, n).message = NoMessage <=> shape.message = NoMessage
         /\ \A i \in 1..Len(Numbered(shape, n).message) :
              Numbered(shape, n).message[i][2] = <<n, i>>
<1> DEFINE kinds == shape.message
           message == [i \in DOMAIN kinds |-> <<kinds[i], <<n, i>>>>]
           p == Numbered(shape, n)
<1>1. /\ p.type = shape.type /\ p.nsp = shape.nsp /\ p.pack_id = shape.pack_id
      /\ p.message = message /\ p = Make(p.type, p.nsp, p.pack_id, p.message)
  <2>1. PICK type, nsp, pack_id : shape = Make(type, nsp, pack_id, kinds)
    BY DEF IsShape
  <2>2. p = [shape EXCEPT !.message = message]
    BY DEF Numbered
  <2> HIDE DEF p, message
  <2>3. p = Make(type, nsp, pack_id, message)
    BY <2>1, <2>2 DEF Make
  <2> QED BY <2>1, <2>3 DEF Make
<1>2. kinds \in Seq({"value", "binary"}) /\ Len(kinds) \in Nat
  BY DEF IsShape
<1>3. /\ DOMAIN message = 1..Len(kinds) /\ Len(message) = Len(kinds)
      /\ \A i \in 1..Len(kinds) : message[i] = <<kinds[i], <<n, i>>>>
  BY <1>2
<1>4. IsSequence(message)
  <2>1. message \in Seq({"value", "binary"} \X (UNION {{<<n, i>> : i \in Nat}}))
    BY <1>2
  <2> QED BY <2>1, SequenceOf, Zenon
<1>5. \A i \in 1..Len(message) : IsItem(message[i])
  BY <1>2, <1>3 DEF IsItem
<1>6. \A i \in 1..Len(message) : IsBinary(message[i]) => kinds[i] = "binary"
  BY <1>3 DEF IsBinary
<1>7. message = <<>> <=> kinds = <<>>
  BY <1>2, <1>3
<1> HIDE DEF message, p
<1>8. kinds = NoMessage => p.type \notin {"event", "ack"}
  BY <1>1 DEF IsShape
<1>9. p.type \notin {"event", "ack"} =>
        p.pack_id = -1 /\ \A i \in 1..Len(message) : ~IsBinary(message[i])
  BY <1>1, <1>2, <1>3, <1>6 DEF IsShape
<1>10. IsPacket(p)
  BY <1>1, <1>4, <1>5, <1>7, <1>8, <1>9 DEF IsPacket, IsShape, NoMessage
<1>11. \A i \in 1..Len(message) : message[i][2] = <<n, i>>
  BY <1>3 DEF message
<1> QED BY <1>1, <1>7, <1>10, <1>11 DEF p, NoMessage

(* from_json undoes accept_message.                                        *)
THEOREM JsonRoundTrip ==
  ASSUME NEW p, IsPacket(p)
  PROVE  FromJson(Json(p.message), Buffers(p.message)) = p.message
<1> DEFINE m == p.message
           c == Collected(m)[Len(m)]
<1>1. /\ Len(m) \in Nat /\ DOMAIN m = 1..Len(m) /\ m = [i \in 1..Len(m) |-> m[i]]
      /\ \A i \in 1..Len(m) : IsItem(m[i])
  BY SequenceShape DEF IsPacket
<1>2. \A k \in 1..Len(m) : IsBinary(m[k]) =>
        /\ Num(m, k) \in 0..Len(c) - 1
        /\ c[Num(m, k) + 1] = m[k][2]
  BY <1>1, CollectedKept
<1>3. IsSequence(c)
  BY <1>1, CollectedKept
<1>4. Len(c) \in Nat
  BY <1>3, SequenceShape
<1> HIDE DEF m, c
<1> DEFINE json == Json(m)
<1>5. /\ DOMAIN json = 1..Len(m)
      /\ \A i \in 1..Len(m) :
           json[i] = IF IsBinary(m[i]) THEN <<"placeholder", Num(m, i)>> ELSE m[i]
  BY <1>1 DEF Json
<1> HIDE DEF json
<1>6. ASSUME NEW i \in 1..Len(m)
      PROVE  (IF json[i][1] # "placeholder" THEN json[i]
              ELSE IF json[i][2] < Len(c) THEN <<"binary", c[json[i][2] + 1]>>
              ELSE Null) = m[i]
  <2>1. CASE IsBinary(m[i])
    <3>1. json[i][1] = "placeholder" /\ json[i][2] = Num(m, i)
      BY <1>5, <2>1
    <3>2. m[i] = <<"binary", m[i][2]>>
      BY <1>1, <2>1 DEF IsItem, IsBinary
    <3>3. Num(m, i) < Len(c) /\ c[Num(m, i) + 1] = m[i][2]
      BY <1>2, <1>4, <2>1
    <3> QED BY <3>1, <3>2, <3>3
  <2>2. CASE ~IsBinary(m[i])
    <3>1. json[i] = m[i]
      BY <1>5, <2>2
    <3>2. m[i][1] # "placeholder"
      BY <1>1 DEF IsItem
    <3> QED BY <3>1, <3>2
  <2> QED BY <2>1, <2>2
<1>7. FromJson(json, c) =
        [i \in 1..Len(m) |->
           IF json[i][1] # "placeholder" THEN json[i]
           ELSE IF json[i][2] < Len(c) THEN <<"binary", c[json[i][2] + 1]>>
           ELSE Null]
  BY <1>5 DEF FromJson
<1>8. FromJson(json, c) = [i \in 1..Len(m) |-> m[i]]
  BY <1>6, <1>7
<1> QED BY <1>1, <1>8 DEF json, c, m, Buffers

(* The frames of accept(): the text, and one for each of the data.         *)
LEMMA AcceptShape ==
  ASSUME NEW p, IsPacket(p)
  PROVE  /\ IsSequence(Buffers(p.message)) /\ Len(Buffers(p.message)) \in Nat
         /\ IsSequence(Accept(p)) /\ Len(Accept(p)) = Parts(p)
         /\ DOMAIN Accept(p) = 1..Parts(p)
         /\ Accept(p)[1] =
              Text(TypePart(p) \o NspPart(p) \o IdPart(p) \o JsonPart(p))
         /\ \A k \in 1..Parts(p) - 1 :
              Accept(p)[k + 1] = Binary(Buffers(p.message)[k])
<1> DEFINE b == Buffers(p.message)
           text == Text(TypePart(p) \o NspPart(p) \o IdPart(p) \o JsonPart(p))
           data == [i \in DOMAIN b |-> Binary(b[i])]
<1>1. IsSequence(b)
  <2>1. Len(p.message) \in Nat
    BY SequenceShape DEF IsPacket
  <2> QED BY <2>1, CollectedKept DEF Buffers
<1>2. Len(b) \in Nat /\ DOMAIN b = 1..Len(b)
  BY <1>1, SequenceShape
<1>3. Accept(p) = <<text>> \o data
  BY DEF Accept
<1> HIDE DEF b, text
<1>4. Len(data) = Len(b) /\ \A k \in 1..Len(b) : data[k] = Binary(b[k])
  BY <1>2
<1>5. IsSequence(data)
  <2>1. data \in Seq({Binary(b[i]) : i \in DOMAIN b})
    BY <1>2
  <2> QED BY <2>1, SequenceOf, Zenon
<1> HIDE DEF data
<1>6. IsSequence(<<text>>) /\ Len(<<text>>) = 1 /\ <<text>>[1] = text
  BY SequenceEmpty, AppendIsSequence
<1> DEFINE all == <<text>> \o data
<1>7. IsSequence(all)
  BY <1>5, <1>6, JoinIsSequence, Zenon
<1>8. Len(all) = 1 + Len(b)
  BY <1>4, <1>5, <1>6, SequenceJoin
<1>9. all[1] = text
  BY <1>5, <1>6, SequenceJoin
<1>10. \A k \in 1..Len(b) : all[k + 1] = Binary(b[k])
  <2>1. \A k \in 1..Len(data) : all[1 + k] = data[k]
    BY <1>5, <1>6, SequenceJoin
  <2> QED BY <2>1, <1>2, <1>4
<1> HIDE DEF all
<1>11. DOMAIN all = 1..Len(all)
  BY <1>7, SequenceShape
<1>12. Accept(p) = all /\ Parts(p) = 1 + Len(b)
  BY <1>3 DEF all, Parts, b
<1>13. Parts(p) - 1 = Len(b)
  BY <1>2, <1>12
<1> QED BY <1>1, <1>2, <1>7, <1>8, <1>9, <1>10, <1>11, <1>12, <1>13, Zenon DEF b, text

(* A packet that waits for its data waits for one for each placeholder.    *)
LEMMA PlaceholdersCounted ==
  ASSUME NEW p, IsPacket(p)
  PROVE  Cardinality(Placeholders(Json(p.message))) = Len(Buffers(p.message))
<1> DEFINE m == p.message
           c == Collected(m)
           P(i) == {k \in 1..i : IsBinary(m[k])}
           Counted(i) == IsFiniteSet(P(i)) /\ Cardinality(P(i)) = Len(c[i])
<1>1. /\ Len(m) \in Nat /\ DOMAIN m = 1..Len(m)
      /\ \A i \in 1..Len(m) : IsItem(m[i])
  BY SequenceShape DEF IsPacket
<1>2. c[0] = <<>> /\ \A i \in 1..Len(m) : c[i] = WithItem(c[i - 1], m[i])
  BY <1>1, CollectedStep
<1>3. \A i \in 0..Len(m) : IsSequence(c[i])
  BY <1>1, CollectedKept
<1> HIDE DEF m, c
<1>4. Counted(0)
  <2>1. P(0) = {}
    OBVIOUS
  <2> QED BY <2>1, <1>2, FS_EmptySet
<1>5. ASSUME NEW i \in Nat, i + 1 <= Len(m), Counted(i) PROVE Counted(i + 1)
  <2>1. i + 1 \in 1..Len(m) /\ (i + 1) - 1 = i
    BY <1>5, <1>1
  <2>2. c[i + 1] = WithItem(c[i], m[i + 1])
    BY <1>2, <2>1
  <2>3. CASE ~IsBinary(m[i + 1])
    <3>1. P(i + 1) = P(i)
      BY <2>1, <2>3
    <3> QED BY <1>5, <2>2, <2>3, <3>1 DEF WithItem
  <2>4. CASE IsBinary(m[i + 1])
    <3>1. P(i + 1) = P(i) \cup {i + 1} /\ i + 1 \notin P(i)
      BY <2>1, <2>4
    <3> HIDE DEF P
    <3>2. IsFiniteSet(P(i + 1)) /\ Cardinality(P(i + 1)) = Cardinality(P(i)) + 1
      <4>1. IsFiniteSet(P(i))
        BY <1>5
      <4> QED BY <3>1, <4>1, FS_AddElement
    <3>3. IsSequence(c[i])
      BY <1>3, <1>5, <1>1
    <3>4. Len(c[i + 1]) = Len(c[i]) + 1
      BY <2>2, <2>4, <3>3, SequenceAppend DEF WithItem
    <3> QED BY <3>2, <3>4, <1>5
  <2> QED BY <2>3, <2>4
<1> HIDE DEF P
<1>6. \A i \in 0..Len(m) : Counted(i)
  <2> DEFINE T == {i \in Nat : i <= Len(m) => Counted(i)}
  <2>1. 0 \in T
    BY <1>4
  <2>2. ASSUME NEW i \in T PROVE i + 1 \in T
    BY <1>5, <1>1
  <2>3. T = Nat
    BY <2>1, <2>2, NatSet
  <2> QED BY <2>3
<1>7. Placeholders(Json(m)) = P(Len(m))
  <2>1. DOMAIN Json(m) = 1..Len(m)
    BY <1>1 DEF Json
  <2>2. ASSUME NEW i \in 1..Len(m)
        PROVE  Json(m)[i][1] = "placeholder" <=> IsBinary(m[i])
    BY <1>1 DEF Json, IsItem, IsBinary
  <2> QED BY <2>1, <2>2 DEF Placeholders, P
<1> QED BY <1>1, <1>6, <1>7 DEF m, c, Buffers

-----------------------------------------------------------------------------
(* parse() of what accept() writes.                                        *)

(* find_first_of stops at the first of the tokens it looks for.            *)
LEMMA FindsAt ==
  ASSUME NEW t, Len(t) \in Nat, NEW kinds, NEW pos \in Nat \ {0},
         NEW k \in pos..Len(t), t[k][1] \in kinds,
         \A i \in pos..k - 1 : t[i][1] \notin kinds
  PROVE  Find(t, kinds, pos) = k
<1> DEFINE S == {i \in pos..Len(t) : t[i][1] \in kinds} \cup {Len(t) + 1}
<1>1. k \in S /\ S \subseteq Nat /\ \A i \in S : k <= i
  OBVIOUS
<1>2. \A x \in S : (\A y \in S : x <= y) => x = k
  BY <1>1
<1> HIDE DEF S
<1>3. Min(S) = k
  BY <1>1, <1>2 DEF Min
<1> QED BY <1>3 DEF Find, S

(* find_first_of runs to the end if there is none.                         *)
LEMMA FindsNone ==
  ASSUME NEW t, Len(t) \in Nat, NEW kinds, NEW pos \in Nat \ {0},
         \A i \in pos..Len(t) : t[i][1] \notin kinds
  PROVE  Find(t, kinds, pos) = Len(t) + 1
<1> DEFINE S == {i \in pos..Len(t) : t[i][1] \in kinds} \cup {Len(t) + 1}
<1>1. S = {Len(t) + 1}
  OBVIOUS
<1>2. Min({Len(t) + 1}) = Len(t) + 1
  BY DEF Min
<1> HIDE DEF S
<1> QED BY <1>1, <1>2 DEF Find, S

Joined(a, b, c, d) == a \o b \o c \o d
AreJoined(t, a, b, c, d) ==
  /\ Len(t) = Len(a) + Len(b) + Len(c) + Len(d)
  /\ \A i \in 1..Len(a) : t[i] = a[i]
  /\ \A i \in 1..Len(b) : t[Len(a) + i] = b[i]
  /\ \A i \in 1..Len(c) : t[Len(a) + Len(b) + i] = c[i]
  /\ \A i \in 1..Len(d) : t[Len(a) + Len(b) + Len(c) + i] = d[i]

(* The four parts of a text: the places of their tokens.                   *)
LEMMA FourJoined ==
  ASSUME NEW a, IsSequence(a), NEW b, IsSequence(b),
         NEW c, IsSequence(c), NEW d, IsSequence(d)
  PROVE  AreJoined(Joined(a, b, c, d), a, b, c, d)
<1> DEFINE ab == a \o b
           abc == ab \o c
           all == abc \o d
<1>1. /\ Len(a) \in Nat /\ Len(b) \in Nat /\ Len(c) \in Nat /\ Len(d) \in Nat
  BY SequenceShape
<1>2. /\ Len(ab) = Len(a) + Len(b)
      /\ \A i \in 1..Len(a) : ab[i] = a[i]
      /\ \A i \in 1..Len(b) : ab[Len(a) + i] = b[i]
  BY SequenceJoin
<1>ab. IsSequence(ab)
  BY JoinIsSequence, Zenon
<1> HIDE DEF ab
<1>3. /\ Len(abc) = Len(ab) + Len(c)
      /\ \A i \in 1..Len(ab) : abc[i] = ab[i]
      /\ \A i \in 1..Len(c) : abc[Len(ab) + i] = c[i]
  BY <1>ab, SequenceJoin
<1>abc. IsSequence(abc)
  BY <1>ab, JoinIsSequence, Zenon
<1> HIDE DEF abc
<1>4. /\ Len(all) = Len(abc) + Len(d)
      /\ \A i \in 1..Len(abc) : all[i] = abc[i]
      /\ \A i \in 1..Len(d) : all[Len(abc) + i] = d[i]
  BY <1>abc, SequenceJoin
<1> HIDE DEF all
<1>5. Len(all) = Len(a) + Len(b) + Len(c) + Len(d)
  BY <1>1, <1>2, <1>3, <1>4
<1>6. \A i \in 1..Len(a) : all[i] = a[i]
  BY <1>1, <1>2, <1>3, <1>4
<1>7. \A i \in 1..Len(b) : all[Len(a) + i] = b[i]
  BY <1>1, <1>2, <1>3, <1>4
<1>8. \A i \in 1..Len(c) : all[Len(a) + Len(b) + i] = c[i]
  BY <1>1, <1>2, <1>3, <1>4
<1>9. \A i \in 1..Len(d) : all[Len(a) + Len(b) + Len(c) + i] = d[i]
  BY <1>1, <1>2, <1>3, <1>4
<1> QED BY <1>5, <1>6, <1>7, <1>8, <1>9, Zenon DEF all, abc, ab, Joined, AreJoined

BinaryTypes == {"binary_event", "binary_ack"}

(* A packet with some of its data, and the number of those to come.        *)
Partly(p, pending, buffers) ==
  [frame |-> "message", type |-> Accepted(p).type, nsp |-> p.nsp,
   pack_id |-> p.pack_id, pending |-> pending,
   partial |-> Buffers(p.message) # <<>>,
   json |-> Json(p.message), buffers |-> buffers]

(* The parts that parse() finds in a text, and the packet from them.     *)
AreParts(t, type, isBinary, start, nsp_json, hasNsp, pos, end, hasJson) ==
  /\ type = IF t[1][2] = "message" THEN t[2][2] ELSE "undetermined"
  /\ isBinary = (type \in {"binary_event", "binary_ack"})
  /\ start = IF isBinary THEN Find(t, {"dash"}, 1) + 1
             ELSE IF t[1][2] = "message" THEN 3 ELSE 2
  /\ nsp_json = Find(t, {"nsp", "json"}, start)
  /\ hasNsp = (nsp_json <= Len(t) /\ t[nsp_json][1] = "nsp")
  /\ pos = IF hasNsp THEN Find(t, {"comma"}, 1) + 1 ELSE start
  /\ end = Find(t, {"json"}, pos)
  /\ hasJson = (end <= Len(t))
FromParts(t, type, isBinary, nsp_json, hasNsp, pos, end, hasJson) ==
  [frame |-> t[1][2], type |-> type,
   nsp |-> IF hasNsp THEN t[nsp_json][2] ELSE "/",
   pack_id |-> IF hasJson /\ pos < end THEN NumberIn(t, pos, end) ELSE -1,
   pending |-> IF isBinary THEN NumberIn(t, 3, Find(t, {"dash"}, 1)) ELSE 0,
   partial |-> isBinary /\ hasJson,
   json |-> IF hasJson THEN t[end][2] ELSE NoMessage,
   buffers |-> <<>>]

(* parse() makes its packet of the parts it finds.                         *)
LEMMA ParseFrom ==
  ASSUME NEW t, NEW type, NEW isBinary, NEW start, NEW nsp_json, NEW hasNsp,
         NEW pos, NEW end, NEW hasJson,
         AreParts(t, type, isBinary, start, nsp_json, hasNsp, pos, end, hasJson)
  PROVE  Parse(Text(t)) = FromParts(t, type, isBinary, nsp_json, hasNsp, pos, end, hasJson)
<1>1. Text(t).tokens = t
  BY DEF Text
<1> QED BY <1>1 DEF Parse, AreParts, FromParts

(* What parse() makes of the text.                                         *)
THEOREM ParseAccept ==
  ASSUME NEW p, IsPacket(p)
  PROVE  Parse(Accept(p)[1]) = Partly(p, Len(Buffers(p.message)), <<>>)
<1> DEFINE b == Buffers(p.message)
           t == Joined(TypePart(p), NspPart(p), IdPart(p), JsonPart(p))
           h == Len(TypePart(p))
           a == Len(NspPart(p))
           c == Len(IdPart(p))
           d == Len(JsonPart(p))
           json == Json(p.message)
           type == Accepted(p).type
<1>1. IsSequence(b) /\ Len(b) \in Nat /\ (b = <<>> <=> Len(b) = 0)
  BY AcceptShape, SequenceShape
<1>2. Accept(p)[1] = Text(t)
  BY AcceptShape, Zenon DEF Joined
<1>3. /\ p.type \in {"connect", "disconnect", "event", "ack", "error"}
      /\ p.pack_id \in Nat \cup {-1}
      /\ p.pack_id >= 0 => p.message # NoMessage
      /\ b # <<>> => p.message # NoMessage /\ p.type \in {"event", "ack"}
  <2>1. p.type \notin {"event", "ack"} => b = <<>>
    <3>1. Len(p.message) \in Nat
      BY SequenceShape DEF IsPacket
    <3> QED BY <3>1, NothingCollected DEF IsPacket
  <2>2. p.type \in {"event", "ack"} => p.message # NoMessage
    BY DEF IsPacket
  <2> QED BY <2>1, <2>2 DEF IsPacket
<1>4. type = IF b = <<>> THEN p.type ELSE BinaryType(p.type)
  BY DEF Accepted, IsPacket, Make
<1>5. type \in BinaryTypes <=> b # <<>>
  BY <1>3, <1>4 DEF BinaryType, BinaryTypes
<1>a. TypePart(p) =
        IF b = <<>> THEN <<<<"frame", "message">>, <<"type", type>>>>
        ELSE <<<<"frame", "message">>, <<"type", type>>,
               <<"number", Len(b)>>, <<"dash", 0>>>>
  BY <1>4, Zenon DEF TypePart
<1> HIDE DEF b, t, json, type
<1>6. /\ IsSequence(TypePart(p)) /\ h = (IF b = <<>> THEN 2 ELSE 4)
      /\ TypePart(p)[1] = <<"frame", "message">> /\ TypePart(p)[2] = <<"type", type>>
      /\ b # <<>> => TypePart(p)[3] = <<"number", Len(b)>> /\ TypePart(p)[4] = <<"dash", 0>>
  <2>1. CASE b = <<>>
    <3>1. TypePart(p) = <<<<"frame", "message">>, <<"type", type>>>>
      BY <1>a, <2>1, Zenon
    <3>2. IsSequence(TypePart(p))
      BY <3>1, SequenceTuples, Zenon
    <3>3. h = 2
      BY <3>1
    <3> QED BY <2>1, <3>1, <3>2, <3>3
  <2>2. CASE b # <<>>
    <3>1. TypePart(p) = <<<<"frame", "message">>, <<"type", type>>,
                          <<"number", Len(b)>>, <<"dash", 0>>>>
      BY <1>a, <2>2, Zenon
    <3>2. IsSequence(TypePart(p))
      BY <3>1, SequenceTuples, Zenon
    <3>3. h = 4
      BY <3>1
    <3> QED BY <2>2, <3>1, <3>2, <3>3
  <2> QED BY <2>1, <2>2
<1>7. /\ IsSequence(NspPart(p))
      /\ a = IF p.nsp = "/" THEN 0 ELSE IF p.message # NoMessage THEN 2 ELSE 1
      /\ a >= 1 => NspPart(p)[1] = <<"nsp", p.nsp>>
      /\ a >= 2 => NspPart(p)[2] = <<"comma", 0>>
  <2>1. CASE p.nsp = "/"
    BY <2>1, SequenceEmpty DEF NspPart
  <2>2. CASE p.nsp # "/" /\ p.message # NoMessage
    <3>1. NspPart(p) = <<<<"nsp", p.nsp>>, <<"comma", 0>>>>
      BY <2>2 DEF NspPart
    <3>2. IsSequence(NspPart(p))
      BY <3>1, SequenceTuples, Zenon
    <3>3. a = 2
      BY <3>1
    <3>4. NspPart(p)[1] = <<"nsp", p.nsp>>
      BY <3>1
    <3>5. NspPart(p)[2] = <<"comma", 0>>
      BY <3>1
    <3>6. a = IF p.nsp = "/" THEN 0 ELSE IF p.message # NoMessage THEN 2 ELSE 1
      BY <2>2, <3>3
    <3> QED BY <3>2, <3>4, <3>5, <3>6, Zenon
  <2>3. CASE p.nsp # "/" /\ p.message = NoMessage
    <3>1. NspPart(p) = <<<<"nsp", p.nsp>>>>
      BY <1>3, <2>3 DEF NspPart
    <3>2. IsSequence(NspPart(p))
      BY <3>1, SequenceTuples, Zenon
    <3> QED BY <2>3, <3>1, <3>2
  <2> QED BY <2>1, <2>2, <2>3
<1>8. /\ IsSequence(IdPart(p))
      /\ c = IF p.pack_id >= 0 THEN 1 ELSE 0
      /\ c = 1 => IdPart(p)[1] = <<"number", p.pack_id>>
  <2>1. CASE p.pack_id >= 0
    <3>1. IdPart(p) = <<<<"number", p.pack_id>>>>
      BY <2>1 DEF IdPart
    <3>2. IsSequence(IdPart(p))
      BY <3>1, SequenceTuples, Zenon
    <3> QED BY <2>1, <3>1, <3>2
  <2>2. CASE ~(p.pack_id >= 0)
    BY <2>2, SequenceEmpty DEF IdPart
  <2> QED BY <2>1, <2>2
<1>9. /\ IsSequence(JsonPart(p))
      /\ d = IF p.message # NoMessage THEN 1 ELSE 0
      /\ d = 1 => JsonPart(p)[1] = <<"json", json>>
  <2>1. CASE p.message # NoMessage
    <3>1. JsonPart(p) = <<<<"json", json>>>>
      BY <2>1 DEF JsonPart, json
    <3>2. IsSequence(JsonPart(p))
      BY <3>1, SequenceTuples, Zenon
    <3> QED BY <2>1, <3>1, <3>2
  <2>2. CASE p.message = NoMessage
    BY <2>2, SequenceEmpty DEF JsonPart
  <2> QED BY <2>1, <2>2
<1>10. /\ Len(t) = h + a + c + d
       /\ \A i \in 1..h : t[i] = TypePart(p)[i]
       /\ \A i \in 1..a : t[h + i] = NspPart(p)[i]
       /\ \A i \in 1..c : t[h + a + i] = IdPart(p)[i]
       /\ \A i \in 1..d : t[h + a + c + i] = JsonPart(p)[i]
  <2>1. /\ IsSequence(TypePart(p)) /\ IsSequence(NspPart(p))
        /\ IsSequence(IdPart(p)) /\ IsSequence(JsonPart(p))
    BY <1>6, <1>7, <1>8, <1>9, Zenon
  <2>2. AreJoined(t, TypePart(p), NspPart(p), IdPart(p), JsonPart(p))
    BY <2>1, FourJoined, Zenon DEF t
  <2> QED BY <2>2, Zenon DEF AreJoined
<1>11. /\ h = (IF b = <<>> THEN 2 ELSE 4)
       /\ a = (IF p.nsp = "/" THEN 0 ELSE IF p.message # NoMessage THEN 2 ELSE 1)
       /\ c = (IF p.pack_id >= 0 THEN 1 ELSE 0)
       /\ d = (IF p.message # NoMessage THEN 1 ELSE 0)
  BY <1>6, <1>7, <1>8, <1>9, Zenon
<1> HIDE DEF h, a, c, d
<1>12. /\ h \in {2, 4} /\ a \in {0, 1, 2} /\ c \in {0, 1} /\ d \in {0, 1}
       /\ (h = 4) <=> (b # <<>>)
       /\ (h = 4) => (d = 1)
       /\ (c = 1) => (d = 1)
       /\ (a = 1) => (c = 0 /\ d = 0)
       /\ (a = 2) => (d = 1)
       /\ (a = 0) <=> (p.nsp = "/")
       /\ (d = 1) <=> (p.message # NoMessage)
       /\ (c = 1) <=> (p.pack_id # -1)
  BY <1>3, <1>11
<1>13. /\ Len(t) = h + a + c + d /\ Len(t) \in Nat
       /\ t[1] = TypePart(p)[1] /\ t[2] = TypePart(p)[2]
       /\ h = 4 => t[3] = TypePart(p)[3] /\ t[4] = TypePart(p)[4]
       /\ a >= 1 => t[h + 1] = NspPart(p)[1]
       /\ a = 2 => t[h + 2] = NspPart(p)[2]
       /\ c = 1 => t[h + a + 1] = IdPart(p)[1]
       /\ d = 1 => t[h + a + c + 1] = JsonPart(p)[1]
  BY <1>10, <1>12
<1>14. /\ t[1][1] = "frame" /\ t[2][1] = "type"
       /\ h = 4 => t[3][1] = "number" /\ t[4][1] = "dash"
       /\ a >= 1 => t[h + 1][1] = "nsp"
       /\ a = 2 => t[h + 2][1] = "comma"
       /\ c = 1 => t[h + a + 1][1] = "number"
       /\ d = 1 => t[h + a + c + 1][1] = "json"
  <2>1. t[1][1] = "frame" /\ t[2][1] = "type"
    BY <1>13, <1>6
  <2>2. h = 4 => t[3][1] = "number" /\ t[4][1] = "dash"
    BY <1>13, <1>6, <1>12
  <2>3. a >= 1 => t[h + 1][1] = "nsp"
    BY <1>13, <1>7, <1>12
  <2>4. a = 2 => t[h + 2][1] = "comma"
    BY <1>13, <1>7, <1>12
  <2>5. c = 1 => t[h + a + 1][1] = "number"
    BY <1>13, <1>8
  <2>6. d = 1 => t[h + a + c + 1][1] = "json"
    BY <1>13, <1>9
  <2> QED BY <2>1, <2>2, <2>3, <2>4, <2>5, <2>6
<1>15. t[1][2] = "message" /\ t[2][2] = type
  BY <1>13, <1>6
<1>16. h = 4 => t[3][2] = Len(b)
  BY <1>13, <1>6, <1>12
<1>17. a >= 1 => t[h + 1][2] = p.nsp
  BY <1>13, <1>7, <1>12
<1>18. c = 1 => t[h + a + 1][2] = p.pack_id
  BY <1>13, <1>8
<1>19. d = 1 => t[h + a + c + 1][2] = json
  BY <1>13, <1>9
<1>20. h = 4 => Find(t, {"dash"}, 1) = 4
  <2> SUFFICES ASSUME h = 4 PROVE Find(t, {"dash"}, 1) = 4
    OBVIOUS
  <2>1. 4 \in 1..Len(t) /\ t[4][1] = "dash" /\ \A i \in 1..4 - 1 : t[i][1] # "dash"
    BY <1>12, <1>13, <1>14
  <2> QED BY <2>1, <1>13, FindsAt
<1> DEFINE start == h + 1
           nsp_json == Find(t, {"nsp", "json"}, start)
           pos == IF a = 0 THEN start ELSE Find(t, {"comma"}, 1) + 1
           end == Find(t, {"json"}, pos)
<1>21. nsp_json = IF a > 0 THEN h + 1 ELSE IF d = 1 THEN h + c + 1 ELSE Len(t) + 1
  <2>1. CASE a > 0
    <3>1. h + 1 \in h + 1..Len(t) /\ t[h + 1][1] = "nsp"
      BY <2>1, <1>12, <1>13, <1>14
    <3>2. h + 1 \in Nat \ {0} /\ \A i \in h + 1..(h + 1) - 1 : t[i][1] \notin {"nsp", "json"}
      BY <1>12
    <3> QED BY <2>1, <3>1, <3>2, <1>13, FindsAt
  <2>2. CASE a = 0 /\ d = 1
    <3>1. h + c + 1 \in h + 1..Len(t) /\ t[h + c + 1][1] = "json"
      BY <2>2, <1>12, <1>13, <1>14
    <3>2. /\ h + 1 \in Nat \ {0}
          /\ \A i \in h + 1..(h + c + 1) - 1 : t[i][1] \notin {"nsp", "json"}
      BY <2>2, <1>12, <1>13, <1>14
    <3>3. nsp_json = h + c + 1
      BY <3>1, <3>2, <1>13, FindsAt
    <3> QED BY <2>2, <3>3
  <2>3. CASE a = 0 /\ d = 0
    <3>1. Len(t) = h
      BY <2>3, <1>12, <1>13
    <3>2. h + 1 \in Nat \ {0} /\ \A i \in h + 1..Len(t) : t[i][1] \notin {"nsp", "json"}
      BY <3>1, <1>12
    <3>3. nsp_json = Len(t) + 1
      BY <3>2, <1>13, FindsNone
    <3> QED BY <2>3, <3>3
  <2> QED BY <2>1, <2>2, <2>3, <1>12
<1>22. pos = IF a = 1 THEN h + 3 ELSE h + a + 1
  <2>1. CASE a = 0
    BY <2>1, <1>12
  <2>2. CASE a = 1
    <3>1. Len(t) = h + 1 /\ \A i \in 1..Len(t) : t[i][1] # "comma"
      BY <2>2, <1>12, <1>13, <1>14
    <3>2. Find(t, {"comma"}, 1) = Len(t) + 1
      BY <3>1, <1>13, FindsNone
    <3> QED BY <2>2, <3>1, <3>2, <1>12
  <2>3. CASE a = 2
    <3>1. /\ h + 2 \in 1..Len(t) /\ t[h + 2][1] = "comma"
          /\ \A i \in 1..(h + 2) - 1 : t[i][1] # "comma"
      BY <2>3, <1>12, <1>13, <1>14
    <3>2. Find(t, {"comma"}, 1) = h + 2
      BY <3>1, <1>13, FindsAt
    <3> QED BY <2>3, <3>2, <1>12
  <2> QED BY <2>1, <2>2, <2>3, <1>12
<1>23. end = IF d = 1 THEN h + a + c + 1 ELSE Len(t) + 1
  <2>1. CASE d = 1
    <3>1. pos = h + a + 1
      BY <1>22, <1>12, <2>1
    <3>2. /\ h + a + c + 1 \in h + a + 1..Len(t)
          /\ t[h + a + c + 1][1] = "json"
          /\ \A i \in h + a + 1..(h + a + c + 1) - 1 : t[i][1] # "json"
      BY <2>1, <1>12, <1>13, <1>14
    <3>3. h + a + 1 \in Nat \ {0}
      BY <1>12
    <3>4. Find(t, {"json"}, h + a + 1) = h + a + c + 1
      BY <3>2, <3>3, <1>13, FindsAt
    <3> HIDE DEF pos
    <3> QED BY <2>1, <3>1, <3>4
  <2>2. CASE d = 0
    <3>1. pos > Len(t) /\ pos \in Nat \ {0}
      BY <1>22, <1>12, <1>13, <2>2
    <3> HIDE DEF pos
    <3>2. \A i \in pos..Len(t) : t[i][1] \notin {"json"}
      BY <3>1, <1>13
    <3>3. end = Len(t) + 1
      BY <3>1, <3>2, <1>13, FindsNone
    <3> QED BY <2>2, <3>3
  <2> QED BY <2>1, <2>2, <1>12
<1>24. /\ d = 0 => json = NoMessage
       /\ d = 0 => c = 0 /\ p.pack_id = -1
  <2>1. d = 0 => json = NoMessage
    BY <1>12 DEF json, Json, NoMessage
  <2> QED BY <2>1, <1>12
<1> DEFINE isBinary == type \in BinaryTypes
           hasNsp == nsp_json <= Len(t) /\ t[nsp_json][1] = "nsp"
           hasJson == end <= Len(t)
<1>25. hasNsp <=> a > 0
  <2> HIDE DEF nsp_json
  <2>1. CASE a > 0
    BY <2>1, <1>12, <1>13, <1>14, <1>21
  <2>2. CASE a = 0 /\ d = 1
    BY <2>2, <1>12, <1>13, <1>14, <1>21
  <2>3. CASE a = 0 /\ d = 0
    BY <2>3, <1>12, <1>13, <1>21
  <2> QED BY <2>1, <2>2, <2>3, <1>12
<1>26. hasJson <=> d = 1
  <2> HIDE DEF end
  <2> QED BY <1>12, <1>13, <1>23
<1>27. isBinary <=> h = 4
  BY <1>5, <1>12
<1> DEFINE mid == IF hasNsp THEN Find(t, {"comma"}, 1) + 1 ELSE start
<1>28. mid = pos
  BY <1>25, <1>12
<1>29. (IF hasNsp THEN t[nsp_json][2] ELSE "/") = p.nsp
  <2> HIDE DEF hasNsp, nsp_json
  <2> QED BY <1>25, <1>21, <1>17, <1>12
<1>30. (IF hasJson /\ pos < end THEN NumberIn(t, pos, end) ELSE -1) = p.pack_id
  <2> HIDE DEF hasJson, pos, end
  <2>1. CASE d = 0
    BY <2>1, <1>26, <1>24
  <2>2. CASE d = 1 /\ c = 1
    BY <2>2, <1>26, <1>18, <1>22, <1>23, <1>12 DEF NumberIn
  <2>3. CASE d = 1 /\ c = 0
    BY <2>3, <1>26, <1>22, <1>23, <1>12
  <2> QED BY <2>1, <2>2, <2>3, <1>12
<1>31. (IF hasJson THEN t[end][2] ELSE NoMessage) = json
  <2> HIDE DEF hasJson, end
  <2> QED BY <1>26, <1>24, <1>19, <1>23, <1>12
<1>32. (IF isBinary THEN NumberIn(t, 3, Find(t, {"dash"}, 1)) ELSE 0) = Len(b)
  BY <1>1, <1>27, <1>16, <1>12 DEF NumberIn
<1>33. (isBinary /\ hasJson) = (b # <<>>)
  <2> HIDE DEF isBinary, hasJson
  <2> QED BY <1>26, <1>27, <1>12
<1>34. (IF isBinary THEN Find(t, {"dash"}, 1) + 1 ELSE 3) = start
  <2> HIDE DEF isBinary
  <2> QED BY <1>20, <1>27, <1>12
<1>35. Parse(Text(t)) = FromParts(t, type, isBinary, nsp_json, hasNsp, pos, end, hasJson)
  <2>1. type = IF t[1][2] = "message" THEN t[2][2] ELSE "undetermined"
    BY <1>15
  <2>2. isBinary = (type \in {"binary_event", "binary_ack"})
    BY DEF BinaryTypes
  <2>3. start = IF isBinary THEN Find(t, {"dash"}, 1) + 1
                ELSE IF t[1][2] = "message" THEN 3 ELSE 2
    <3> HIDE DEF start, isBinary
    <3> QED BY <1>15, <1>34
  <2>4. nsp_json = Find(t, {"nsp", "json"}, start)
    OBVIOUS
  <2>5. hasNsp = (nsp_json <= Len(t) /\ t[nsp_json][1] = "nsp")
    OBVIOUS
  <2>6. pos = IF hasNsp THEN Find(t, {"comma"}, 1) + 1 ELSE start
    BY <1>28
  <2>7. end = Find(t, {"json"}, pos)
    OBVIOUS
  <2>8. hasJson = (end <= Len(t))
    OBVIOUS
  <2> HIDE DEF start, nsp_json, pos, end, isBinary, hasNsp, hasJson, type, t
  <2>9. AreParts(t, type, isBinary, start, nsp_json, hasNsp, pos, end, hasJson)
    BY <2>1, <2>2, <2>3, <2>4, <2>5, <2>6, <2>7, <2>8, Zenon DEF AreParts
  <2> QED BY <2>9, ParseFrom, Zenon
<1> HIDE DEF hasNsp, hasJson, isBinary, pos, start
<1> QED BY <1>2, <1>15, <1>29, <1>30, <1>31, <1>32, <1>33, <1>35, Zenon
       DEF type, json, b, Partly, FromParts

-----------------------------------------------------------------------------
(* A decoder that reads the frames of a packet one after the other.        *)

IsReader(r) == r = [partial |-> r.partial, got |-> r.got] /\ IsSequence(r.got)

(* The data of a packet up to one of them.                                 *)
LEMMA SequencePrefix ==
  ASSUME NEW s, IsSequence(s), NEW k \in 0..Len(s)
  PROVE  /\ IsSequence(SubSeq(s, 1, k)) /\ Len(SubSeq(s, 1, k)) = k
         /\ SubSeq(s, 1, 0) = <<>> /\ SubSeq(s, 1, Len(s)) = s
         /\ k < Len(s) => Append(SubSeq(s, 1, k), s[k + 1]) = SubSeq(s, 1, k + 1)
<1> DEFINE S == {s[i] : i \in DOMAIN s}
<1>1. s \in Seq(S) /\ Len(s) \in Nat
  BY DEF IsSequence
<1> HIDE DEF S
<1>2. SubSeq(s, 1, k) \in Seq(S)
  BY <1>1
<1>3. IsSequence(SubSeq(s, 1, k))
  BY <1>2, SequenceOf, Zenon
<1>4. Len(SubSeq(s, 1, k)) = k
  BY <1>1
<1>5. SubSeq(s, 1, 0) = <<>> /\ SubSeq(s, 1, Len(s)) = s
  BY <1>1
<1>6. k < Len(s) => Append(SubSeq(s, 1, k), s[k + 1]) = SubSeq(s, 1, k + 1)
  BY <1>1
<1> QED BY <1>3, <1>4, <1>5, <1>6

(* A text frame is one.                                                    *)
LEMMA TextIsText ==
  ASSUME NEW tokens
  PROVE  Text(tokens).opcode = "text"
BY DEF Text

(* The fields of a packet that is read in part: its frame type,            *)
LEMMA PartlyFrame ==
  ASSUME NEW p, NEW pending, NEW buffers
  PROVE  Partly(p, pending, buffers).frame = "message"
BY DEF Partly

(* whether it waits for data,                                              *)
LEMMA PartlyPartial ==
  ASSUME NEW p, NEW pending, NEW buffers
  PROVE  Partly(p, pending, buffers).partial = (Buffers(p.message) # <<>>)
BY DEF Partly

(* for how many,                                                           *)
LEMMA PartlyPending ==
  ASSUME NEW p, NEW pending, NEW buffers
  PROVE  Partly(p, pending, buffers).pending = pending
BY DEF Partly

(* those it has,                                                           *)
LEMMA PartlyBuffers ==
  ASSUME NEW p, NEW pending, NEW buffers
  PROVE  Partly(p, pending, buffers).buffers = buffers
BY DEF Partly

(* its message,                                                            *)
LEMMA PartlyJson ==
  ASSUME NEW p, NEW pending, NEW buffers
  PROVE  /\ Partly(p, pending, buffers).json = Json(p.message)
         /\ {"pending", "buffers", "json"} \subseteq DOMAIN Partly(p, pending, buffers)
BY DEF Partly

(* and what the decode callback would be given.                            *)
LEMMA PartlyDecoded ==
  ASSUME NEW p, NEW pending, NEW buffers
  PROVE  Decoded(Partly(p, pending, buffers)) =
           Make(Accepted(p).type, p.nsp, p.pack_id, FromJson(Json(p.message), buffers))
BY DEF Partly, Decoded

Changed(q, pending, buffers) ==
  [q EXCEPT !.pending = pending, !.buffers = buffers]

(* Another count and other data give another such packet.                  *)
LEMMA PartlyChanged ==
  ASSUME NEW p, NEW pending, NEW buffers, NEW n, NEW b
  PROVE  Changed(Partly(p, pending, buffers), n, b) = Partly(p, n, b)
<1> DEFINE q == Partly(p, pending, buffers)
<1>1. [q EXCEPT !.pending = n] = Partly(p, n, buffers)
  BY DEF Partly
<1>2. [Partly(p, n, buffers) EXCEPT !.buffers = b] = Partly(p, n, b)
  BY DEF Partly
<1> HIDE DEF q
<1>3. [q EXCEPT !.pending = n, !.buffers = b] =
        [[q EXCEPT !.pending = n] EXCEPT !.buffers = b]
  OBVIOUS
<1> QED BY <1>1, <1>2, <1>3 DEF q, Changed

(* A packet of which k frames have been read has k - 1 of its data and     *)
(* waits for the others.                                                   *)
LEMMA AfterIs ==
  ASSUME NEW p, IsPacket(p), NEW k
  PROVE  After(p, k) = Partly(p, Len(Buffers(p.message)) - (k - 1),
                              SubSeq(Buffers(p.message), 1, k - 1))
<1> DEFINE all == Len(Buffers(p.message))
           n == all - (k - 1)
           b == SubSeq(Buffers(p.message), 1, k - 1)
<1>1. Parse(Accept(p)[1]) = Partly(p, all, <<>>)
  BY ParseAccept
<1>2. Partly(p, all, <<>>).pending = all
  BY PartlyPending
<1>3. After(p, k) =
        Changed(Partly(p, all, <<>>), Partly(p, all, <<>>).pending - (k - 1), b)
  BY <1>1 DEF After, Changed
<1> HIDE DEF b, all
<1>4. After(p, k) = Changed(Partly(p, all, <<>>), n, b)
  BY <1>2, <1>3
<1> HIDE DEF n
<1>5. After(p, k) = Partly(p, n, b)
  BY <1>4, PartlyChanged
<1> QED BY <1>5 DEF b, n, all

(* accept() changes nothing but the type.                                  *)
LEMMA AcceptedIs ==
  ASSUME NEW p, IsPacket(p)
  PROVE  Accepted(p) = Make(Accepted(p).type, p.nsp, p.pack_id, p.message)
BY DEF IsPacket, Accepted, Make

(* parse() of the text frame leaves all the data to wait for.              *)
LEMMA FirstIs ==
  ASSUME NEW p, IsPacket(p)
  PROVE  Parse(Accept(p)[1]) = After(p, 1)
<1> DEFINE b == Buffers(p.message)
<1>1. IsSequence(b) /\ Len(b) \in Nat
  BY AcceptShape
<1>2. SubSeq(b, 1, 0) = <<>>
  BY <1>1, SequencePrefix
<1>3. 1 - 1 = 0 /\ Len(b) - 0 = Len(b)
  BY <1>1
<1>4. After(p, 1) = Partly(p, Len(b) - (1 - 1), SubSeq(b, 1, 1 - 1))
  BY AfterIs
<1> HIDE DEF b
<1>5. After(p, 1) = Partly(p, Len(b), <<>>)
  BY <1>2, <1>3, <1>4
<1> QED BY <1>5, ParseAccept, Zenon DEF b

(* A packet of which all is read is the packet.                            *)
LEMMA AfterAll ==
  ASSUME NEW p, IsPacket(p)
  PROVE  Decoded(After(p, Parts(p))) = Accepted(p)
<1> DEFINE b == Buffers(p.message)
<1>1. IsSequence(b) /\ Len(b) \in Nat
  BY AcceptShape
<1>2. Parts(p) \in Nat /\ Parts(p) - 1 = Len(b)
  BY <1>1 DEF Parts
<1>3. SubSeq(b, 1, Parts(p) - 1) = b
  BY <1>1, <1>2, SequencePrefix
<1>4. FromJson(Json(p.message), b) = p.message
  BY JsonRoundTrip
<1>5. After(p, Parts(p)) = Partly(p, Len(b) - (Parts(p) - 1), b)
  BY <1>3, AfterIs, Zenon
<1> HIDE DEF b
<1>6. Decoded(After(p, Parts(p))) =
        Make(Accepted(p).type, p.nsp, p.pack_id, p.message)
  BY <1>4, <1>5, PartlyDecoded, Zenon
<1> QED BY <1>6, AcceptedIs, Zenon

(* One frame, by what put_payload makes of it.                             *)
LEMMA ReadFrameIs ==
  ASSUME NEW r, NEW frame, NEW partial, NEW put,
         PutPayload(r.partial, frame) = [partial |-> partial, decoded |-> put]
  PROVE  ReadFrame(r, frame) = [partial |-> partial, got |-> r.got \o put]
BY DEF ReadFrame

(* Its text, with no data to follow, is a packet; what is kept stays.      *)
LEMMA ReadWhole ==
  ASSUME NEW p, IsPacket(p), Parts(p) = 1, NEW r
  PROVE  ReadFrame(r, Accept(p)[1]) =
           [partial |-> r.partial, got |-> r.got \o <<Accepted(p)>>]
<1> DEFINE q == Parse(Accept(p)[1])
<1>1. Accept(p)[1].opcode = "text"
  BY AcceptShape, TextIsText, Zenon
<1>2. Buffers(p.message) = <<>>
  <2>1. IsSequence(Buffers(p.message)) /\ Len(Buffers(p.message)) = 0
    BY AcceptShape DEF Parts
  <2> QED BY <2>1, SequenceShape
<1>3. q.partial = FALSE /\ q.frame = "message"
  <2>1. q = Partly(p, Len(Buffers(p.message)), <<>>)
    BY ParseAccept
  <2> HIDE DEF q
  <2>2. q.partial = (Buffers(p.message) # <<>>)
    BY <2>1, PartlyPartial, Zenon
  <2>3. q.frame = "message"
    BY <2>1, PartlyFrame, Zenon
  <2> QED BY <1>2, <2>2, <2>3, Zenon
<1>4. Decoded(q) = Accepted(p)
  BY FirstIs, AfterAll, Zenon
<1> HIDE DEF q
<1>5. PutPayload(r.partial, Accept(p)[1]) =
        [partial |-> r.partial, decoded |-> <<Accepted(p)>>]
  BY <1>1, <1>3, <1>4 DEF PutPayload, Kept, q
<1> QED BY <1>5 DEF ReadFrame

(* Its text, with data to follow, is kept.                                 *)
LEMMA ReadText ==
  ASSUME NEW p, IsPacket(p), Parts(p) > 1, NEW r, IsReader(r)
  PROVE  ReadFrame(r, Accept(p)[1]) = [partial |-> <<After(p, 1)>>, got |-> r.got]
<1> DEFINE q == Parse(Accept(p)[1])
<1>1. Accept(p)[1].opcode = "text"
  BY AcceptShape, TextIsText, Zenon
<1>2. Buffers(p.message) # <<>>
  <2>1. Len(Buffers(p.message)) > 0
    BY AcceptShape DEF Parts
  <2> QED BY <2>1, SequenceEmpty
<1>3. q.partial = TRUE
  <2>1. q = Partly(p, Len(Buffers(p.message)), <<>>)
    BY ParseAccept
  <2> HIDE DEF q
  <2> QED BY <1>2, <2>1, PartlyPartial, Zenon
<1>4. q = After(p, 1)
  BY FirstIs
<1> HIDE DEF q
<1>5. PutPayload(r.partial, Accept(p)[1]) =
        [partial |-> <<After(p, 1)>>, decoded |-> <<>>]
  BY <1>1, <1>3, <1>4 DEF PutPayload, q
<1>6. r.got \o <<>> = r.got
  BY SequenceShape DEF IsReader
<1> QED BY <1>5, <1>6 DEF ReadFrame

(* Each of its data is added, and the last completes it.                   *)
LEMMA ReadData ==
  ASSUME NEW p, IsPacket(p), NEW k \in 1..Parts(p) - 1,
         NEW r, IsReader(r), r.partial = <<After(p, k)>>
  PROVE  ReadFrame(r, Accept(p)[k + 1]) =
           IF k + 1 = Parts(p)
           THEN [partial |-> NoPartial, got |-> r.got \o <<Accepted(p)>>]
           ELSE [partial |-> <<After(p, k + 1)>>, got |-> r.got]
<1> DEFINE b == Buffers(p.message)
           q == ParseBuffer(After(p, k), b[k])
<1>1. IsSequence(b) /\ Len(b) \in Nat /\ Parts(p) = 1 + Len(b) /\ k \in 1..Len(b)
  BY AcceptShape DEF Parts
<1>2. Accept(p)[k + 1] = Binary(b[k])
  BY AcceptShape
<1>3. Append(SubSeq(b, 1, k - 1), b[k]) = SubSeq(b, 1, k)
  <2>1. k - 1 \in 0..Len(b) /\ (k - 1) + 1 = k /\ k - 1 < Len(b)
    BY <1>1
  <2> QED BY <1>1, <2>1, SequencePrefix
<1> HIDE DEF b
<1>4. After(p, k) = Partly(p, Len(b) - (k - 1), SubSeq(b, 1, k - 1))
  BY AfterIs DEF b
<1>a. After(p, k).pending = Len(b) - (k - 1)
  <2>1. Partly(p, Len(b) - (k - 1), SubSeq(b, 1, k - 1)).pending = Len(b) - (k - 1)
    BY PartlyPending
  <2> QED BY <1>4, <2>1
<1>b. After(p, k).buffers = SubSeq(b, 1, k - 1)
  <2>1. Partly(p, Len(b) - (k - 1), SubSeq(b, 1, k - 1)).buffers = SubSeq(b, 1, k - 1)
    BY PartlyBuffers
  <2> QED BY <1>4, <2>1
<1>c. q = Partly(p, Len(b) - k, SubSeq(b, 1, k))
  <2> DEFINE a == After(p, k)
             n == Len(b) - k
             data == SubSeq(b, 1, k)
             n0 == Len(b) - (k - 1)
             data0 == SubSeq(b, 1, k - 1)
  <2>1. q = Changed(a, a.pending - 1, Append(a.buffers, b[k]))
    BY <1>1, <1>a DEF ParseBuffer, Changed
  <2>2. n0 - 1 = n
    BY <1>1
  <2>3. a.pending - 1 = n /\ Append(a.buffers, b[k]) = data
    BY <2>2, <1>3, <1>a, <1>b, Zenon
  <2>4. a = Partly(p, n0, data0)
    BY <1>4
  <2> HIDE DEF q, a, n, data, n0, data0
  <2>5. q = Changed(Partly(p, n0, data0), n, data)
    BY <2>1, <2>3, <2>4
  <2>6. q = Partly(p, n, data)
    BY <2>5, PartlyChanged
  <2> QED BY <2>6 DEF n, data
<1>d. q = After(p, k + 1)
  <2>1. (k + 1) - 1 = k
    BY <1>1
  <2>2. After(p, k + 1) = Partly(p, Len(b) - ((k + 1) - 1), SubSeq(b, 1, (k + 1) - 1))
    BY AfterIs DEF b
  <2> HIDE DEF q
  <2> QED BY <2>1, <2>2, <1>c
<1> HIDE DEF q
<1>5. Complete(q) <=> k + 1 = Parts(p)
  <2>1. q.pending = Len(b) - k
    BY <1>c, PartlyPending
  <2> QED BY <2>1, <1>1 DEF Complete
<1>6. /\ Binary(b[k]).opcode = "binary" /\ Binary(b[k]).tokens[1][2] = b[k]
      /\ r.partial[1] = After(p, k) /\ r.partial # NoPartial
  BY DEF Binary, NoPartial
<1>7. PutPayload(r.partial, Accept(p)[k + 1]) =
        IF Complete(q) THEN [partial |-> NoPartial, decoded |-> <<Decoded(q)>>]
        ELSE [partial |-> <<q>>, decoded |-> <<>>]
  BY <1>2, <1>6 DEF PutPayload, q
<1>8. r.got \o <<>> = r.got
  BY SequenceShape DEF IsReader
<1>9. CASE k + 1 = Parts(p)
  <2>1. Decoded(q) = Accepted(p)
    BY <1>d, <1>9, AfterAll, Zenon
  <2>2. PutPayload(r.partial, Accept(p)[k + 1]) =
          [partial |-> NoPartial, decoded |-> <<Accepted(p)>>]
    BY <2>1, <1>5, <1>7, <1>9, Zenon
  <2>3. ReadFrame(r, Accept(p)[k + 1]) =
          [partial |-> NoPartial, got |-> r.got \o <<Accepted(p)>>]
    BY <2>2, ReadFrameIs
  <2> QED BY <2>3, <1>9
<1>10. CASE k + 1 # Parts(p)
  <2>1. PutPayload(r.partial, Accept(p)[k + 1]) =
          [partial |-> <<After(p, k + 1)>>, decoded |-> <<>>]
    BY <1>d, <1>5, <1>7, <1>10, Zenon
  <2>2. ReadFrame(r, Accept(p)[k + 1]) =
          [partial |-> <<After(p, k + 1)>>, got |-> r.got \o <<>>]
    BY <2>1, ReadFrameIs
  <2> QED BY <2>2, <1>8, <1>10
<1> QED BY <1>9, <1>10

(* With nothing kept, data are dropped; a pong leaves everything.          *)
LEMMA ReadStray ==
  ASSUME NEW p, IsPacket(p), NEW k \in 1..Parts(p) - 1,
         NEW r, IsReader(r), r.partial = NoPartial
  PROVE  ReadFrame(r, Accept(p)[k + 1]) = r
<1>1. Accept(p)[k + 1] = Binary(Buffers(p.message)[k])
  BY AcceptShape
<1>2. Binary(Buffers(p.message)[k]).opcode # "text"
  BY DEF Binary
<1>3. PutPayload(r.partial, Accept(p)[k + 1]) = [partial |-> r.partial, decoded |-> <<>>]
  BY <1>1, <1>2 DEF PutPayload
<1>4. r.got \o <<>> = r.got
  BY SequenceShape DEF IsReader
<1> QED BY <1>3, <1>4 DEF ReadFrame, IsReader

(* A pong changes nothing, whatever is kept.                               *)
LEMMA ReadPong ==
  ASSUME NEW r, IsReader(r)
  PROVE  ReadFrame(r, Pong) = r
<1>1. /\ Pong.opcode = "text" /\ Pong.tokens = <<<<"frame", "pong">>>>
      /\ Pong.tokens[1][2] = "pong"
  BY DEF Pong, Text
<1>2. Parse(Pong).frame = "pong" /\ Parse(Pong).partial = FALSE
  BY <1>1 DEF Parse
<1>3. PutPayload(r.partial, Pong) = [partial |-> r.partial, decoded |-> <<>>]
  BY <1>1, <1>2 DEF PutPayload, Kept
<1>4. r.got \o <<>> = r.got
  BY SequenceShape DEF IsReader
<1> QED BY <1>3, <1>4 DEF ReadFrame, IsReader

(* All the frames of a packet give the packet, whatever was kept before.   *)
THEOREM ReadsPacket ==
  ASSUME NEW p, IsPacket(p), NEW r, IsReader(r)
  PROVE  Read(r, Accept(p)) =
           [partial |-> IF Parts(p) = 1 THEN r.partial ELSE NoPartial,
            got |-> r.got \o <<Accepted(p)>>]
<1> DEFINE f == Accept(p)
           at == Reading(r, f)
<1>1. Len(f) = Parts(p) /\ Parts(p) \in Nat \ {0}
  BY AcceptShape DEF Parts
<1>2. at[0] = r /\ \A i \in 1..Parts(p) : at[i] = ReadFrame(at[i - 1], f[i])
  <2>1. Len(f) \in Nat
    BY <1>1
  <2> QED BY <2>1, <1>1, ReadingStep
<1>3. Read(r, f) = at[Parts(p)]
  BY <1>1 DEF Read
<1> HIDE DEF at
<1>4. at[1] = ReadFrame(r, f[1])
  BY <1>1, <1>2
<1>5. CASE Parts(p) = 1
  BY <1>3, <1>4, <1>5, ReadWhole
<1>6. CASE Parts(p) > 1
  <2> DEFINE half(k) == [partial |-> <<After(p, k)>>, got |-> r.got]
  <2>1. at[1] = half(1)
    BY <1>4, <1>6, ReadText
  <2>2. \A k : IsReader(half(k)) /\ half(k).partial = <<After(p, k)>> /\ half(k).got = r.got
    BY DEF IsReader
  <2> HIDE DEF half
  <2>3. ASSUME NEW k \in 1..Parts(p) - 1, at[k] = half(k)
        PROVE  at[k + 1] = IF k + 1 = Parts(p)
                 THEN [partial |-> NoPartial, got |-> r.got \o <<Accepted(p)>>]
                 ELSE half(k + 1)
    <3>1. at[k + 1] = ReadFrame(half(k), f[k + 1])
      <4>1. k + 1 \in 1..Parts(p) /\ (k + 1) - 1 = k
        BY <1>1
      <4> QED BY <4>1, <1>2, <2>3
    <3>2. IsReader(half(k)) /\ half(k).partial = <<After(p, k)>> /\ half(k).got = r.got
      BY <2>2
    <3>3. ReadFrame(half(k), f[k + 1]) =
            IF k + 1 = Parts(p)
            THEN [partial |-> NoPartial, got |-> half(k).got \o <<Accepted(p)>>]
            ELSE [partial |-> <<After(p, k + 1)>>, got |-> half(k).got]
      BY <3>2, ReadData, Zenon
    <3> QED BY <3>1, <3>2, <3>3, Zenon DEF half
  <2>4. \A k \in 1..Parts(p) - 1 : at[k] = half(k)
    <3> DEFINE T == {k \in Nat : k + 1 \in 1..Parts(p) - 1 => at[k + 1] = half(k + 1)}
    <3>1. 0 \in T
      BY <2>1
    <3>2. ASSUME NEW k \in T PROVE k + 1 \in T
      <4> SUFFICES ASSUME (k + 1) + 1 \in 1..Parts(p) - 1
                   PROVE  at[(k + 1) + 1] = half((k + 1) + 1)
        OBVIOUS
      <4>1. k + 1 \in 1..Parts(p) - 1 /\ (k + 1) + 1 # Parts(p)
        BY <1>1
      <4>2. at[k + 1] = half(k + 1)
        BY <4>1
      <4> QED BY <4>1, <4>2, <2>3, Zenon
    <3>3. T = Nat
      BY <3>1, <3>2, NatSet
    <3>4. ASSUME NEW k \in 1..Parts(p) - 1 PROVE at[k] = half(k)
      <4>1. k - 1 \in Nat /\ (k - 1) + 1 = k
        BY <1>1
      <4>2. k - 1 \in T
        BY <3>3, <4>1
      <4> QED BY <4>1, <4>2
    <3> QED BY <3>4
  <2>5. Parts(p) - 1 \in 1..Parts(p) - 1 /\ (Parts(p) - 1) + 1 = Parts(p)
    BY <1>1, <1>6
  <2>6. at[(Parts(p) - 1) + 1] = [partial |-> NoPartial, got |-> r.got \o <<Accepted(p)>>]
    BY <2>3, <2>4, <2>5, Zenon
  <2>7. at[Parts(p)] = [partial |-> NoPartial, got |-> r.got \o <<Accepted(p)>>]
    <3> DEFINE whole == [partial |-> NoPartial, got |-> r.got \o <<Accepted(p)>>]
    <3>1. at[(Parts(p) - 1) + 1] = whole
      BY <2>6
    <3> HIDE DEF whole
    <3>2. at[Parts(p)] = whole
      BY <2>5, <3>1
    <3> QED BY <3>2 DEF whole
  <2>8. Parts(p) # 1
    BY <1>6
  <2> QED BY <1>3, <2>7, <2>8, Zenon
<1> QED BY <1>1, <1>5, <1>6

(* A decoder never takes back what it has given.                           *)
LEMMA ReadFrameGrows ==
  ASSUME NEW r, IsReader(r), NEW frame
  PROVE  /\ IsReader(ReadFrame(r, frame))
         /\ Len(r.got) <= Len(ReadFrame(r, frame).got)
         /\ \A i \in 1..Len(r.got) : ReadFrame(r, frame).got[i] = r.got[i]
<1> DEFINE put == PutPayload(r.partial, frame)
           next == ReadFrame(r, frame)
<1>1. put.decoded = <<>> \/ \E x : put.decoded = <<x>>
  BY DEF PutPayload
<1>2. IsSequence(put.decoded)
  BY <1>1, SequenceEmpty, SequenceTuples
<1>3. next = [partial |-> put.partial, got |-> r.got \o put.decoded]
  BY DEF ReadFrame
<1> HIDE DEF put, next
<1>4. IsSequence(r.got)
  BY DEF IsReader
<1>5. IsSequence(r.got \o put.decoded)
  BY <1>2, <1>4, JoinIsSequence
<1>6. Len(r.got) \in Nat /\ Len(put.decoded) \in Nat
  BY <1>2, <1>4, SequenceShape
<1>7. Len(r.got \o put.decoded) = Len(r.got) + Len(put.decoded)
  BY <1>2, <1>4, SequenceJoin
<1>8. \A i \in 1..Len(r.got) : (r.got \o put.decoded)[i] = r.got[i]
  BY <1>2, <1>4, SequenceJoin
<1>9. next.got = r.got \o put.decoded /\ IsReader(next)
  BY <1>3, <1>5 DEF IsReader
<1>10. Len(r.got) <= Len(next.got)
  <2>1. Len(next.got) = Len(r.got) + Len(put.decoded)
    BY <1>7, <1>9, Zenon
  <2>2. \A a \in Nat, b \in Nat : a <= a + b
    OBVIOUS
  <2> QED BY <1>6, <2>1, <2>2, Zenon
<1>11. \A i \in 1..Len(r.got) : next.got[i] = r.got[i]
  BY <1>8, <1>9, Zenon
<1> QED BY <1>9, <1>10, <1>11 DEF next

(* What has been decoded stays.                                            *)
LEMMA ReadGrows ==
  ASSUME NEW r, IsReader(r), NEW s, IsSequence(s)
  PROVE  /\ IsReader(Read(r, s))
         /\ Len(r.got) <= Len(Read(r, s).got)
         /\ \A i \in 1..Len(r.got) : Read(r, s).got[i] = r.got[i]
<1> DEFINE at == Reading(r, s)
           Grown(t) == /\ IsReader(t)
                       /\ Len(r.got) <= Len(t.got)
                       /\ \A i \in 1..Len(r.got) : t.got[i] = r.got[i]
<1>1. Len(s) \in Nat
  BY SequenceShape
<1>2. at[0] = r /\ \A i \in 1..Len(s) : at[i] = ReadFrame(at[i - 1], s[i])
  BY <1>1, ReadingStep
<1> HIDE DEF at
<1>3. Len(r.got) \in Nat
  BY SequenceShape DEF IsReader
<1>4. Grown(r)
  BY <1>3
<1>5. ASSUME NEW t, Grown(t), NEW frame PROVE Grown(ReadFrame(t, frame))
  <2>1. /\ IsReader(ReadFrame(t, frame))
        /\ Len(t.got) <= Len(ReadFrame(t, frame).got)
        /\ \A i \in 1..Len(t.got) : ReadFrame(t, frame).got[i] = t.got[i]
    BY <1>5, ReadFrameGrows, Zenon
  <2>2. Len(t.got) \in Nat /\ Len(ReadFrame(t, frame).got) \in Nat
    BY <1>5, <2>1, SequenceShape DEF IsReader
  <2>3. Len(r.got) <= Len(ReadFrame(t, frame).got)
    BY <1>3, <1>5, <2>1, <2>2
  <2>4. ASSUME NEW i \in 1..Len(r.got) PROVE ReadFrame(t, frame).got[i] = r.got[i]
    <3>1. i \in 1..Len(t.got)
      BY <1>3, <1>5, <2>2
    <3> QED BY <3>1, <1>5, <2>1
  <2> QED BY <2>1, <2>3, <2>4
<1> HIDE DEF Grown
<1>6. \A k \in 0..Len(s) : Grown(at[k])
  <2> DEFINE T == {k \in Nat : k <= Len(s) => Grown(at[k])}
  <2>1. 0 \in T
    BY <1>2, <1>4
  <2>2. ASSUME NEW k \in T PROVE k + 1 \in T
    <3> SUFFICES ASSUME k + 1 <= Len(s) PROVE Grown(at[k + 1])
      OBVIOUS
    <3>1. k + 1 \in 1..Len(s) /\ (k + 1) - 1 = k /\ k <= Len(s)
      BY <1>1
    <3>2. Grown(at[k]) /\ at[k + 1] = ReadFrame(at[k], s[k + 1])
      BY <3>1, <1>2
    <3> QED BY <3>2, <1>5
  <2>3. T = Nat
    BY <2>1, <2>2, NatSet
  <2> QED BY <2>3, <1>1
<1>7. Grown(at[Len(s)])
  BY <1>1, <1>6
<1> QED BY <1>7 DEF Grown, at, Read

(* What a decoder keeps of a packet waits for data.                        *)
LEMMA WaitsAfter ==
  ASSUME NEW p, IsPacket(p), NEW k \in 1..Parts(p) - 1
  PROVE  Waits(<<After(p, k)>>)
<1> DEFINE b == Buffers(p.message)
           n == Len(b) - (k - 1)
           data == SubSeq(b, 1, k - 1)
           q == After(p, k)
<1>1. IsSequence(b) /\ Len(b) \in Nat /\ k \in 1..Len(b)
  BY AcceptShape DEF Parts
<1>2. q = Partly(p, n, data)
  BY AfterIs
<1>3. Cardinality(Placeholders(Json(p.message))) = Len(b)
  BY PlaceholdersCounted
<1>4. k - 1 \in 0..Len(b)
  BY <1>1
<1> HIDE DEF b, q
<1>5. IsSequence(data) /\ Len(data) = k - 1
  BY <1>1, <1>4, SequencePrefix
<1>6. n \in Nat \ {0} /\ n + (k - 1) = Len(b)
  BY <1>1
<1> HIDE DEF n, data
<1>7. q.pending = n
  BY <1>2, PartlyPending
<1>8. q.buffers = data
  BY <1>2, PartlyBuffers
<1>9. q.json = Json(p.message) /\ {"pending", "buffers", "json"} \subseteq DOMAIN q
  BY <1>2, PartlyJson
<1>10. q.pending + Len(q.buffers) = Cardinality(Placeholders(q.json))
  BY <1>3, <1>5, <1>6, <1>7, <1>8, <1>9
<1>11. <<q>>[1] = q
  OBVIOUS
<1>12. Waits(<<q>>)
  BY <1>5, <1>6, <1>7, <1>8, <1>9, <1>10, <1>11 DEF Waits
<1> QED BY <1>12 DEF q

(* Whatever frame of a packet comes, what is kept waits for data.          *)
LEMMA WaitsOn ==
  ASSUME NEW r, r.partial = NoPartial \/ Waits(r.partial),
         NEW p, IsPacket(p), NEW k \in 1..Parts(p)
  PROVE  LET partial == ReadFrame(r, Accept(p)[k]).partial
         IN partial = NoPartial \/ Waits(partial)
<1> DEFINE partial == ReadFrame(r, Accept(p)[k]).partial
<1>1. Parts(p) \in Nat
  BY AcceptShape DEF Parts
<1>2. partial = PutPayload(r.partial, Accept(p)[k]).partial
  BY DEF ReadFrame
<1>3. CASE k = 1
  <2> DEFINE q == Parse(Accept(p)[1])
  <2>1. Accept(p)[1].opcode = "text"
    BY AcceptShape, TextIsText, Zenon
  <2>2. q.partial <=> Buffers(p.message) # <<>>
    <3>1. q = Partly(p, Len(Buffers(p.message)), <<>>)
      BY ParseAccept
    <3> HIDE DEF q
    <3> QED BY <3>1, PartlyPartial
  <2>3. q = After(p, 1)
    BY FirstIs
  <2> HIDE DEF q
  <2>4. CASE ~q.partial
    BY <1>2, <1>3, <2>1, <2>4 DEF PutPayload, Kept, q
  <2>5. CASE q.partial
    <3>1. 1 \in 1..Parts(p) - 1
      <4>1. IsSequence(Buffers(p.message)) /\ Buffers(p.message) # <<>>
        BY <2>2, <2>5, AcceptShape
      <4>2. Len(Buffers(p.message)) > 0 /\ Len(Buffers(p.message)) \in Nat
        BY <4>1, SequenceShape
      <4> QED BY <4>2 DEF Parts
    <3>2. PutPayload(r.partial, Accept(p)[k]).partial = <<After(p, 1)>>
      BY <1>3, <2>1, <2>3, <2>5 DEF PutPayload, q
    <3> QED BY <1>2, <3>1, <3>2, WaitsAfter
  <2> QED BY <2>4, <2>5
<1>4. CASE k # 1
  <2>1. PICK j \in 1..Parts(p) - 1 : k = j + 1
    <3>1. k - 1 \in 1..Parts(p) - 1 /\ k = (k - 1) + 1
      BY <1>1, <1>4
    <3> QED BY <3>1
  <2> DEFINE data == Buffers(p.message)[j]
  <2>2. Accept(p)[k] = Binary(data)
    BY <2>1, AcceptShape
  <2> HIDE DEF data
  <2>3. Binary(data).opcode # "text" /\ Binary(data).tokens[1][2] = data
    BY DEF Binary
  <2>4. CASE r.partial = NoPartial
    BY <1>2, <2>2, <2>3, <2>4 DEF PutPayload
  <2>5. CASE r.partial # NoPartial /\ Waits(r.partial)
    <3> DEFINE o == r.partial[1]
               n == o.pending - 1
               b == Append(o.buffers, data)
               q == Changed(o, n, b)
    <3>1. /\ {"pending", "buffers", "json"} \subseteq DOMAIN o
          /\ o.pending \in Nat \ {0} /\ IsSequence(o.buffers)
          /\ o.pending + Len(o.buffers) = Cardinality(Placeholders(o.json))
      BY <2>5 DEF Waits
    <3> HIDE DEF o
    <3>2. ParseBuffer(o, data) = q
      BY <3>1 DEF ParseBuffer, Changed
    <3>3. IsSequence(b)
      BY <3>1, AppendIsSequence
    <3>4. Len(b) = Len(o.buffers) + 1 /\ Len(o.buffers) \in Nat
      BY <3>1, SequenceAppend, SequenceShape
    <3>5. n \in Nat /\ n + Len(b) = Cardinality(Placeholders(o.json))
      BY <3>1, <3>4
    <3> HIDE DEF n, b
    <3>6. /\ q.pending = n /\ q.buffers = b /\ q.json = o.json
          /\ {"pending", "buffers", "json"} \subseteq DOMAIN q
      BY <3>1 DEF Changed
    <3> HIDE DEF q
    <3>7. <<q>>[1] = q
      OBVIOUS
    <3>8. n # 0 => Waits(<<q>>)
      BY <3>3, <3>5, <3>6, <3>7 DEF Waits
    <3>9. Complete(q) <=> n = 0
      BY <3>6 DEF Complete
    <3>10. PutPayload(r.partial, Binary(data)).partial =
             IF Complete(q) THEN NoPartial ELSE <<q>>
      BY <2>3, <2>5, <3>2 DEF PutPayload, o
    <3> QED BY <1>2, <2>2, <3>8, <3>9, <3>10
  <2> QED BY <2>4, <2>5
<1> QED BY <1>3, <1>4
=============================================================================
