---------------------------- MODULE PacketManager ----------------------------
(***************************************************************************)
(* packet and packet_manager (src/internal/sio_packet.cpp): packets to the *)
(* frames of a connection and back.  A packet with binary data is a text   *)
(* frame that announces it and one binary frame for each of its data.      *)
(*                                                                         *)
(* Outwards, encode() hands the frames to on_encode one by one: on the     *)
(* network thread each is written at once, from the user's thread each is  *)
(* posted, so that others may be written between them and the session may  *)
(* end, and another start, before the rest is posted.  Inwards,            *)
(* put_payload() collects the data of the announced packet.                *)
(*                                                                         *)
(* Text is a sequence of tokens; the searches of parse() are over tokens.  *)
(* The JSON of a message is the sequence of its items, in the order in     *)
(* which accept_message() visits them, an array before its elements.       *)
(***************************************************************************)
EXTENDS Integers, AnySequences, SequencesExt, FiniteSetsExt

CONSTANTS
  Outward,     \* packets the client sends; their items are numbered later
  Inward,      \* packets the server sends
  MaxEmits,    \* bound: packets of the client
  MaxSends,    \* bound: packets of the server in a session
  MaxPongs,    \* bound: pongs of the server in a session
  MaxSessions  \* bound: sessions

ASSUME PacketBounds == {MaxEmits, MaxSends, MaxPongs, MaxSessions} \subseteq Nat

-----------------------------------------------------------------------------
(* packet.  An item is <<"value", v>>, <<"binary", data>> or, in JSON,     *)
(* <<"placeholder", num>>; NoMessage is the null pointer.                  *)

NoMessage == <<>>
Make(type, nsp, pack_id, message) ==
  [type |-> type, nsp |-> nsp, pack_id |-> pack_id, message |-> message]

(* What the constructors make: only an event or an ack has an id or binary *)
(* data, and it always has a message (an array, if only of a name).  The   *)
(* message of a shape is the sequence of its items' kinds.                 *)
IsShape(p) ==
  /\ p = Make(p.type, p.nsp, p.pack_id, p.message)
  /\ p.type \in {"connect", "disconnect", "event", "ack", "error"}
  /\ p.pack_id \in Nat \cup {-1} /\ p.message \in Seq({"value", "binary"})
  /\ p.type \in {"event", "ack"} => p.message # NoMessage
  /\ p.type \notin {"event", "ack"} =>
       p.pack_id = -1 /\ \A i \in DOMAIN p.message : p.message[i] = "value"

ASSUME PacketShapes == \A p \in Outward \cup Inward : IsShape(p)

(* The packet's own data: what its message holds, told apart by a number.  *)
Numbered(shape, n) ==
  [shape EXCEPT !.message = [i \in DOMAIN @ |-> <<@[i], <<n, i>>>>]]

Text(tokens) == [opcode |-> "text", tokens |-> tokens]
Binary(data) == [opcode |-> "binary", tokens |-> <<<<"data", data>>>>]
Pong == Text(<<<<"frame", "pong">>>>)

(* accept_message: the data met in the first i items.  A placeholder has   *)
(* the number of those before it.  (A mutant counts its own as well.)      *)
IsBinary(item) == item[1] = "binary"
Collected(message) ==
  LET buffers[i \in 0..Len(message)] ==
        IF i = 0 THEN <<>>
        ELSE IF IsBinary(message[i]) THEN Append(buffers[i - 1], message[i][2])
        ELSE buffers[i - 1]
  IN buffers
Buffers(message) == Collected(message)[Len(message)]
NumUpTo(message, i) == Len(Collected(message)[i])
Num(message, i) == Len(Collected(message)[i - 1])
Json(message) ==
  [i \in DOMAIN message |->
     IF IsBinary(message[i]) THEN <<"placeholder", Num(message, i)>>
                             ELSE message[i]]

BinaryType(type) == CASE type = "event" -> "binary_event"
                      [] type = "ack" -> "binary_ack"
                      [] OTHER -> type

(* accept: the text, and the data.  A comma ends the namespace.            *)
TypePart(p) ==
  LET buffers == Buffers(p.message)
  IN IF buffers = <<>>
     THEN <<<<"frame", "message">>, <<"type", p.type>>>>
     ELSE <<<<"frame", "message">>, <<"type", BinaryType(p.type)>>,
            <<"number", Len(buffers)>>, <<"dash", 0>>>>
NspPart(p) ==
  IF p.nsp = "/" THEN <<>>
  ELSE IF p.message # NoMessage \/ p.pack_id >= 0
  THEN <<<<"nsp", p.nsp>>, <<"comma", 0>>>> ELSE <<<<"nsp", p.nsp>>>>
IdPart(p) == IF p.pack_id >= 0 THEN <<<<"number", p.pack_id>>>> ELSE <<>>
JsonPart(p) ==
  IF p.message # NoMessage THEN <<<<"json", Json(p.message)>>>> ELSE <<>>
Accept(p) ==
  LET buffers == Buffers(p.message)
  IN <<Text(TypePart(p) \o NspPart(p) \o IdPart(p) \o JsonPart(p))>>
     \o [i \in DOMAIN buffers |-> Binary(buffers[i])]

(* find_first_of: the first of the tokens, or the end.                     *)
Find(tokens, kinds, pos) ==
  Min({i \in pos..Len(tokens) : tokens[i][1] \in kinds} \cup {Len(tokens) + 1})
NumberIn(tokens, pos, end) == tokens[pos][2]

(* from_json.  A number beyond the buffers gives a null pointer.           *)
Null == <<"null", 0>>
FromJson(json, buffers) ==
  [i \in DOMAIN json |->
     IF json[i][1] # "placeholder" THEN json[i]
     ELSE IF json[i][2] < Len(buffers)
     THEN <<"binary", buffers[json[i][2] + 1]>> ELSE Null]

(* parse, of a text frame: a packet, with the buffers it waits for.  Only  *)
(* a namespace before the message is ended by a comma.                     *)
Parse(text) ==
  LET t == text.tokens
      isMessage == t[1][2] = "message"
      type == IF isMessage THEN t[2][2] ELSE "undetermined"
      isBinary == type \in {"binary_event", "binary_ack"}
      dash == Find(t, {"dash"}, 1)
      start == IF isBinary THEN dash + 1 ELSE IF isMessage THEN 3 ELSE 2
      nsp_json == Find(t, {"nsp", "json"}, start)
      hasNsp == nsp_json <= Len(t) /\ t[nsp_json][1] = "nsp"
      pos == IF hasNsp THEN Find(t, {"comma"}, 1) + 1 ELSE start
      json == Find(t, {"json"}, pos)
      hasJson == json <= Len(t)
  IN [frame |-> t[1][2],
      type |-> type,
      nsp |-> IF hasNsp THEN t[nsp_json][2] ELSE "/",
      pack_id |-> IF hasJson /\ pos < json THEN NumberIn(t, pos, json) ELSE -1,
      pending |-> IF isBinary THEN NumberIn(t, 3, dash) ELSE 0,
      partial |-> isBinary /\ hasJson,
      json |-> IF hasJson THEN t[json][2] ELSE NoMessage,
      buffers |-> <<>>]

(* parse_buffer, of a packet that waits for data.                          *)
ParseBuffer(p, data) ==
  IF p.pending = 0 THEN p
  ELSE [p EXCEPT !.pending = @ - 1, !.buffers = Append(@, data)]

(* What the decode callback is given.                                      *)
Decoded(p) ==
  Make(p.type, p.nsp, p.pack_id, FromJson(p.json, p.buffers))
(* A packet as accept() has completed its type.                            *)
Accepted(p) ==
  IF Buffers(p.message) = <<>> THEN p ELSE [p EXCEPT !.type = BinaryType(@)]

(* put_payload: what is kept, and what is decoded.  (Mutants: any text     *)
(* drops what is kept; what is complete waits for one more.)               *)
CompleteLate(p) == p.pending < 0
Complete(p) == p.pending = 0
NoPartial == <<>>
KeptNothing(partial) == NoPartial
Kept(partial) == partial
PutPayload(partial, frame) ==
  IF frame.opcode = "text"
  THEN LET p == Parse(frame) IN
       IF p.partial THEN [partial |-> <<p>>, decoded |-> <<>>]
       ELSE [partial |-> Kept(partial),
             decoded |-> IF p.frame = "message" THEN <<Decoded(p)>> ELSE <<>>]
  ELSE IF partial = NoPartial THEN [partial |-> partial, decoded |-> <<>>]
  ELSE LET p == ParseBuffer(partial[1], frame.tokens[1][2]) IN
       IF Complete(p)
       THEN [partial |-> NoPartial, decoded |-> <<Decoded(p)>>]
       ELSE [partial |-> <<p>>, decoded |-> <<>>]

-----------------------------------------------------------------------------
VARIABLES
  opened,            \* whether m_con_state is con_opened
  session,           \* the session's number
  m_partial_packet,  \* <<>> or <<packet>>
  encoding,          \* the frames that the user's thread has still to post
  posted,            \* the calls of send_impl on the io_service
  emitted,           \* history: the packets, who sent them, and since when
  wire,              \* history: which frames were written, in which sessions
  peer,              \* the server's decoder: what it keeps and has got
  sending,           \* the frames the server has still to send of a packet
  net,               \* frames on their way to the client
  sent,              \* history: what the server sent in this session
  decoded,           \* history: what the client made of it
  pongs              \* for the bound

outVars == <<encoding, posted, emitted, wire, peer>>
inVars == <<m_partial_packet, sending, net, sent, decoded, pongs>>
vars == <<opened, session, outVars, inVars>>

NewPeer == [partial |-> NoPartial, got |-> <<>>]

Init ==
  /\ opened = FALSE /\ session = 0
  /\ m_partial_packet = NoPartial
  /\ encoding = <<>> /\ posted = <<>> /\ emitted = <<>> /\ wire = <<>>
  /\ peer = NewPeer
  /\ sending = <<>> /\ net = <<>> /\ sent = <<>> /\ decoded = <<>> /\ pongs = 0

(* connect() and timeout_reconnect() reset the states, then a session      *)
(* opens.                                                                  *)
Open ==
  /\ ~opened /\ session < MaxSessions
  /\ opened' = TRUE /\ session' = session + 1
  /\ m_partial_packet' = NoPartial
  /\ peer' = NewPeer
  /\ UNCHANGED <<encoding, posted, emitted, wire>>
  /\ UNCHANGED <<sending, net, sent, decoded, pongs>>

(* close(), or the connection breaks.  What was on its way is lost; the    *)
(* histories of what was sent in the session end with it.                  *)
Close ==
  /\ opened /\ opened' = FALSE
  /\ net' = <<>> /\ sending' = <<>> /\ sent' = <<>> /\ decoded' = <<>> /\ pongs' = 0
  /\ UNCHANGED <<session, m_partial_packet, outVars>>

(* A decoder that reads a frame, or several: what it keeps, what it got.   *)
ReadFrame(reader, frame) ==
  LET put == PutPayload(reader.partial, frame)
  IN [partial |-> put.partial, got |-> reader.got \o put.decoded]
Reading(reader, frames) ==
  LET after[i \in 0..Len(frames)] ==
        IF i = 0 THEN reader ELSE ReadFrame(after[i - 1], frames[i])
  IN after
Read(reader, frames) == Reading(reader, frames)[Len(frames)]

(* The frames of a packet that is the n-th emitted; of and part are        *)
(* history.                                                                *)
Frames(p, n) ==
  LET frames == Accept(p)
  IN [i \in DOMAIN frames |-> [of |-> n, part |-> i, frame |-> frames[i]]]

(* send_impl, of several frames: written if the connection is open.  The   *)
(* server decodes what it reads as the client does.                        *)
Write(frames) ==
  IF opened
  THEN /\ wire' = wire \o [i \in DOMAIN frames |->
             [session |-> session, of |-> frames[i].of, part |-> frames[i].part]]
       /\ peer' = Read(peer, [i \in DOMAIN frames |-> frames[i].frame])
  ELSE UNCHANGED <<wire, peer>>

Number == Len(emitted) + 1
Emitted(thread, p) ==
  emitted' = Append(emitted, [thread |-> thread, session |-> session, packet |-> p])

(* encode() on the user's thread: a frame at a time.                       *)
UserEncodes ==
  /\ encoding = <<>> /\ Len(emitted) < MaxEmits
  /\ \E shape \in Outward :
       /\ encoding' = Frames(Numbered(shape, Number), Number)
       /\ Emitted("user", Numbered(shape, Number))
  /\ UNCHANGED <<opened, session, posted, wire, peer, inVars>>

(* on_encode there: dispatch() posts.  (A mutant posts at the front.)      *)
PostFirst(queue, frame) == <<frame>> \o queue
PostLast(queue, frame) == Append(queue, frame)
UserPosts ==
  /\ encoding # <<>>
  /\ posted' = PostLast(posted, Head(encoding)) /\ encoding' = Tail(encoding)
  /\ UNCHANGED <<opened, session, emitted, wire, peer, inVars>>

NetSends ==
  /\ posted # <<>> /\ posted' = Tail(posted)
  /\ Write(<<Head(posted)>>)
  /\ UNCHANGED <<opened, session, encoding, emitted, inVars>>

(* encode() in a listener: dispatch() runs send_impl there and then.       *)
NetEncodes ==
  /\ Len(emitted) < MaxEmits
  /\ \E shape \in Outward :
       /\ Write(Frames(Numbered(shape, Number), Number))
       /\ Emitted("net", Numbered(shape, Number))
  /\ UNCHANGED <<opened, session, encoding, posted, inVars>>

(* The server sends the frames of a packet in order, with pongs anywhere.  *)
ServerEncodes ==
  /\ opened /\ sending = <<>> /\ Len(sent) < MaxSends
  /\ \E shape \in Inward :
       /\ sending' = Accept(Numbered(shape, Len(sent) + 1))
       /\ sent' = Append(sent, Numbered(shape, Len(sent) + 1))
  /\ UNCHANGED <<opened, session, outVars, m_partial_packet, net, decoded, pongs>>

ServerSends ==
  /\ sending # <<>> /\ sending' = Tail(sending)
  /\ net' = Append(net, Head(sending))
  /\ UNCHANGED <<opened, session, outVars, m_partial_packet, sent, decoded, pongs>>

ServerPongs ==
  /\ opened /\ pongs < MaxPongs /\ pongs' = pongs + 1
  /\ net' = Append(net, Pong)
  /\ UNCHANGED <<opened, session, outVars, m_partial_packet, sending, sent, decoded>>

(* on_message, up to on_decode.                                            *)
OnMessage ==
  LET put == PutPayload(m_partial_packet, Head(net)) IN
  /\ net # <<>> /\ net' = Tail(net)
  /\ m_partial_packet' = put.partial
  /\ decoded' = decoded \o put.decoded
  /\ UNCHANGED <<opened, session, outVars, sending, sent, pongs>>

Next ==
  \/ Open \/ Close
  \/ UserEncodes \/ UserPosts \/ NetSends \/ NetEncodes
  \/ ServerEncodes \/ ServerSends \/ ServerPongs \/ OnMessage

Spec == Init /\ [][Next]_vars

-----------------------------------------------------------------------------
(* Properties.                                                             *)

(* Types; a packet that is kept waits for all its data but what it has.    *)
Placeholders(json) == {i \in DOMAIN json : json[i][1] = "placeholder"}
Waits(partial) ==
  /\ partial = <<partial[1]>>
  /\ {"pending", "buffers", "json"} \subseteq DOMAIN partial[1]
  /\ partial[1].pending \in Nat \ {0} /\ IsSequence(partial[1].buffers)
  /\ partial[1].pending + Len(partial[1].buffers) =
       Cardinality(Placeholders(partial[1].json))
TypeOK ==
  /\ opened \in BOOLEAN /\ session \in 0..MaxSessions
  /\ Len(emitted) <= MaxEmits /\ Len(sent) <= MaxSends /\ pongs \in 0..MaxPongs
  /\ \A partial \in {m_partial_packet, peer.partial} :
       partial # NoPartial => Waits(partial)

(* What the server sends reaches its listeners whole: the type, namespace, *)
(* id and message of each packet, with its own data in their places, once, *)
(* in order and in its own session, whatever else is sent in between.      *)
SentAsDecoded == [i \in DOMAIN sent |-> Accepted(sent[i])]
DecodedIsSent ==
  /\ IsPrefix(decoded, SentAsDecoded)
  /\ opened /\ net = <<>> /\ sending = <<>> => decoded = SentAsDecoded

(* The client's packets as the server gets them.                           *)
Packet(n) == Accepted(emitted[n].packet)
Size(n) == 1 + Len(Buffers(emitted[n].packet.message))
HasData(n) == Size(n) > 1
Got(n) == \E i \in DOMAIN peer.got : peer.got[i] = Packet(n)

(* Whatever the threads write between each other's frames and wherever a   *)
(* session ends, the server gets nothing but packets that were emitted,    *)
(* each with its own data: frames may be lost, never joined wrongly.       *)
GotIsEmitted ==
  \A i \in DOMAIN peer.got : \E n \in DOMAIN emitted : peer.got[i] = Packet(n)

(* Of the packets of one thread that have a message (two without may be    *)
(* the same) the server gets each at most once and in their order; those   *)
(* of the other thread may overtake them.                                  *)
GotInOrder ==
  \A i, j \in DOMAIN peer.got : \A n, m \in DOMAIN emitted :
    /\ i < j /\ peer.got[i] = Packet(n) /\ peer.got[j] = Packet(m)
    /\ emitted[n].thread = emitted[m].thread
    /\ NoMessage \notin {emitted[n].packet.message, emitted[m].packet.message}
    => n < m

(* A packet that was written from its first to its last frame in this      *)
(* session is lost only if it is the user's and has data, and the network  *)
(* thread wrote a packet with data between its frames.                     *)
Written(n, first, last) ==
  /\ first <= last
  /\ wire[first] = [session |-> session, of |-> n, part |-> 1]
  /\ wire[last] = [session |-> session, of |-> n, part |-> Size(n)]
LossNeedsOverlap ==
  \A first, last \in DOMAIN wire : \A n \in DOMAIN emitted :
    Written(n, first, last) =>
      \/ Got(n)
      \/ \E i \in first..last : LET m == wire[i].of IN
           /\ HasData(n) /\ emitted[n].thread = "user"
           /\ HasData(m) /\ emitted[m].thread = "net"

(* A binary frame follows the text that announces it, in the same session. *)
(* Only a packet that was emitted before the session opened may have been  *)
(* torn: its text dropped or written in the last session, and its data     *)
(* posted after the next one opened.                                       *)
TornNeedsReconnect ==
  \A i \in DOMAIN wire :
    wire[i].part > 1 =>
      \/ emitted[wire[i].of].session < wire[i].session
      \/ \E j \in 1..i - 1 : wire[j] = [wire[i] EXCEPT !.part = 1]

-----------------------------------------------------------------------------
(* The inductive invariant.                                                *)

AreEmitted ==
  /\ emitted \in Seq([thread : {"user", "net"}, session : 0..session,
                      packet : {emitted[n].packet : n \in DOMAIN emitted}])
  /\ \A n \in DOMAIN emitted :
       \E shape \in Outward : emitted[n].packet = Numbered(shape, n)
AreSent ==
  /\ IsSequence(sent)
  /\ \A n \in DOMAIN sent : \E shape \in Inward : sent[n] = Numbered(shape, n)

(* What is under way completes what the client has decoded, whatever it    *)
(* keeps: to all that was sent.                                            *)
Underway == net \o sending
IsSentFrame(frame) ==
  \/ frame = Pong
  \/ \E n \in DOMAIN sent : frame \in Range(Accept(sent[n]))
InwardKept ==
  /\ \A frames \in {net, sending} :
       /\ IsSequence(frames)
       /\ \A i \in DOMAIN frames : IsSentFrame(frames[i])
  /\ IsSequence(decoded)
  /\ opened => Read([partial |-> m_partial_packet, got |-> decoded], Underway) =
                 [partial |-> NoPartial, got |-> SentAsDecoded]
  /\ ~opened => net = <<>> /\ sending = <<>> /\ sent = <<>> /\ decoded = <<>>

(* The frames of the user's thread not written yet: those of a packet in   *)
(* order and to the last one, and one packet after the other.              *)
Rest == posted \o encoding
IsUsers(e) ==
  /\ e.of \in DOMAIN emitted /\ emitted[e.of].thread = "user"
  /\ e \in Range(Frames(emitted[e.of].packet, e.of))
Follows(e, f) ==
  IF e.part < Size(e.of) THEN f.of = e.of /\ f.part = e.part + 1
                         ELSE f.of > e.of /\ f.part = 1
RestKept ==
  /\ IsSequence(posted) /\ IsSequence(encoding)
  /\ \A i \in DOMAIN Rest : IsUsers(Rest[i])
  /\ \A i \in DOMAIN Rest : i + 1 \in DOMAIN Rest => Follows(Rest[i], Rest[i + 1])
  /\ \A i, j \in DOMAIN Rest : i <= j => Rest[i].of <= Rest[j].of
  /\ Rest # <<>> => Rest[Len(Rest)].part = Size(Rest[Len(Rest)].of)

(* A packet of which a decoder has read k frames, but not the last.        *)
After(p, k) ==
  [Parse(Accept(p)[1]) EXCEPT !.pending = @ - (k - 1),
                              !.buffers = SubSeq(Buffers(p.message), 1, k - 1)]

(* What the server keeps is the packet whose next frame is the user's      *)
(* next: the network thread's packets leave what is kept or nothing.       *)
Half == Rest # <<>> /\ Rest[1].part > 1
HalfRead ==
  Half /\ peer.partial = <<After(emitted[Rest[1].of].packet, Rest[1].part - 1)>>
PeerKept ==
  /\ peer = [partial |-> peer.partial, got |-> peer.got] /\ IsSequence(peer.got)
  /\ opened /\ peer.partial # NoPartial => HalfRead

(* What the server got of the user's comes before what is left.            *)
GotBefore ==
  \A i \in DOMAIN peer.got : \A n \in DOMAIN emitted : \A j \in DOMAIN Rest :
    /\ peer.got[i] = Packet(n) /\ emitted[n].thread = "user"
    /\ emitted[n].packet.message # NoMessage
    => n < Rest[j].of

(* The packet that the user's thread is in the middle of: what was written *)
(* of it is kept unless it was overlapped, and its text is written unless  *)
(* it was dropped in an earlier session.                                   *)
WireKept ==
  wire \in Seq([session : 0..session, of : DOMAIN emitted, part : Nat \ {0}])
Begun(i) == wire[i] = [session |-> session, of |-> Rest[1].of, part |-> 1]
HalfKept ==
  opened /\ Half =>
    \A first \in DOMAIN wire :
      Begun(first) =>
        \/ HalfRead
        \/ \E i \in first..Len(wire) :
             HasData(wire[i].of) /\ emitted[wire[i].of].thread = "net"
HalfTorn ==
  opened /\ Half =>
    \/ emitted[Rest[1].of].session < session
    \/ \E first \in DOMAIN wire : Begun(first)

Support ==
  /\ AreEmitted /\ AreSent /\ InwardKept
  /\ RestKept /\ PeerKept /\ GotBefore
  /\ WireKept /\ HalfKept /\ HalfTorn
IInv ==
  /\ TypeOK /\ Support
  /\ GotIsEmitted /\ GotInOrder /\ LossNeedsOverlap /\ TornNeedsReconnect

-----------------------------------------------------------------------------
(* What all of it is for: the connection is a PacketChannel.               *)
PacketsOf(shapes, max) == {Numbered(shape, n) : shape \in shapes, n \in 1..max}
OutwardPackets == {Accepted(p) : p \in PacketsOf(Outward, MaxEmits)}
InwardPackets == {Accepted(p) : p \in PacketsOf(Inward, MaxSends)}
OutwardWithData ==
  {Accepted(p) : p \in {q \in PacketsOf(Outward, MaxEmits) :
                          Buffers(q.message) # <<>>}}

EmittedPackets == [n \in DOMAIN emitted |-> Packet(n)]
Pending == {Rest[i].of : i \in DOMAIN Rest}
Broken ==
  IF opened /\ Half /\ peer.partial = NoPartial THEN {Rest[1].of} ELSE {}

(* To the listeners a session is a reliable queue of packets; of the       *)
(* user's packets the server gets each one that is due while the session   *)
(* is open, in their order, unless it has data and a reconnection or a     *)
(* packet with data of the network thread came between its frames; and     *)
(* those of the network thread arrive at once.                             *)
Channel ==
  INSTANCE PacketChannel WITH
    ToServer <- OutwardPackets, Framed <- OutwardWithData,
    ToClient <- InwardPackets,
    open <- opened, sent <- SentAsDecoded, received <- decoded,
    emitted <- EmittedPackets, pending <- Pending, broken <- Broken,
    got <- peer.got
IsChannel == Channel!Spec
=============================================================================
