--------------------------- MODULE SioSocketProofs ---------------------------
(***************************************************************************)
(* Proofs that the safety properties of SioSocket hold for any number of   *)
(* emits, sessions and closes.                                             *)
(*                                                                         *)
(* The argument, conjunct by conjunct of IInv.  An id that a thread has    *)
(* read is at most the number of emits, so m_acks has a place for it       *)
(* (TypeStep).  m_client is cleared by the first step of on_close and      *)
(* nothing sets it again once the listener was called, so on_close runs    *)
(* once (ClosesStep).  What enters a drained queue comes from the user's   *)
(* thread, which had tested m_connected before (DrainedStep).  An emit is  *)
(* in one place, because every step that takes its packet from one place   *)
(* puts it in one other or nowhere (InOnePlaceStep: lemma Moves).  If one  *)
(* thread asks for acknowledgements, the id that it read is the counter's  *)
(* value until it has entered the callback, and from then on whatever      *)
(* carries that id carries that emit (OwnedStep).  What a session posts    *)
(* comes between its on_open and its on_disconnect, which are alone when   *)
(* they run; on_open finds the socket in the map, or socket() finds the    *)
(* client opened, since m_socket_mutex keeps each out of the other, and    *)
(* what asked first goes first: so the server and the network thread speak *)
(* of the namespace after its CONNECT (ConnectAskedStep).  The user's      *)
(* emits go from its hands to the queue's end, or from the queue's front   *)
(* through its hands to the io_service's end, and a packet is sent past    *)
(* the queue only when none of the user's is in it (LineStep).             *)
(***************************************************************************)
EXTENDS SioSocket, TLAPS

-----------------------------------------------------------------------------
(* Sequences of packets: what they hold, and that they hold it once.       *)

(* A packet at the end adds its emit, if it has one.                       *)
LEMMA AppendEmits ==
  ASSUME NEW S, NEW s \in Seq(S), NEW pkt \in S
  PROVE  /\ EmitsIn(Append(s, pkt)) = EmitsIn(s) \cup EmitsOf(pkt)
         /\ Once(s) /\ EmitsOf(pkt) \cap EmitsIn(s) = {} =>
              Once(Append(s, pkt))
<1> DEFINE t == Append(s, pkt)
           n == Len(s)
<1>1. /\ n \in Nat /\ DOMAIN s = 1..n /\ DOMAIN t = 1..(n + 1)
      /\ t[n + 1] = pkt
      /\ \A i \in 1..n : t[i] = s[i]
  OBVIOUS
<1> HIDE DEF t, n
<1>2. EmitsIn(t) = EmitsIn(s) \cup EmitsOf(pkt)
  BY <1>1 DEF EmitsIn
<1>3. ASSUME Once(s), EmitsOf(pkt) \cap EmitsIn(s) = {},
             NEW i \in DOMAIN t, NEW j \in DOMAIN t,
             t[i].type = "event", t[j].type = "event", t[i].n = t[j].n
      PROVE  i = j
  <2>1. \A k \in 1..n : t[k].type = "event" => t[k].n \in EmitsIn(s)
    BY <1>1 DEF EmitsIn, EmitsOf
  <2>2. CASE i \in 1..n /\ j \in 1..n
    BY <1>1, <1>3, <2>2 DEF Once
  <2>3. CASE i = n + 1 /\ j \in 1..n
    BY <1>1, <1>3, <2>1, <2>3 DEF EmitsOf
  <2>4. CASE j = n + 1 /\ i \in 1..n
    BY <1>1, <1>3, <2>1, <2>4 DEF EmitsOf
  <2> QED BY <1>1, <1>3, <2>2, <2>3, <2>4
<1>4. Once(s) /\ EmitsOf(pkt) \cap EmitsIn(s) = {} => Once(t)
  BY <1>3 DEF Once
<1> QED BY <1>2, <1>4 DEF t

(* The first packet's emit is not in the rest.                             *)
LEMMA TailEmits ==
  ASSUME NEW S, NEW s \in Seq(S), s # <<>>
  PROVE  /\ EmitsIn(s) = EmitsOf(Head(s)) \cup EmitsIn(Tail(s))
         /\ Once(s) =>
              /\ Once(Tail(s))
              /\ EmitsOf(Head(s)) \cap EmitsIn(Tail(s)) = {}
<1> DEFINE t == Tail(s)
           n == Len(s)
<1>1. /\ n \in Nat \ {0} /\ DOMAIN s = 1..n /\ DOMAIN t = 1..(n - 1)
      /\ Head(s) = s[1]
      /\ \A i \in 1..(n - 1) : t[i] = s[i + 1]
  OBVIOUS
<1> HIDE DEF t, n
<1>2. EmitsIn(s) \subseteq EmitsOf(s[1]) \cup EmitsIn(t)
  <2> SUFFICES ASSUME NEW i \in 1..n, i # 1
               PROVE  EmitsOf(s[i]) \subseteq EmitsIn(t)
    BY <1>1 DEF EmitsIn
  <2>1. i - 1 \in DOMAIN t /\ t[i - 1] = s[i]
    BY <1>1
  <2> QED BY <2>1 DEF EmitsIn
<1>3. EmitsOf(s[1]) \cup EmitsIn(t) \subseteq EmitsIn(s)
  <2>1. 1 \in DOMAIN s /\ \A i \in DOMAIN t : i + 1 \in DOMAIN s
    BY <1>1
  <2> QED BY <1>1, <2>1 DEF EmitsIn
<1>4. ASSUME Once(s) PROVE Once(t)
  <2> SUFFICES ASSUME NEW i \in DOMAIN t, NEW j \in DOMAIN t,
                      t[i].type = "event", t[j].type = "event",
                      t[i].n = t[j].n
               PROVE  i = j
    BY DEF Once
  <2>1. i + 1 \in DOMAIN s /\ j + 1 \in DOMAIN s
    BY <1>1
  <2>2. i + 1 = j + 1
    BY <1>1, <1>4, <2>1 DEF Once
  <2> QED BY <1>1, <2>2
<1>5. ASSUME Once(s), NEW x \in EmitsOf(s[1]), x \in EmitsIn(t)
      PROVE  FALSE
  <2>1. PICK i \in DOMAIN t : x \in EmitsOf(t[i])
    BY <1>5 DEF EmitsIn
  <2>2. /\ 1 \in DOMAIN s /\ i + 1 \in DOMAIN s
        /\ s[1].type = "event" /\ s[i + 1].type = "event"
        /\ s[1].n = s[i + 1].n
    BY <1>1, <1>5, <2>1 DEF EmitsOf
  <2>3. 1 = i + 1
    BY <1>5, <2>2 DEF Once
  <2> QED BY <1>1, <2>1, <2>3
<1> QED BY <1>1, <1>2, <1>3, <1>4, <1>5 DEF t

(* The same of the user's emits and their order.                           *)
UserOf(pkt) == IF UsersEmit(pkt) THEN {pkt.n} ELSE {}
Below(S, T) == \A m \in S, n \in T : m < n

LEMMA AppendUsers ==
  ASSUME NEW S, NEW s \in Seq(S), NEW pkt \in S
  PROVE  /\ UsersIn(Append(s, pkt)) = UsersIn(s) \cup UserOf(pkt)
         /\ Ordered(s) /\ Below(UsersIn(s), UserOf(pkt)) =>
              Ordered(Append(s, pkt))
<1> DEFINE t == Append(s, pkt)
           n == Len(s)
<1>1. /\ n \in Nat /\ DOMAIN s = 1..n /\ DOMAIN t = 1..(n + 1)
      /\ t[n + 1] = pkt
      /\ \A i \in 1..n : t[i] = s[i]
  OBVIOUS
<1> HIDE DEF t, n
<1>2. UsersIn(t) = UsersIn(s) \cup UserOf(pkt)
  BY <1>1 DEF UsersIn, UserOf
<1>3. ASSUME Ordered(s), Below(UsersIn(s), UserOf(pkt)),
             NEW i \in DOMAIN t, NEW j \in DOMAIN t, i < j,
             UsersEmit(t[i]), UsersEmit(t[j])
      PROVE  t[i].n < t[j].n
  <2>1. i \in 1..n
    BY <1>1, <1>3
  <2>2. CASE j \in 1..n
    BY <1>1, <1>3, <2>1, <2>2 DEF Ordered
  <2>3. CASE j = n + 1
    <3>1. t[i].n \in UsersIn(s) /\ t[j].n \in UserOf(pkt)
      BY <1>1, <1>3, <2>1, <2>3 DEF UsersIn, UserOf
    <3> QED BY <1>3, <3>1 DEF Below
  <2> QED BY <1>1, <1>3, <2>2, <2>3
<1>4. Ordered(s) /\ Below(UsersIn(s), UserOf(pkt)) => Ordered(t)
  BY <1>3 DEF Ordered
<1> QED BY <1>2, <1>4 DEF t

(* The first is the user's first.                                          *)
LEMMA TailUsers ==
  ASSUME NEW S, NEW s \in Seq(S), s # <<>>
  PROVE  /\ UsersIn(s) = UserOf(Head(s)) \cup UsersIn(Tail(s))
         /\ Ordered(s) =>
              /\ Ordered(Tail(s))
              /\ Below(UserOf(Head(s)), UsersIn(Tail(s)))
<1> DEFINE t == Tail(s)
           n == Len(s)
<1>1. /\ n \in Nat \ {0} /\ DOMAIN s = 1..n /\ DOMAIN t = 1..(n - 1)
      /\ Head(s) = s[1]
      /\ \A i \in 1..(n - 1) : t[i] = s[i + 1]
  OBVIOUS
<1> HIDE DEF t, n
<1>2. /\ 1 \in DOMAIN s
      /\ \A i \in DOMAIN t : i + 1 \in DOMAIN s /\ t[i] = s[i + 1] /\ 1 < i + 1
      /\ \A i \in DOMAIN s :
           i # 1 => i - 1 \in DOMAIN t /\ t[i - 1] = s[i]
  BY <1>1
<1>3. UsersIn(s) = UserOf(s[1]) \cup UsersIn(t)
  BY <1>2 DEF UsersIn, UserOf
<1>4. ASSUME Ordered(s) PROVE Ordered(t)
  <2> SUFFICES ASSUME NEW i \in DOMAIN t, NEW j \in DOMAIN t, i < j,
                      UsersEmit(t[i]), UsersEmit(t[j])
               PROVE  t[i].n < t[j].n
    BY DEF Ordered
  <2>1. i + 1 < j + 1
    BY <1>1
  <2> QED BY <1>2, <1>4, <2>1 DEF Ordered
<1>5. ASSUME Ordered(s) PROVE Below(UserOf(s[1]), UsersIn(t))
  <2> SUFFICES ASSUME UsersEmit(s[1]), NEW j \in DOMAIN t, UsersEmit(t[j])
               PROVE  s[1].n < t[j].n
    BY DEF Below, UserOf, UsersIn
  <2> QED BY <1>2, <1>5 DEF Ordered
<1> QED BY <1>1, <1>3, <1>4, <1>5 DEF t

(* An empty queue holds nothing.                                           *)
LEMMA EmptyEmits == EmitsIn(<<>>) = {} /\ Once(<<>>)
BY DEF EmitsIn, Once

-----------------------------------------------------------------------------
(* The io_service: what each operation does to its type, to the timers and *)
(* to the packets posted to it.                                            *)

PostedBy(h) == IF h.op = "send_impl" THEN h.arg ELSE Connect

(* What is posted are packets.                                             *)
LEMMA PostedType ==
  ASSUME NEW q \in Queues
  PROVE  Posted(q) \in Seq(Packets)
<1>1. q.ready \in Seq(Handlers)
  BY DEF Queues
<1>2. \A h \in Handlers : h.op = "send_impl" => h.arg \in Packets
  BY DEF Handlers, Timers
<1>3. Connect \in Packets
  BY DEF Packets
<1>4. /\ Len(q.ready) \in Nat /\ DOMAIN q.ready = 1..Len(q.ready)
      /\ \A i \in 1..Len(q.ready) : q.ready[i] \in Handlers
  BY <1>1
<1>5. Posted(q) \in [1..Len(q.ready) -> Packets]
  BY <1>2, <1>3, <1>4 DEF Posted
<1> QED BY <1>4, <1>5

(* r is a queue that holds the packets posted to q.                        *)
KeepsPosted(q, r) ==
  /\ r \in Queues
  /\ EmitsIn(Posted(r)) = EmitsIn(Posted(q))
  /\ Once(Posted(q)) => Once(Posted(r))
  /\ UsersIn(Posted(r)) \subseteq UsersIn(Posted(q))
  /\ Ordered(Posted(q)) => Ordered(Posted(r))

(* Nothing more is under way in it, and the handlers keep their order.     *)
KeepsReady(q, r) ==
  /\ KeepsPosted(q, r)
  /\ Traffic(r) \subseteq Traffic(q)
  /\ \A ses \in Sessions : InLine(q, ses) => InLine(r, ses)
  /\ ConnectAhead(q) => ConnectAhead(r)

(* post appends a handler: a packet if it is a send_impl.                  *)
LEMMA PostFacts ==
  ASSUME NEW q \in Queues, NEW op, NEW arg, Handler(op, arg) \in Handlers
  PROVE  /\ Post(q, op, arg) \in Queues
         /\ Post(q, op, arg).timer = q.timer
         /\ Post(q, op, arg).ready = Append(q.ready, Handler(op, arg))
         /\ Posted(Post(q, op, arg)) =
              Append(Posted(q), PostedBy(Handler(op, arg)))
         /\ op # "send_impl" => KeepsPosted(q, Post(q, op, arg))
         /\ Traffic(Post(q, op, arg)) \subseteq
              Traffic(q) \cup {Handler(op, arg)}
         /\ op \notin {"send_impl", "on_message"} =>
              Traffic(Post(q, op, arg)) \subseteq Traffic(q)
         /\ op \notin SessionHandlers =>
              \A ses \in Sessions :
                InLine(q, ses) => InLine(Post(q, op, arg), ses)
         /\ ConnectAhead(q) => ConnectAhead(Post(q, op, arg))
         /\ op \in Timers => KeepsReady(q, Post(q, op, arg))
<1> DEFINE h == Handler(op, arg)
           r == Post(q, op, arg)
           n == Len(q.ready)
<1>1. /\ r = [q EXCEPT !.ready = Append(q.ready, h)]
      /\ q.ready \in Seq(Handlers) /\ h \in Handlers
  BY DEF Queues, Post
<1>2. r \in Queues /\ r.timer = q.timer /\ r.ready = Append(q.ready, h)
  BY <1>1 DEF Queues
<1> HIDE DEF h, r
<1>3. /\ n \in Nat /\ DOMAIN q.ready = 1..n /\ DOMAIN r.ready = 1..(n + 1)
      /\ r.ready[n + 1] = h
      /\ \A i \in 1..n : r.ready[i] = q.ready[i]
  BY <1>1, <1>2
<1> HIDE DEF n
<1>4. /\ Posted(q) \in Seq(Packets) /\ Posted(r) \in Seq(Packets)
      /\ PostedBy(h) \in Packets
  BY <1>1, <1>2, PostedType DEF PostedBy, Handlers, Timers, Packets
<1>5. Posted(r) = Append(Posted(q), PostedBy(h))
  <2>1. DOMAIN Posted(q) = 1..n /\ DOMAIN Posted(r) = 1..(n + 1)
    BY <1>3 DEF Posted
  <2>2. Len(Posted(q)) = n /\ Len(Posted(r)) = n + 1
    BY <1>3, <1>4, <2>1
  <2>3. /\ \A i \in 1..n : Posted(r)[i] = Posted(q)[i]
        /\ Posted(r)[n + 1] = PostedBy(h)
    BY <1>3 DEF Posted, PostedBy
  <2> QED BY <1>3, <1>4, <2>2, <2>3
<1>6. ASSUME op # "send_impl" PROVE KeepsPosted(q, r)
  <2>1. PostedBy(h) = Connect /\ EmitsOf(Connect) = {} /\ UserOf(Connect) = {}
    BY <1>6
       DEF PostedBy, h, Handler, EmitsOf, UserOf, UsersEmit, Connect, Packet
  <2>2. Posted(r) = Append(Posted(q), Connect) /\ Connect \in Packets
    BY <1>4, <1>5, <2>1
  <2>3. /\ EmitsIn(Posted(r)) = EmitsIn(Posted(q)) \cup EmitsOf(Connect)
        /\ Once(Posted(q)) => Once(Posted(r))
    BY <1>4, <2>1, <2>2, AppendEmits
  <2>4. /\ UsersIn(Posted(r)) = UsersIn(Posted(q)) \cup UserOf(Connect)
        /\ Ordered(Posted(q)) /\ Below(UsersIn(Posted(q)), UserOf(Connect)) =>
             Ordered(Posted(r))
    BY <1>4, <2>2, AppendUsers
  <2> QED BY <1>2, <2>1, <2>3, <2>4 DEF KeepsPosted, Below
<1>7. Traffic(r) \subseteq Traffic(q) \cup {h}
  BY <1>3 DEF Traffic
<1>8. op \notin {"send_impl", "on_message"} => Traffic(r) \subseteq Traffic(q)
  BY <1>7 DEF Traffic, h, Handler
<1>9. ASSUME op \notin SessionHandlers, NEW ses \in Sessions, InLine(q, ses)
      PROVE  InLine(r, ses)
  <2>1. h.op \notin SessionHandlers
    BY <1>9 DEF h, Handler
  <2>2. \A i \in DOMAIN r.ready :
          r.ready[i].op \in SessionHandlers =>
            i \in DOMAIN q.ready /\ r.ready[i] = q.ready[i]
    BY <1>3, <2>1
  <2>3. ASSUME NEW i \in DOMAIN r.ready, r.ready[i].op \in SessionHandlers
        PROVE  /\ r.ready[i].op = "on_open" =>
                    /\ ses = "opening"
                    /\ \A j \in DOMAIN r.ready :
                         r.ready[j].op \in SessionHandlers => j = i
               /\ r.ready[i].op = "on_message" => ses \in {"up", "ending"}
               /\ r.ready[i].op = "on_disconnect" =>
                    /\ ses = "ending"
                    /\ \A j \in DOMAIN r.ready :
                         r.ready[j].op \in SessionHandlers => j <= i
    BY <1>9, <2>2, <2>3 DEF InLine
  <2>4. \A i \in DOMAIN r.ready :
          /\ r.ready[i].op = "on_open" => r.ready[i].op \in SessionHandlers
          /\ r.ready[i].op = "on_message" => r.ready[i].op \in SessionHandlers
          /\ r.ready[i].op = "on_disconnect" =>
               r.ready[i].op \in SessionHandlers
    BY DEF SessionHandlers
  <2> SUFFICES ASSUME NEW i \in DOMAIN r.ready
               PROVE  /\ r.ready[i].op = "on_open" =>
                           /\ ses = "opening"
                           /\ \A j \in DOMAIN r.ready :
                                r.ready[j].op \in SessionHandlers => j = i
                      /\ r.ready[i].op = "on_message" =>
                           ses \in {"up", "ending"}
                      /\ r.ready[i].op = "on_disconnect" =>
                           /\ ses = "ending"
                           /\ \A j \in DOMAIN r.ready :
                                r.ready[j].op \in SessionHandlers => j <= i
    BY Zenon DEF InLine
  <2>5. CASE r.ready[i].op \in SessionHandlers
    BY <2>3, <2>5
  <2>6. CASE r.ready[i].op \notin SessionHandlers
    BY <2>4, <2>6
  <2> QED BY <2>5, <2>6
<1>10. ConnectAhead(q) => ConnectAhead(r)
  <2> SUFFICES ASSUME NEW i \in 1..n,
                      q.ready[i] = Handler("send_impl", Connect),
                      \A j \in 1..(i - 1) :
                        q.ready[j].op = "send_impl" => q.ready[j].arg = Connect
               PROVE  ConnectAhead(r)
    BY <1>3 DEF ConnectAhead
  <2>1. i \in DOMAIN r.ready /\ r.ready[i] = q.ready[i]
    BY <1>3
  <2>2. ASSUME NEW j \in 1..(i - 1) PROVE r.ready[j] = q.ready[j]
    <3>1. n \in Nat /\ i \in 1..n
      BY <1>3
    <3>2. j \in 1..n
      BY <3>1
    <3> QED BY <1>3, <3>2
  <2> QED BY <2>1, <2>2 DEF ConnectAhead
<1>11. op \in Timers => op \notin SessionHandlers \cup {"send_impl"}
  BY DEF Timers, SessionHandlers
<1>12. op \in Timers => op \notin {"send_impl", "on_message"}
  BY DEF Timers
<1>13. op \in Timers => KeepsReady(q, r)
  BY <1>6, <1>8, <1>9, <1>10, <1>11, <1>12 DEF KeepsReady
<1> QED
  BY <1>2, <1>5, <1>6, <1>7, <1>8, <1>9, <1>10, <1>13 DEF h, r

(* What the network thread takes is the first packet, or none.             *)
LEMMA PopFacts ==
  ASSUME NEW q \in Queues, q.ready # <<>>
  PROVE  /\ PopReady(q) \in Queues
         /\ PopReady(q).timer = q.timer
         /\ PopReady(q).ready = Tail(q.ready)
         /\ Head(q.ready) \in Handlers
         /\ Posted(q) # <<>>
         /\ Head(Posted(q)) = PostedBy(Head(q.ready))
         /\ Posted(PopReady(q)) = Tail(Posted(q))
         /\ Traffic(PopReady(q)) \subseteq Traffic(q)
         /\ Head(q.ready).op \in {"send_impl", "on_message"} =>
              Head(q.ready) \in Traffic(q)
         /\ Head(q.ready).op # "send_impl" => KeepsReady(q, PopReady(q))
         /\ \A ses \in Sessions : InLine(q, ses) => InLine(PopReady(q), ses)
         /\ Head(q.ready) # Handler("send_impl", Connect) /\ ConnectAhead(q) =>
              ConnectAhead(PopReady(q))
         /\ \A ses \in Sessions :
              InLine(q, ses)
                /\ Head(q.ready).op \in {"on_open", "on_disconnect"} =>
                \A i \in DOMAIN PopReady(q).ready :
                  PopReady(q).ready[i].op \notin SessionHandlers
<1> DEFINE h == Head(q.ready)
           r == PopReady(q)
           n == Len(q.ready)
<1>1. /\ r = [q EXCEPT !.ready = Tail(q.ready)]
      /\ q.ready \in Seq(Handlers)
  BY DEF Queues, PopReady
<1>2. Tail(q.ready) \in Seq(Handlers)
  BY <1>1
<1>3. r \in Queues /\ r.timer = q.timer /\ r.ready = Tail(q.ready)
  BY <1>1, <1>2 DEF Queues
<1> HIDE DEF r
<1>4. /\ n \in Nat \ {0} /\ DOMAIN q.ready = 1..n
      /\ DOMAIN r.ready = 1..(n - 1)
      /\ h = q.ready[1] /\ h \in Handlers
      /\ \A i \in 1..(n - 1) : r.ready[i] = q.ready[i + 1]
  BY <1>1, <1>3
<1> HIDE DEF n, h
<1>5. Posted(q) \in Seq(Packets) /\ Posted(r) \in Seq(Packets)
  BY <1>3, PostedType
<1>6. DOMAIN Posted(q) = 1..n /\ DOMAIN Posted(r) = 1..(n - 1)
  BY <1>4 DEF Posted
<1>7. Len(Posted(q)) = n /\ Len(Posted(r)) = n - 1
  BY <1>4, <1>5, <1>6
<1>8. /\ Posted(q)[1] = PostedBy(h)
      /\ \A i \in 1..(n - 1) : Posted(r)[i] = Posted(q)[i + 1]
  BY <1>4 DEF Posted, PostedBy
<1>9. Posted(q) # <<>> /\ Head(Posted(q)) = PostedBy(h)
  BY <1>4, <1>5, <1>7, <1>8
<1>10. Posted(r) = Tail(Posted(q))
  <2> DEFINE t == Tail(Posted(q))
  <2>1. /\ t \in Seq(Packets) /\ Len(t) = n - 1
        /\ \A i \in 1..(n - 1) : t[i] = Posted(q)[i + 1]
    BY <1>4, <1>5, <1>7, <1>9
  <2> HIDE DEF t
  <2>2. t = Posted(r)
    BY <1>5, <1>7, <1>8, <2>1
  <2> QED BY <2>2 DEF t
<1>11. ASSUME h.op # "send_impl" PROVE KeepsPosted(q, r)
  <2>1. PostedBy(h) = Connect /\ EmitsOf(Connect) = {}
    BY <1>11 DEF PostedBy, EmitsOf, Connect, Packet
  <2> DEFINE s == Posted(q)
  <2>2. /\ EmitsIn(s) = EmitsOf(Head(s)) \cup EmitsIn(Tail(s))
        /\ Once(s) => Once(Tail(s))
        /\ UsersIn(Tail(s)) \subseteq UsersIn(s)
        /\ Ordered(s) => Ordered(Tail(s))
    <3> HIDE DEF s
    <3> SUFFICES s \in Seq(Packets) /\ s # <<>>
      BY TailEmits, TailUsers
    <3> QED BY <1>5, <1>9 DEF s
  <2> QED BY <1>3, <1>9, <1>10, <2>1, <2>2 DEF KeepsPosted
<1>12. Traffic(r) \subseteq Traffic(q)
  <2>1. \A i \in DOMAIN r.ready : i + 1 \in DOMAIN q.ready
    BY <1>4
  <2> QED BY <1>4, <2>1 DEF Traffic
<1>13. h.op \in {"send_impl", "on_message"} => h \in Traffic(q)
  BY <1>4 DEF Traffic
<1>14. ASSUME NEW ses \in Sessions, InLine(q, ses) PROVE InLine(r, ses)
  <2>1. \A i \in DOMAIN r.ready :
          i \in Nat /\ i + 1 \in DOMAIN q.ready /\ r.ready[i] = q.ready[i + 1]
    BY <1>4
  <2>2. ASSUME NEW i \in DOMAIN r.ready, NEW j \in DOMAIN r.ready,
               r.ready[j].op \in SessionHandlers
        PROVE  /\ r.ready[i].op = "on_open" => j = i
               /\ r.ready[i].op = "on_disconnect" => j <= i
    <3>1. /\ q.ready[i + 1].op = "on_open" => j + 1 = i + 1
          /\ q.ready[i + 1].op = "on_disconnect" => j + 1 <= i + 1
      BY <1>14, <2>1, <2>2 DEF InLine
    <3> QED BY <2>1, <3>1
  <2> QED BY <1>14, <2>1, <2>2 DEF InLine
<1>15. ASSUME h # Handler("send_impl", Connect), ConnectAhead(q)
       PROVE  ConnectAhead(r)
  <2>1. PICK i \in 1..n :
          /\ q.ready[i] = Handler("send_impl", Connect)
          /\ \A j \in 1..(i - 1) :
               q.ready[j].op = "send_impl" => q.ready[j].arg = Connect
    BY <1>4, <1>15 DEF ConnectAhead
  <2>2. i # 1
    BY <1>4, <1>15, <2>1
  <2>3. i - 1 \in DOMAIN r.ready /\ r.ready[i - 1] = q.ready[i]
    BY <1>4, <2>2
  <2>4. \A j \in 1..(i - 1 - 1) :
          j + 1 \in 1..(i - 1) /\ r.ready[j] = q.ready[j + 1]
    BY <1>4, <2>2
  <2> QED BY <2>1, <2>3, <2>4 DEF ConnectAhead
<1>16. h.op # "send_impl" => KeepsReady(q, r)
  <2>1. h.op # "send_impl" => h # Handler("send_impl", Connect)
    BY DEF Handler
  <2> QED BY <1>11, <1>12, <1>14, <1>15, <2>1 DEF KeepsReady
<1>17. ASSUME NEW ses \in Sessions, InLine(q, ses),
              h.op \in {"on_open", "on_disconnect"},
              NEW i \in DOMAIN r.ready
       PROVE  r.ready[i].op \notin SessionHandlers
  <2>1. /\ i + 1 \in DOMAIN q.ready /\ r.ready[i] = q.ready[i + 1]
        /\ 1 \in DOMAIN q.ready /\ ~(i + 1 <= 1) /\ i + 1 # 1
    BY <1>4
  <2>2. q.ready[i + 1].op \in SessionHandlers => i + 1 = 1 \/ i + 1 <= 1
    BY <1>4, <1>17, <2>1 DEF InLine
  <2> QED BY <2>1, <2>2
<1> QED
  BY <1>3, <1>4, <1>9, <1>10, <1>12, <1>13, <1>14, <1>15, <1>16, <1>17
     DEF h, r

(* Only "ready" matters to what is posted.                                 *)
LEMMA ReadyFacts ==
  ASSUME NEW q \in Queues, NEW r \in Queues, r.ready = q.ready
  PROVE  KeepsReady(q, r)
BY DEF KeepsReady, KeepsPosted, Posted, Traffic, InLine, ConnectAhead

(* Cancelling a wait and setting its timer's status posts no packet.       *)
LEMMA SetTimerFacts ==
  ASSUME NEW q \in Queues, NEW t \in Timers, NEW s \in TimerStatus
  PROVE  LET c == Cancel(q, t)
             r == [c EXCEPT !.timer = [@ EXCEPT ![t] = s]]
         IN  KeepsReady(q, r) /\ r.timer = [q.timer EXCEPT ![t] = s]
<1> DEFINE c == Cancel(q, t)
           r == [c EXCEPT !.timer = [@ EXCEPT ![t] = s]]
<1>1. CASE q.timer[t] # "armed"
  <2>1. c = q
    BY <1>1 DEF Cancel
  <2>2. r \in Queues /\ r.ready = q.ready /\ r.timer = [q.timer EXCEPT ![t] = s]
    BY <2>1 DEF Queues
  <2> QED BY <2>2, ReadyFacts
<1>2. CASE q.timer[t] = "armed"
  <2> DEFINE d == Post(q, t, "aborted")
  <2>1. Handler(t, "aborted") \in Handlers
    BY DEF Handler, Handlers, Timers
  <2>3. /\ KeepsReady(q, d)
        /\ d \in Queues /\ d.timer = q.timer
        /\ d.ready = Append(q.ready, Handler(t, "aborted"))
    BY <2>1, PostFacts
  <2>4. c = [timer |-> [q.timer EXCEPT ![t] = "idle"], ready |-> d.ready]
    BY <1>2, <2>3 DEF Cancel
  <2> HIDE DEF d
  <2> HIDE DEF c
  <2>5. /\ c \in Queues /\ c.ready = d.ready
        /\ c.timer = [q.timer EXCEPT ![t] = "idle"]
    BY <2>3, <2>4 DEF Queues, TimerStatus
  <2>6. /\ r.ready = c.ready
        /\ r.timer = [c.timer EXCEPT ![t] = s]
        /\ r \in Queues
    BY <2>5 DEF Queues
  <2> HIDE DEF r
  <2>7. r.ready = d.ready /\ r.timer = [q.timer EXCEPT ![t] = s] /\ r \in Queues
    BY <2>5, <2>6 DEF Queues
  <2>8. KeepsReady(d, r)
    BY <2>3, <2>7, ReadyFacts
  <2> QED BY <2>3, <2>7, <2>8 DEF KeepsReady, KeepsPosted, r, c
<1> QED BY <1>1, <1>2

(* Destroying a timer posts no packet.                                     *)
LEMMA DestroyFacts ==
  ASSUME NEW q \in Queues, NEW t \in Timers
  PROVE  /\ KeepsReady(q, Destroy(q, t))
         /\ Destroy(q, t).timer = [q.timer EXCEPT ![t] = "null"]
BY SetTimerFacts DEF Destroy, TimerStatus

(* Arming a timer posts no packet.                                         *)
LEMMA ArmFacts ==
  ASSUME NEW q \in Queues, NEW t \in Timers
  PROVE  /\ KeepsReady(q, Arm(q, t))
         /\ Arm(q, t).timer = [q.timer EXCEPT ![t] = "armed"]
BY SetTimerFacts DEF Arm, TimerStatus

(* Resetting the socket's timer posts no packet.                           *)
LEMMA ResetTimerFacts ==
  ASSUME NEW q \in Queues
  PROVE  KeepsReady(q, ResetTimer(q))
<1> DEFINE d == Destroy(q, "timeout_connection")
<1>1. KeepsReady(q, d) /\ d \in Queues
  BY DestroyFacts DEF Timers, KeepsReady, KeepsPosted
<1> HIDE DEF d
<1>2. KeepsReady(d, Destroy(d, "on_close"))
  BY <1>1, DestroyFacts DEF Timers
<1>3. ResetTimer(q) = Destroy(d, "on_close")
  BY DEF ResetTimer, d
<1> QED BY <1>1, <1>2, <1>3 DEF KeepsReady, KeepsPosted

(* The new wait of send_connect.                                           *)
LEMMA AwaitConnectFacts ==
  ASSUME NEW q \in Queues
  PROVE  KeepsReady(q, AwaitConnect(q))
<1> DEFINE d == ResetTimer(q)
<1>1. KeepsReady(q, d) /\ d \in Queues
  BY ResetTimerFacts DEF KeepsReady, KeepsPosted
<1> HIDE DEF d
<1>2. KeepsReady(d, Arm(d, "timeout_connection"))
  BY <1>1, ArmFacts DEF Timers
<1>3. AwaitConnect(q) = Arm(d, "timeout_connection")
  BY DEF AwaitConnect, d
<1> QED BY <1>1, <1>2, <1>3 DEF KeepsReady, KeepsPosted

(* The new wait of close().                                                *)
LEMMA CloseWaitFacts ==
  ASSUME NEW q \in Queues
  PROVE  KeepsReady(q, Arm(Destroy(q, "timeout_connection"), "on_close"))
<1> DEFINE d == Destroy(q, "timeout_connection")
<1>1. KeepsReady(q, d) /\ d \in Queues
  BY DestroyFacts DEF Timers, KeepsReady, KeepsPosted
<1> HIDE DEF d
<1>2. KeepsReady(d, Arm(d, "on_close"))
  BY <1>1, ArmFacts DEF Timers
<1> QED BY <1>1, <1>2 DEF d, KeepsReady, KeepsPosted

(* A deadline that passes posts no packet.                                 *)
LEMMA ExpireFacts ==
  ASSUME NEW q \in Queues, NEW t \in Timers
  PROVE  KeepsReady(q, Expire(q, t))
<1> DEFINE c == [timer |-> [q.timer EXCEPT ![t] = "idle"],
                 ready |-> q.ready]
<1>1. c \in Queues /\ c.ready = q.ready
  BY DEF Queues, TimerStatus
<1>2. KeepsReady(q, c)
  BY <1>1, ReadyFacts
<1>3. Expire(q, t) = Post(c, t, "ok")
  BY DEF Post, Queues, Expire
<1>4. Handler(t, "ok") \in Handlers
  BY DEF Handler, Handlers, Timers
<1> HIDE DEF c
<1>5. KeepsReady(c, Post(c, t, "ok"))
  BY <1>1, <1>4, PostFacts
<1> QED BY <1>2, <1>3, <1>5 DEF KeepsReady, KeepsPosted

-----------------------------------------------------------------------------
(* Types.                                                                  *)

(* A connect and a disconnect are packets that are no emits.               *)
LEMMA PacketFacts ==
  /\ Connect \in Packets /\ EmitsOf(Connect) = {} /\ Connect.id = 0
  /\ Disconnect \in Packets /\ EmitsOf(Disconnect) = {} /\ Disconnect.id = 0
  /\ \A pkt \in Packets :
       /\ Handler("send_impl", pkt) \in Handlers
       /\ pkt.type = "event" => pkt.n \in Emits /\ pkt.id \in Ids
       /\ pkt.type # "event" => pkt.id = 0
BY DEF Packets, Connect, Disconnect, Packet, EmitsOf, Handler, Handlers

(* What was written, and the server's notes, keep their types.             *)
LEMMA WriteOutType ==
  ASSUME TypeOK, NEW pkt \in Packets, WriteOut(pkt)
  PROVE  /\ wire' \in Seq(Packets \cup {Packet("session", 0, 0)})
         /\ server' \in [connects : Nat, joined : BOOLEAN,
                         events : SUBSET (Emits \X Emits)]
<1> DEFINE S == Packets \cup {Packet("session", 0, 0)}
           Server == [connects : Nat, joined : BOOLEAN,
                      events : SUBSET (Emits \X Emits)]
<1>1. wire \in Seq(S) /\ server \in Server
  BY DEF TypeOK
<1>2. wire' = wire \/ wire' = Append(wire, pkt)
  BY DEF WriteOut
<1>3. wire' \in Seq(S)
  <2> HIDE DEF S
  <2>1. pkt \in S
    BY DEF S
  <2> QED BY <1>1, <1>2, <2>1
<1>4. server' \in Server
  <2>1. CASE pkt.type = "connect"
    BY <1>1, <2>1 DEF WriteOut
  <2>2. CASE pkt.type = "event" /\ pkt.id # 0
    <3>1. <<pkt.n, pkt.id>> \in Emits \X Emits
      BY <2>2, PacketFacts, BoundsAssumption DEF Emits, Ids
    <3>2. server' = server \/ server' =
            [server EXCEPT !.events = server.events \cup {<<pkt.n, pkt.id>>}]
      BY <2>2 DEF WriteOut
    <3> QED BY <1>1, <3>1, <3>2
  <2>3. CASE pkt.type = "disconnect"
    BY <1>1, <2>3 DEF WriteOut
  <2>4. CASE pkt.type = "event" /\ pkt.id = 0
    BY <1>1, <2>4 DEF WriteOut
  <2>5. pkt.type \in {"connect", "event", "disconnect"}
    BY DEF Packets, Connect, Disconnect, Packet
  <2> QED BY <2>1, <2>2, <2>3, <2>4, <2>5
<1> QED BY <1>3, <1>4

(* What the steps of send_packet leave alone, and where they go.           *)
LEMMA PcFacts ==
  ASSUME pc \in [Threads -> PCs], NEW th \in Threads, NEW label \in PCs,
         Goto(th, label)
  PROVE  /\ pc' \in [Threads -> PCs]
         /\ pc'[th] = label
         /\ \A u \in Threads \ {th} : pc'[u] = pc[u]
BY DEF Goto

(* send_packet returns to emit() or to close().                            *)
LEMMA ReturnFacts ==
  ASSUME NEW th PROVE Return(th) \in {"idle", "close.timer"}
BY DEF Return

(* Sending one packet keeps the types.                                     *)
LEMMA SendOrCrashTypes ==
  ASSUME TypeOK, NEW th \in Threads, NEW pkt \in Packets,
         NEW label \in PCs \ {"id"}, SendOrCrash(th, pkt, label), SendUnchanged,
         IdsIssued
  PROVE  TypeOK' /\ IdsIssued'
<1>1. asio' \in Queues
  <2>1. asio' = asio \/ asio' = Post(asio, "send_impl", pkt)
    BY DEF SendOrCrash, ClientSend
  <2>2. asio \in Queues /\ Handler("send_impl", pkt) \in Handlers
    BY PacketFacts DEF TypeOK
  <2> QED BY <2>1, <2>2, PostFacts
<1>2. /\ wire' \in Seq(Packets \cup {Packet("session", 0, 0)})
      /\ server' \in [connects : Nat, joined : BOOLEAN,
                      events : SUBSET (Emits \X Emits)]
  <2>1. WriteOut(pkt) \/ UNCHANGED <<wire, server>>
    BY DEF SendOrCrash, ClientSend
  <2> QED BY <2>1, WriteOutType DEF TypeOK
<1>3. /\ pc' \in [Threads -> PCs]
      /\ \A u \in Threads : pc'[u] = "id" => pc[u] = "id"
  BY PcFacts DEF SendOrCrash, Goto, TypeOK
<1>4. crashed' \in BOOLEAN
  BY DEF SendOrCrash, TypeOK
<1>5. TypeOK'
  BY <1>1, <1>2, <1>3, <1>4
     DEF TypeOK, SendUnchanged, clientVars, socketVars, ackVars, sendVars, bounds
<1>6. IdsIssued'
  BY <1>3 DEF IdsIssued, SendUnchanged, ackVars, sendVars, bounds
<1> QED BY <1>5, <1>6

(* Every step of send_packet keeps the types.                              *)
LEMMA SendTypes ==
  ASSUME TypeOK, IdsIssued, NEW th \in Threads, SendPacket(th)
  PROVE  TypeOK' /\ IdsIssued'
<1>1. CASE TakeId(th)
  <2>1. /\ p[th].id \in 1..emits /\ p[th].n \in 0..MaxEmits
        /\ emits \in 0..MaxEmits /\ MaxEmits \in Nat
    BY <1>1, BoundsAssumption
       DEF TakeId, At, IdsIssued, TypeOK, Packets, Connect, Disconnect,
           Packet, Emits
  <2>2. /\ s_global_event_id' \in 1..(MaxEmits + 1)
        /\ s_global_event_id' <= emits + 1
    BY <1>1, <2>1 DEF TakeId, NextId
  <2>3. m_acks' \in [Emits -> 0..MaxEmits]
    BY <1>1, <2>1 DEF TakeId, TypeOK
  <2>4. /\ pc' \in [Threads -> PCs]
        /\ \A u \in Threads : pc'[u] = "id" => pc[u] = "id"
    BY <1>1 DEF TakeId, Goto, TypeOK, PCs, SendSteps
  <2> QED
    BY <1>1, <2>2, <2>3, <2>4
       DEF TakeId, TypeOK, IdsIssued, clientVars, socketVars, sendVars,
           peerVars, endVars, bounds
<1>2. CASE SendGuard(th) \/ SendCheck(th)
  <2>1. /\ pc' \in [Threads -> PCs]
        /\ \A u \in Threads : pc'[u] = "id" => pc[u] = "id"
    BY <1>2, ReturnFacts
       DEF SendGuard, SendCheck, Goto, TypeOK, PCs, SendSteps
  <2> QED
    BY <1>2, <2>1
       DEF SendGuard, SendCheck, TypeOK, IdsIssued, clientVars, socketVars,
           ackVars, sendVars, peerVars, endVars, bounds
<1>3. CASE Drain(th)
  <2>1. /\ pc' \in [Threads -> PCs]
        /\ \A u \in Threads : pc'[u] = "id" => pc[u] = "id"
    BY <1>3 DEF Drain, Pop, Goto, TypeOK, PCs, SendSteps
  <2>2. m_packet_queue' \in Seq(Packets) /\ front_pack' \in [Threads -> Packets]
    <3>1. m_packet_queue \in Seq(Packets) /\ front_pack \in [Threads -> Packets]
      BY DEF TypeOK
    <3>2. m_packet_queue # <<>> => /\ Head(m_packet_queue) \in Packets
                                   /\ Tail(m_packet_queue) \in Seq(Packets)
      BY <3>1
    <3>3. \/ UNCHANGED <<m_packet_queue, front_pack>>
          \/ /\ m_packet_queue # <<>>
             /\ m_packet_queue' = Tail(m_packet_queue)
             /\ front_pack' =
                  [front_pack EXCEPT ![th] = Head(m_packet_queue)]
      BY <1>3 DEF Drain, Pop
    <3> QED BY <3>1, <3>2, <3>3
  <2> QED
    BY <1>3, <2>1, <2>2
       DEF Drain, Pop, TypeOK, IdsIssued, clientVars, ackVars, sendVars,
           peerVars, endVars, bounds
<1>4. CASE SendFront(th)
  BY <1>4, SendOrCrashTypes DEF SendFront, TypeOK, PCs, SendSteps
<1>5. CASE SendLast(th)
  BY <1>5, SendOrCrashTypes, ReturnFacts DEF SendLast, TypeOK, PCs
<1>6. CASE Push(th)
  <2>1. /\ pc' \in [Threads -> PCs]
        /\ \A u \in Threads : pc'[u] = "id" => pc[u] = "id"
    BY <1>6, ReturnFacts DEF Push, Goto, TypeOK, PCs
  <2>2. m_packet_queue' \in Seq(Packets)
    BY <1>6 DEF Push, TypeOK
  <2> QED
    BY <1>6, <2>1, <2>2
       DEF Push, TypeOK, IdsIssued, clientVars, ackVars, sendVars, peerVars,
           endVars, bounds
<1> QED BY <1>1, <1>2, <1>3, <1>4, <1>5, <1>6 DEF SendPacket

(* emit(), before its packet is on its way; the caller's other variables   *)
(* are left to the caller.                                                 *)
LEMMA EmitTypes ==
  ASSUME TypeOK, IdsIssued, NEW th \in Threads, Emit(th), pc[th] = "idle"
  PROVE  /\ emits' \in 0..MaxEmits /\ emits <= emits'
         /\ p' \in [Threads -> Packets]
         /\ pc' \in [Threads -> PCs]
         /\ \A u \in Threads : pc'[u] = "id" => p'[u].id \in 1..emits'
<1>1. /\ emits \in Nat /\ MaxEmits \in Nat /\ emits' = emits + 1
      /\ emits + 1 \in Emits
  BY BoundsAssumption DEF Emit, TypeOK, Emits
<1>2. s_global_event_id \in 1..(emits + 1)
  BY <1>1 DEF IdsIssued, TypeOK
<1> DEFINE pkt == Packet("event", emits + 1,
                         IF th \in AckThreads THEN s_global_event_id ELSE 0)
<1>3. pkt \in Packets /\ (th \in AckThreads => pkt.id \in 1..(emits + 1))
  BY <1>1, <1>2 DEF Packet, Packets, Ids, Emits
<1> HIDE DEF pkt
<1>4. /\ p' \in [Threads -> Packets]
      /\ p' = p \/ p' = [p EXCEPT ![th] = pkt]
  BY <1>3 DEF Emit, TypeOK, pkt
<1>5. CASE m_client
  <2>1. /\ p' = [p EXCEPT ![th] = pkt]
        /\ pc' = [pc EXCEPT ![th] = IF th \in AckThreads THEN "id" ELSE "guard"]
    BY <1>5 DEF Emit, pkt, Goto
  <2>2. pc \in [Threads -> PCs] /\ {"id", "guard"} \subseteq PCs
    BY DEF TypeOK, PCs, SendSteps
  <2>3. pc' \in [Threads -> PCs]
    BY <2>1, <2>2
  <2>4. ASSUME NEW u \in Threads, pc'[u] = "id" PROVE p'[u].id \in 1..emits'
    <3>1. CASE u = th
      BY <1>1, <1>3, <2>1, <2>2, <2>4, <3>1 DEF TypeOK
    <3>2. CASE u # th
      BY <1>1, <2>1, <2>2, <2>4, <3>2 DEF TypeOK, IdsIssued
    <3> QED BY <3>1, <3>2
  <2> QED BY <1>1, <1>4, <2>3, <2>4 DEF Emits
<1>6. CASE ~m_client
  BY <1>1, <1>4, <1>6 DEF Emit, TypeOK, IdsIssued, Emits
<1> QED BY <1>5, <1>6

(* A step that keeps the counters, and brings no thread to "id".           *)
LEMMA IdsStay ==
  ASSUME IdsIssued, UNCHANGED <<s_global_event_id, emits, p>>,
         \A u \in Threads : pc'[u] = "id" => pc[u] = "id"
  PROVE  IdsIssued'
BY DEF IdsIssued

(* A counter below its bound can be increased.                             *)
LEMMA BoundGrows ==
  ASSUME NEW a \in Nat, NEW b \in Nat, NEW c \in Nat, a <= b + 1, b <= c
  PROVE  a <= c + 1
OBVIOUS

(* The user's steps keep the types.                                        *)
LEMMA UserTypes ==
  ASSUME TypeOK, IdsIssued, UserStart \/ UserStep
  PROVE  TypeOK' /\ IdsIssued'
<1>0. /\ "user" \in Threads /\ asio \in Queues
      /\ pc \in [Threads -> PCs]
  BY DEF Threads, TypeOK
<1>1. CASE NewSocket \/ NewInsert
  <2>1. /\ pc' \in [Threads -> PCs]
        /\ \A u \in Threads : pc'[u] = "id" => pc[u] = "id"
    BY <1>0, <1>1 DEF NewSocket, NewInsert, Goto, PCs
  <2> QED
    BY <1>1, <2>1, IdsStay
       DEF NewSocket, NewInsert, TypeOK, clientVars, socketVars, ackVars,
           sendVars, peerVars, endVars, bounds
<1>2. CASE UserEmit
  <2>1. Emit("user") /\ pc["user"] = "idle"
    BY <1>2 DEF UserEmit, At
  <2>2. /\ emits' \in 0..MaxEmits /\ emits <= emits'
        /\ p' \in [Threads -> Packets]
        /\ pc' \in [Threads -> PCs]
        /\ \A u \in Threads : pc'[u] = "id" => p'[u].id \in 1..emits'
    BY <1>0, <2>1, EmitTypes
  <2>3. TypeOK'
    BY <1>2, <2>2
       DEF UserEmit, TypeOK, clientVars, socketVars, ackVars, peerVars, endVars
  <2>4. s_global_event_id' <= emits' + 1
    <3>1. /\ s_global_event_id \in Nat /\ emits \in Nat /\ emits' \in Nat
          /\ s_global_event_id <= emits + 1
      BY <2>2, BoundsAssumption DEF TypeOK, IdsIssued
    <3>2. s_global_event_id' = s_global_event_id
      BY <1>2 DEF UserEmit, ackVars
    <3>3. emits <= emits'
      BY <2>2
    <3> QED BY <3>1, <3>2, <3>3, BoundGrows
  <2> QED BY <2>2, <2>3, <2>4 DEF IdsIssued
<1>3. ASSUME NEW call \in UserCalls, UserClose(call)
      PROVE  TypeOK' /\ IdsIssued'
  <2>1. /\ pc' \in [Threads -> PCs]
        /\ \A u \in Threads : pc'[u] = "id" => pc[u] = "id"
    BY <1>0, <1>3 DEF UserClose, Goto, PCs
  <2>2. /\ close_calls' \in 0..MaxCloses
        /\ m_con_state' \in {"opened", "closing", "closed"}
    BY <1>3, BoundsAssumption DEF UserClose, TypeOK
  <2> QED
    BY <1>3, <2>1, <2>2, IdsStay
       DEF UserClose, TypeOK, socketVars, ackVars, sendVars, peerVars, endVars
<1>4. CASE NewConnect
  <2>1. /\ pc' \in [Threads -> PCs]
        /\ \A u \in Threads : pc'[u] = "id" => pc[u] = "id"
    BY <1>0, <1>4 DEF NewConnect, Goto, PCs
  <2>2. asio' \in Queues
    <3>1. Post(asio, "send_impl", Connect) \in Queues
      BY <1>0, PacketFacts, PostFacts
    <3> QED
      BY <1>4, <3>1, AwaitConnectFacts DEF NewConnect, KeepsReady, KeepsPosted
  <2> QED
    BY <1>4, <2>1, <2>2, IdsStay
       DEF NewConnect, TypeOK, clientVars, socketVars, ackVars, sendVars,
           peerVars, endVars, bounds
<1>5. CASE SendPacket("user")
  BY <1>0, <1>5, SendTypes
<1>6. CASE CloseCheck
  <2>1. /\ pc' \in [Threads -> PCs]
        /\ \A u \in Threads : pc'[u] = "id" => pc[u] = "id"
        /\ pc'["user"] # "id"
    BY <1>0, <1>6 DEF CloseCheck, Goto, PCs, SendSteps
  <2>2. /\ p' \in [Threads -> Packets]
        /\ \A u \in Threads \ {"user"} : p'[u] = p[u]
    BY <1>6, PacketFacts DEF CloseCheck, TypeOK
  <2>3. TypeOK'
    BY <1>6, <2>1, <2>2
       DEF CloseCheck, TypeOK, clientVars, socketVars, ackVars, peerVars,
           endVars, bounds
  <2> QED
    BY <1>6, <2>1, <2>2, <2>3 DEF CloseCheck, IdsIssued, ackVars, bounds
<1>7. CASE CloseTimer
  <2>1. /\ pc' \in [Threads -> PCs]
        /\ \A u \in Threads : pc'[u] = "id" => pc[u] = "id"
    BY <1>0, <1>7 DEF CloseTimer, Goto, PCs
  <2>2. asio' \in Queues /\ crashed' \in BOOLEAN
    BY <1>0, <1>7, CloseWaitFacts
       DEF CloseTimer, KeepsReady, KeepsPosted, TypeOK
  <2> QED
    BY <1>7, <2>1, <2>2, IdsStay
       DEF CloseTimer, TypeOK, clientVars, socketVars, ackVars, sendVars,
           peerVars, bounds
<1> QED
  BY <1>1, <1>2, <1>3, <1>4, <1>5, <1>6, <1>7 DEF UserStart, UserStep

(* The network thread's steps keep the types.                              *)
LEMMA NetTypes ==
  ASSUME TypeOK, IdsIssued, NetStep
  PROVE  TypeOK' /\ IdsIssued'
<1>0. /\ "net" \in Threads /\ asio \in Queues
      /\ pc \in [Threads -> PCs]
  BY DEF Threads, TypeOK
<1>1. asio.ready # <<>> => /\ PopReady(asio) \in Queues
                           /\ Head(asio.ready) \in Handlers
  BY <1>0, PopFacts
<1>2. CASE SendImpl
  <2>1. Arg \in Packets /\ asio' \in Queues
    BY <1>1, <1>2 DEF SendImpl, Runs, Arg, Popped
  <2>2. /\ wire' \in Seq(Packets \cup {Packet("session", 0, 0)})
        /\ server' \in [connects : Nat, joined : BOOLEAN,
                        events : SUBSET (Emits \X Emits)]
    BY <1>2, <2>1, WriteOutType DEF SendImpl
  <2> QED
    BY <1>2, <2>1, <2>2, IdsStay
       DEF SendImpl, TypeOK, clientVars, socketVars, ackVars, sendVars,
           endVars, bounds
<1>3. CASE OnOpen
  <2>1. asio' \in Queues
    BY <1>1, <1>3 DEF OnOpen, Runs, Popped
  <2>2. wire' \in Seq(Packets \cup {Packet("session", 0, 0)})
    <3> DEFINE S == Packets \cup {Packet("session", 0, 0)}
    <3>1. wire \in Seq(S) /\ Packet("session", 0, 0) \in S
      BY DEF TypeOK
    <3>2. wire' = Append(wire, Packet("session", 0, 0))
      BY <1>3 DEF OnOpen
    <3> HIDE DEF S
    <3>3. wire' \in Seq(S)
      BY <3>1, <3>2
    <3> QED BY <3>3 DEF S
  <2>3. server' \in [connects : Nat, joined : BOOLEAN,
                     events : SUBSET (Emits \X Emits)]
    BY <1>3 DEF OnOpen, NewServer
  <2>4. /\ pc' \in [Threads -> PCs]
        /\ \A u \in Threads : pc'[u] = "id" => pc[u] = "id"
    BY <1>0, <1>3 DEF OnOpen, Goto, PCs
  <2> QED
    BY <1>3, <2>1, <2>2, <2>3, <2>4, IdsStay
       DEF OnOpen, TypeOK, socketVars, ackVars, sendVars, endVars, bounds,
           Sessions
<1>4. CASE InvokeOnOpen
  <2>1. asio' \in Queues
    BY <1>0, <1>4, AwaitConnectFacts
       DEF InvokeOnOpen, SendConnect, KeepsReady, KeepsPosted
  <2>2. WriteOut(Connect) \/ UNCHANGED <<wire, server>>
    BY <1>4 DEF InvokeOnOpen, SendConnect
  <2>3. /\ wire' \in Seq(Packets \cup {Packet("session", 0, 0)})
        /\ server' \in [connects : Nat, joined : BOOLEAN,
                        events : SUBSET (Emits \X Emits)]
    BY <2>2, PacketFacts, WriteOutType DEF TypeOK
  <2>4. /\ pc' \in [Threads -> PCs]
        /\ \A u \in Threads : pc'[u] = "id" => pc[u] = "id"
    BY <1>0, <1>4 DEF InvokeOnOpen, Goto, PCs
  <2>5. m_sockets' \in BOOLEAN /\ m_client' \in BOOLEAN
    BY <1>4 DEF InvokeOnOpen, TypeOK
  <2> QED
    BY <1>4, <2>1, <2>3, <2>4, <2>5, IdsStay
       DEF InvokeOnOpen, TypeOK, ackVars, sendVars, endVars, bounds
<1>5. CASE OnDisconnect
  <2>1. asio' \in Queues
    BY <1>1, <1>5 DEF OnDisconnect, Runs, Popped
  <2>2. server' \in [connects : Nat, joined : BOOLEAN,
                     events : SUBSET (Emits \X Emits)]
    BY <1>5 DEF OnDisconnect, NewServer
  <2>3. /\ pc' \in [Threads -> PCs]
        /\ \A u \in Threads : pc'[u] = "id" => pc[u] = "id"
    BY <1>0, <1>5 DEF OnDisconnect, Goto, PCs
  <2> QED
    BY <1>5, <2>1, <2>2, <2>3, IdsStay
       DEF OnDisconnect, TypeOK, socketVars, ackVars, sendVars, endVars,
           bounds, Sessions
<1>6. CASE InvokeOnDisconnect \/ ClearQueue
  <2>1. /\ pc' \in [Threads -> PCs]
        /\ \A u \in Threads : pc'[u] = "id" => pc[u] = "id"
    BY <1>0, <1>6 DEF InvokeOnDisconnect, ClearQueue, Goto, PCs
  <2>2. m_connected' \in BOOLEAN /\ m_packet_queue' \in Seq(Packets)
    <3>1. /\ m_connected' \in BOOLEAN
          /\ m_packet_queue' = m_packet_queue \/ m_packet_queue' = <<>>
      BY <1>6 DEF InvokeOnDisconnect, ClearQueue, TypeOK
    <3>2. m_packet_queue \in Seq(Packets) /\ <<>> \in Seq(Packets)
      BY DEF TypeOK
    <3> QED BY <3>1, <3>2
  <2> QED
    BY <1>6, <2>1, <2>2, IdsStay
       DEF InvokeOnDisconnect, ClearQueue, TypeOK, clientVars, ackVars,
           sendVars, peerVars, endVars, bounds
<1>7. CASE Ignored \/ WaitAborted
  <2>1. asio' \in Queues
    BY <1>1, <1>7 DEF Ignored, WaitAborted, Runs, Popped
  <2> QED
    BY <1>7, <2>1, IdsStay
       DEF Ignored, WaitAborted, TypeOK, clientVars, socketVars, ackVars,
           sendVars, peerVars, endVars, bounds
<1>8. CASE OnConnected \/ TimeoutConnection
  <2>1. asio' \in Queues
    BY <1>1, <1>8, ResetTimerFacts
       DEF OnConnected, TimeoutConnection, Receives, Runs, KeepsReady,
           KeepsPosted
  <2>2. /\ pc' \in [Threads -> PCs]
        /\ \A u \in Threads : pc'[u] = "id" => pc[u] = "id"
    BY <1>0, <1>8 DEF OnConnected, TimeoutConnection, DrainIfNew, Goto, PCs
  <2>3. m_connected' \in BOOLEAN
    BY <1>8 DEF OnConnected, TimeoutConnection, TypeOK, socketVars
  <2> QED
    BY <1>8, <2>1, <2>2, <2>3, IdsStay
       DEF OnConnected, TimeoutConnection, TypeOK, clientVars, socketVars,
           ackVars, sendVars, peerVars, endVars, bounds
<1>9. CASE OnDisconnectPacket \/ OnCloseWait
  <2>1. asio' \in Queues
    BY <1>1, <1>9
       DEF OnDisconnectPacket, OnCloseWait, Receives, Runs, Popped
  <2>2. /\ pc' \in [Threads -> PCs]
        /\ \A u \in Threads : pc'[u] = "id" => pc[u] = "id"
    BY <1>0, <1>9 DEF OnDisconnectPacket, OnCloseWait, Goto, PCs
  <2> QED
    BY <1>9, <2>1, <2>2, IdsStay
       DEF OnDisconnectPacket, OnCloseWait, TypeOK, clientVars, socketVars,
           ackVars, sendVars, peerVars, endVars, bounds
<1>10. CASE OnEvent
  <2>1. asio' \in Queues /\ pc["net"] = "idle"
    BY <1>1, <1>10 DEF OnEvent, Receives, Runs, Popped, At
  <2>2. CASE Emit("net")
    <3>1. /\ emits' \in 0..MaxEmits /\ emits <= emits'
          /\ p' \in [Threads -> Packets]
          /\ pc' \in [Threads -> PCs]
          /\ \A u \in Threads : pc'[u] = "id" => p'[u].id \in 1..emits'
      BY <1>0, <2>1, <2>2, EmitTypes
    <3>2. TypeOK'
      BY <1>10, <2>1, <3>1
         DEF OnEvent, TypeOK, clientVars, socketVars, ackVars, peerVars, endVars
    <3>3. s_global_event_id' <= emits' + 1
      <4>1. /\ s_global_event_id \in Nat /\ emits \in Nat /\ emits' \in Nat
            /\ s_global_event_id <= emits + 1
        BY <3>1, BoundsAssumption DEF TypeOK, IdsIssued
      <4>2. s_global_event_id' = s_global_event_id
        BY <1>10 DEF OnEvent, ackVars
      <4>3. emits <= emits'
        BY <3>1
      <4> QED BY <4>1, <4>2, <4>3, BoundGrows
    <3> QED BY <3>1, <3>2, <3>3 DEF IdsIssued
  <2>3. CASE UNCHANGED <<emits, p, pc>>
    BY <1>10, <2>1, <2>3, IdsStay
       DEF OnEvent, TypeOK, clientVars, socketVars, ackVars, peerVars, endVars
  <2> QED BY <1>10, <2>2, <2>3 DEF OnEvent
<1>11. CASE OnAck
  <2>1. /\ asio' \in Queues
        /\ Head(asio.ready) \in Handlers /\ Arg \in Messages /\ Arg.type = "ack"
    BY <1>1, <1>11 DEF OnAck, Receives, Runs, Popped, Arg
  <2>2. Arg.n \in Emits /\ Arg.id \in Emits
    BY <2>1 DEF Messages, Connect, Disconnect, Packet
  <2>3. m_acks \in [Emits -> 0..MaxEmits] /\ 0 \in 0..MaxEmits
    BY BoundsAssumption DEF TypeOK
  <2>4. m_acks' \in [Emits -> 0..MaxEmits]
    BY <1>11, <2>3 DEF OnAck
  <2>5. m_acks[Arg.id] # 0 => m_acks[Arg.id] \in Emits
    BY <2>2, <2>3, BoundsAssumption DEF Emits
  <2>6. acked' \subseteq Emits \X Emits
    BY <1>11, <2>2, <2>5 DEF OnAck, TypeOK
  <2> QED
    BY <1>11, <2>1, <2>4, <2>6, IdsStay
       DEF OnAck, TypeOK, IdsIssued, clientVars, socketVars, sendVars,
           peerVars, endVars, bounds
<1>12. CASE SendPacket("net")
  BY <1>0, <1>12, SendTypes
<1>13. CASE CloseNull \/ CloseReset \/ CloseRest
  <2>1. asio' \in Queues
    BY <1>0, <1>13, ResetTimerFacts
       DEF CloseNull, CloseReset, CloseRest, KeepsReady, KeepsPosted
  <2>2. /\ pc' \in [Threads -> PCs]
        /\ \A u \in Threads : pc'[u] = "id" => pc[u] = "id"
    BY <1>0, <1>13 DEF CloseNull, CloseReset, CloseRest, Goto, PCs
  <2>3. /\ m_client' \in BOOLEAN /\ m_connected' \in BOOLEAN
        /\ m_sockets' \in BOOLEAN /\ closes' \in Nat
        /\ m_packet_queue' \in Seq(Packets)
    <3>1. /\ m_client' \in BOOLEAN /\ m_connected' \in BOOLEAN
          /\ m_sockets' \in BOOLEAN
          /\ closes' = closes \/ closes' = closes + 1
      BY <1>13
         DEF CloseNull, CloseReset, CloseRest, TypeOK, clientVars, endVars
    <3>2. m_packet_queue' = m_packet_queue \/ m_packet_queue' = <<>>
      BY <1>13 DEF CloseNull, CloseReset, CloseRest
    <3>3. m_packet_queue \in Seq(Packets) /\ <<>> \in Seq(Packets)
      BY DEF TypeOK
    <3>4. closes' \in Nat
      <4>1. closes \in Nat /\ (closes' = closes \/ closes' = closes + 1)
        BY <3>1 DEF TypeOK
      <4> QED BY <4>1
    <3>5. m_packet_queue' \in Seq(Packets)
      BY <3>2, <3>3
    <3> QED BY <3>1, <3>4, <3>5
  <2> QED
    BY <1>13, <2>1, <2>2, <2>3, IdsStay
       DEF CloseNull, CloseReset, CloseRest, TypeOK, clientVars, ackVars,
           sendVars, peerVars, endVars, bounds
<1> QED
  BY <1>2, <1>3, <1>4, <1>5, <1>6, <1>7, <1>8, <1>9, <1>10, <1>11, <1>12,
     <1>13 DEF NetStep, OnMessage

(* Time, the connection and the server keep the types.                     *)
LEMMA SurroundingTypes ==
  ASSUME TypeOK, IdsIssued, Surroundings
  PROVE  TypeOK' /\ IdsIssued'
<1>0. asio \in Queues
  BY DEF TypeOK
<1>1. CASE \E t \in Timers : TimerExpires(t)
  <2>1. asio' \in Queues
    BY <1>0, <1>1, ExpireFacts DEF TimerExpires, Queued, KeepsReady, KeepsPosted
  <2> QED
    BY <1>1, <2>1, IdsStay
       DEF TimerExpires, Queued, TypeOK, clientVars, socketVars, ackVars,
           sendVars, peerVars, endVars
<1>2. CASE SessionOpens \/ SessionEnds
  <2>1. /\ Handler("on_open", "-") \in Handlers
        /\ Handler("on_disconnect", "-") \in Handlers
    BY DEF Handler, Handlers
  <2>2. asio' \in Queues
    BY <1>0, <1>2, <2>1, PostFacts DEF SessionOpens, SessionEnds, Queued
  <2>3. sessions' \in 0..MaxSessions /\ session' \in Sessions
    BY <1>2, BoundsAssumption DEF SessionOpens, SessionEnds, Sessions, TypeOK
  <2> QED
    BY <1>2, <2>2, <2>3, IdsStay
       DEF SessionOpens, SessionEnds, Queued, TypeOK, clientVars, socketVars,
           ackVars, sendVars, endVars
<1>3. ASSUME NEW msg \in Messages, ServerSends(msg),
             server' \in [connects : Nat, joined : BOOLEAN,
                          events : SUBSET (Emits \X Emits)]
      PROVE  TypeOK' /\ IdsIssued'
  <2>1. Handler("on_message", msg) \in Handlers
    BY DEF Handler, Handlers
  <2>2. asio' \in Queues
    BY <1>0, <1>3, <2>1, PostFacts DEF ServerSends, Queued
  <2> QED
    BY <1>3, <2>2, IdsStay
       DEF ServerSends, Queued, TypeOK, clientVars, socketVars, ackVars,
           sendVars, endVars
<1>4. server \in [connects : Nat, joined : BOOLEAN,
                  events : SUBSET (Emits \X Emits)]
  BY DEF TypeOK
<1>5. {Connect, Disconnect, Packet("event", 0, 0)} \subseteq Messages
  BY DEF Messages
<1>6. CASE ServerConnects
  <2>1. server.connects - 1 \in Nat
    BY <1>4, <1>6 DEF ServerConnects
  <2>2. server' \in [connects : Nat, joined : BOOLEAN,
                     events : SUBSET (Emits \X Emits)]
    BY <1>4, <1>6, <2>1 DEF ServerConnects
  <2> QED BY <1>3, <1>5, <1>6, <2>2 DEF ServerConnects
<1>7. CASE ServerEmits
  BY <1>3, <1>4, <1>5, <1>7 DEF ServerEmits
<1>8. CASE ServerDisconnects
  <2>1. server' \in [connects : Nat, joined : BOOLEAN,
                     events : SUBSET (Emits \X Emits)]
    BY <1>4, <1>8 DEF ServerDisconnects
  <2> QED BY <1>3, <1>5, <1>8, <2>1 DEF ServerDisconnects
<1>9. CASE ServerAcks
  <2>1. PICK e \in server.events :
          /\ ServerSends(Packet("ack", e[1], e[2]))
          /\ server' = [server EXCEPT !.events = server.events \ {e}]
    BY <1>9 DEF ServerAcks
  <2>2. e[1] \in Emits /\ e[2] \in Emits
    BY <1>4
  <2>3. Packet("ack", e[1], e[2]) \in Messages
    BY <2>2 DEF Messages, Packet
  <2>4. server' \in [connects : Nat, joined : BOOLEAN,
                     events : SUBSET (Emits \X Emits)]
    BY <1>4, <2>1
  <2> QED BY <1>3, <2>1, <2>3, <2>4
<1> QED
  BY <1>1, <1>2, <1>6, <1>7, <1>8, <1>9 DEF Surroundings

(* Every step keeps the types, and issues no id beyond the emits.          *)
LEMMA TypeStep ==
  ASSUME TypeOK, IdsIssued, [Next]_vars
  PROVE  TypeOK' /\ IdsIssued'
<1>1. CASE Next
  BY <1>1, UserTypes, NetTypes, SurroundingTypes DEF Next
<1>2. CASE UNCHANGED vars
  BY <1>2
     DEF vars, TypeOK, IdsIssued, clientVars, socketVars, ackVars, sendVars,
         peerVars, endVars, bounds
<1> QED BY <1>1, <1>2

-----------------------------------------------------------------------------
(* One close.                                                              *)

(* A step that leaves the members alone, keeps the user in or out of       *)
(* socket(), and does not bring the network thread into on_close.          *)
LEMMA ClosesStay ==
  ASSUME ClosesOnce, UNCHANGED <<m_client, m_sockets, closes>>,
         SocketMutexFree' <=> SocketMutexFree,
         pc'["net"] \in {"close.null", "close.reset", "close.rest"} =>
           pc'["net"] = pc["net"]
  PROVE  ClosesOnce'
BY DEF ClosesOnce

(* on_close runs once, whatever starts it.                                 *)
LEMMA ClosesStep ==
  ASSUME TypeOK, ClosesOnce, [Next]_vars
  PROVE  ClosesOnce'
<1>0. pc \in [Threads -> PCs] /\ "user" \in Threads /\ "net" \in Threads
  BY DEF TypeOK, Threads
<1>1. CASE NewSocket
  BY <1>0, <1>1
     DEF NewSocket, At, Goto, ClosesOnce, SocketMutexFree, clientVars, endVars
<1>2. CASE UserEmit
  BY <1>0, <1>2, ClosesStay
     DEF UserEmit, Emit, At, Goto, SocketMutexFree, clientVars, socketVars,
         endVars
<1>3. ASSUME NEW call \in UserCalls, UserClose(call) PROVE ClosesOnce'
  BY <1>0, <1>3, ClosesStay
     DEF UserClose, At, Goto, SocketMutexFree, socketVars, endVars
<1>4. CASE NewConnect
  BY <1>0, <1>4, ClosesStay
     DEF NewConnect, At, Goto, SocketMutexFree, clientVars, socketVars, endVars
<1>5. CASE NewInsert
  BY <1>0, <1>5
     DEF NewInsert, At, Goto, ClosesOnce, SocketMutexFree, socketVars, endVars
<1>6. CASE CloseCheck \/ CloseTimer
  BY <1>0, <1>6, ClosesStay
     DEF CloseCheck, CloseTimer, At, Goto, SocketMutexFree, clientVars,
         socketVars, endVars
<1>7. ASSUME NEW th \in Threads, SendPacket(th) PROVE ClosesOnce'
  <2>1. UNCHANGED <<m_client, m_sockets, closes>>
    BY <1>7
       DEF SendPacket, TakeId, SendGuard, SendCheck, Drain, Pop, SendFront,
           SendLast, SendUnchanged, Push, clientVars, socketVars, endVars
  <2>2. /\ pc[th] \in SendSteps \cup {"open.drain", "open.front"}
        /\ \/ UNCHANGED pc
           \/ \E label \in SendSteps \cup
                {"open.drain", "open.front", "idle", "close.timer"} :
                pc' = [pc EXCEPT ![th] = label]
    BY <1>7, ReturnFacts
       DEF SendPacket, TakeId, SendGuard, SendCheck, Drain, Pop, SendFront,
           SendLast, SendOrCrash, Push, At, Goto, SendSteps
  <2>3. \A u \in Threads :
          pc'[u] = pc[u] \/ /\ pc[u] \notin {"new.connect", "new.insert"}
                            /\ pc'[u] \notin {"new.connect", "new.insert"}
                            /\ pc'[u] \notin {"close.null", "close.reset",
                                              "close.rest"}
    BY <1>0, <2>2 DEF SendSteps
  <2> QED BY <1>0, <2>1, <2>3, ClosesStay DEF SocketMutexFree
<1>8. CASE SendImpl \/ OnOpen \/ OnDisconnect \/ InvokeOnDisconnect
           \/ ClearQueue \/ Ignored \/ OnConnected \/ OnAck \/ WaitAborted
  BY <1>0, <1>8, ClosesStay
     DEF SendImpl, OnOpen, OnDisconnect, InvokeOnDisconnect, ClearQueue,
         Ignored, OnConnected, DrainIfNew, OnAck, WaitAborted, Receives, Runs,
         At, Goto, SocketMutexFree, clientVars, socketVars, endVars
<1>9. CASE InvokeOnOpen
  BY <1>0, <1>9
     DEF InvokeOnOpen, At, Goto, ClosesOnce, SocketMutexFree, endVars
<1>10. CASE OnEvent
  BY <1>0, <1>10, ClosesStay
     DEF OnEvent, Emit, Receives, Runs, At, Goto, SocketMutexFree, clientVars,
         socketVars, endVars
<1>11. CASE OnDisconnectPacket \/ TimeoutConnection \/ OnCloseWait
  BY <1>0, <1>11
     DEF OnDisconnectPacket, TimeoutConnection, OnCloseWait, Receives, Runs,
         At, Goto, ClosesOnce, SocketMutexFree, clientVars, socketVars, endVars
<1>12. CASE CloseNull
  BY <1>0, <1>12
     DEF CloseNull, At, Goto, ClosesOnce, SocketMutexFree, clientVars, endVars
<1>13. CASE CloseReset
  BY <1>0, <1>13
     DEF CloseReset, At, Goto, ClosesOnce, SocketMutexFree, clientVars, endVars
<1>14. CASE CloseRest
  BY <1>0, <1>14 DEF CloseRest, At, Goto, ClosesOnce, SocketMutexFree
<1>15. CASE Surroundings
  <2>1. UNCHANGED <<m_client, m_sockets, closes, pc>>
    BY <1>15
       DEF Surroundings, TimerExpires, SessionOpens, SessionEnds,
           ServerConnects, ServerEmits, ServerDisconnects, ServerAcks,
           ServerSends, Queued, clientVars, socketVars, endVars
  <2> QED BY <2>1, ClosesStay DEF SocketMutexFree
<1>16. CASE UNCHANGED vars
  BY <1>16, ClosesStay
     DEF vars, SocketMutexFree, clientVars, socketVars, endVars
<1> QED
  BY <1>0, <1>1, <1>2, <1>3, <1>4, <1>5, <1>6, <1>7, <1>8, <1>9, <1>10, <1>11,
     <1>12, <1>13, <1>14, <1>15, <1>16
     DEF Next, UserStart, UserStep, NetStep, OnMessage

-----------------------------------------------------------------------------
(* The queue, drained.                                                     *)

(* A step that leaves m_connected and the queue alone, brings nobody to    *)
(* the queue, and does not end on_connected's loop.                        *)
LEMMA DrainedStays ==
  ASSUME QueueDrained, UNCHANGED <<m_connected, m_packet_queue>>,
         \A u \in Threads : pc'[u] = "push" => pc[u] = "push",
         pc["net"] \in {"open.drain", "open.front"} =>
           pc'["net"] \in {"open.drain", "open.front"}
  PROVE  QueueDrained'
BY DEF QueueDrained, Threads

(* send_packet strands one packet at most.                                 *)
LEMMA DrainedSend ==
  ASSUME TypeOK, QueueDrained, NEW th \in Threads, SendPacket(th)
  PROVE  QueueDrained'
<1>0. /\ pc \in [Threads -> PCs] /\ "user" \in Threads /\ "net" \in Threads
      /\ th = "user" \/ th = "net"
      /\ m_packet_queue \in Seq(Packets)
  BY DEF TypeOK, Threads
<1>1. CASE TakeId(th) \/ SendGuard(th)
  BY <1>0, <1>1, ReturnFacts, DrainedStays
     DEF TakeId, SendGuard, At, Goto, socketVars
<1>2. CASE SendCheck(th)
  BY <1>0, <1>2 DEF SendCheck, At, Goto, socketVars, QueueDrained
<1>3. CASE Drain(th)
  <2>1. CASE m_packet_queue = <<>>
    BY <1>0, <1>3, <2>1 DEF Drain, Pop, At, Goto, QueueDrained
  <2>2. CASE m_packet_queue # <<>>
    <3>1. /\ m_packet_queue' = Tail(m_packet_queue)
          /\ m_connected' = m_connected
          /\ \/ pc[th] = "drain" /\ pc' = [pc EXCEPT ![th] = "front"]
             \/ pc[th] = "open.drain" /\ pc' = [pc EXCEPT ![th] = "open.front"]
      BY <1>3, <2>2 DEF Drain, Pop, At, Goto
    <3>2. Len(m_packet_queue) <= 1 => Len(m_packet_queue') <= 1
      BY <1>0, <2>2, <3>1
    <3>3. \A u \in Threads : pc'[u] = "push" => pc[u] = "push"
      BY <1>0, <3>1
    <3>4. pc["net"] \in {"open.drain", "open.front"} <=>
            pc'["net"] \in {"open.drain", "open.front"}
      BY <1>0, <3>1
    <3> QED
      BY <1>0, <2>2, <3>1, <3>2, <3>3, <3>4 DEF QueueDrained
  <2> QED BY <2>1, <2>2
<1>4. CASE SendFront(th) \/ SendLast(th)
  BY <1>0, <1>4, ReturnFacts, DrainedStays
     DEF SendFront, SendLast, SendOrCrash, SendUnchanged, At, Goto, socketVars
<1>5. CASE Push(th)
  <2>1. /\ m_packet_queue' = Append(m_packet_queue, p[th])
        /\ m_connected' = m_connected
        /\ pc[th] = "push" /\ pc' = [pc EXCEPT ![th] = Return(th)]
    BY <1>5 DEF Push, At, Goto
  <2>2. \A u \in Threads :
          pc'[u] = IF u = th THEN Return(th) ELSE pc[u]
    BY <1>0, <2>1
  <2>3. m_packet_queue = <<>> => Len(m_packet_queue') <= 1
    BY <1>0, <2>1
  <2> QED
    BY <1>0, <2>1, <2>2, <2>3, ReturnFacts DEF QueueDrained
<1> QED BY <1>1, <1>2, <1>3, <1>4, <1>5 DEF SendPacket

(* A drained queue stays drained, in every step.                           *)
LEMMA DrainedStep ==
  ASSUME TypeOK, QueueDrained, [Next]_vars
  PROVE  QueueDrained'
<1>0. pc \in [Threads -> PCs] /\ "user" \in Threads /\ "net" \in Threads
  BY DEF TypeOK, Threads
<1>1. CASE NewSocket \/ UserEmit \/ NewConnect \/ NewInsert \/ CloseCheck
           \/ CloseTimer
  BY <1>0, <1>1, DrainedStays
     DEF NewSocket, UserEmit, Emit, NewConnect, NewInsert, CloseCheck,
         CloseTimer, At, Goto, Threads, socketVars
<1>2. ASSUME NEW call \in UserCalls, UserClose(call) PROVE QueueDrained'
  BY <1>0, <1>2, DrainedStays DEF UserClose, At, Goto, Threads, socketVars
<1>3. ASSUME NEW th \in Threads, SendPacket(th) PROVE QueueDrained'
  BY <1>3, DrainedSend
<1>4. CASE SendImpl \/ OnOpen \/ InvokeOnOpen \/ OnDisconnect \/ Ignored
           \/ OnDisconnectPacket \/ OnAck \/ WaitAborted \/ TimeoutConnection
           \/ OnCloseWait \/ CloseNull
  BY <1>0, <1>4, DrainedStays
     DEF SendImpl, OnOpen, InvokeOnOpen, OnDisconnect, Ignored,
         OnDisconnectPacket, OnAck, WaitAborted, TimeoutConnection,
         OnCloseWait, CloseNull, Receives, Runs, At, Goto, Threads, socketVars
<1>5. CASE OnEvent
  BY <1>0, <1>5, DrainedStays
     DEF OnEvent, Emit, Receives, Runs, At, Goto, Threads, socketVars
<1>6. CASE InvokeOnDisconnect
  BY <1>0, <1>6 DEF InvokeOnDisconnect, At, Goto, QueueDrained
<1>7. CASE ClearQueue
  BY <1>0, <1>7 DEF ClearQueue, At, Goto, QueueDrained
<1>8. CASE OnConnected
  BY <1>0, <1>8
     DEF OnConnected, DrainIfNew, Receives, Runs, At, Goto, QueueDrained
<1>9. CASE CloseReset
  BY <1>0, <1>9 DEF CloseReset, At, Goto, QueueDrained
<1>10. CASE CloseRest
  BY <1>0, <1>10 DEF CloseRest, At, Goto, QueueDrained
<1>11. CASE Surroundings
  <2>1. UNCHANGED <<m_connected, m_packet_queue, pc>>
    BY <1>11
       DEF Surroundings, TimerExpires, SessionOpens, SessionEnds,
           ServerConnects, ServerEmits, ServerDisconnects, ServerAcks,
           ServerSends, Queued, socketVars
  <2> QED BY <2>1, DrainedStays
<1>12. CASE UNCHANGED vars
  BY <1>12, DrainedStays DEF vars, socketVars
<1> QED
  BY <1>0, <1>1, <1>2, <1>3, <1>4, <1>5, <1>6, <1>7, <1>8, <1>9, <1>10, <1>11,
     <1>12 DEF Next, UserStart, UserStep, NetStep, OnMessage

-----------------------------------------------------------------------------
(* Every emit in one place.                                                *)

PlaceNames ==
  {"written", "posted", "queued", "user", "user_hand", "net", "net_hand"}
HandOf(th) == IF th = "user" THEN "user_hand" ELSE "net_hand"

(* The places by name.                                                     *)
LEMMA PlacesFacts ==
  /\ DOMAIN Places = PlaceNames /\ DOMAIN Places' = PlaceNames
  /\ Places["written"] = EmitsIn(wire)
  /\ Places'["written"] = EmitsIn(wire')
  /\ Places["posted"] = EmitsIn(Posted(asio))
  /\ Places'["posted"] = EmitsIn(Posted(asio'))
  /\ Places["queued"] = EmitsIn(m_packet_queue)
  /\ Places'["queued"] = EmitsIn(m_packet_queue')
  /\ Places["user"] = ToSend("user") /\ Places'["user"] = ToSend("user")'
  /\ Places["net"] = ToSend("net") /\ Places'["net"] = ToSend("net")'
  /\ Places["user_hand"] = InHand("user")
  /\ Places'["user_hand"] = InHand("user")'
  /\ Places["net_hand"] = InHand("net")
  /\ Places'["net_hand"] = InHand("net")'
BY DEF Places, PlaceNames

(* InOnePlace in terms of them.                                            *)
LEMMA PlacesApart ==
  InOnePlace <=>
    /\ Once(wire) /\ Once(Posted(asio)) /\ Once(m_packet_queue)
    /\ \A a \in PlaceNames : Places[a] \subseteq 1..emits
    /\ \A a, b \in PlaceNames : a # b => Places[a] \cap Places[b] = {}
BY PlacesFacts DEF InOnePlace

(* A step that takes emits from where they are, and brings some that are   *)
(* nowhere else afterwards to one place.                                   *)
LEMMA Moves ==
  ASSUME InOnePlace, emits \in Nat, emits' \in Nat, emits <= emits',
         Once(wire'), Once(Posted(asio')), Once(m_packet_queue'),
         NEW to \in PlaceNames, NEW N \in SUBSET (1..emits'),
         Places'[to] \subseteq Places[to] \cup N,
         \A a \in PlaceNames \ {to} :
           Places'[a] \subseteq Places[a] /\ Places'[a] \cap N = {}
  PROVE  InOnePlace'
<1>1. /\ \A a \in PlaceNames : Places[a] \subseteq 1..emits
      /\ \A a, b \in PlaceNames : a # b => Places[a] \cap Places[b] = {}
  BY PlacesApart
<1>2. 1..emits \subseteq 1..emits'
  OBVIOUS
<1>3. \A a \in PlaceNames : Places'[a] \subseteq 1..emits'
  BY <1>1, <1>2
<1>4. ASSUME NEW a \in PlaceNames, NEW b \in PlaceNames, a # b
      PROVE  Places'[a] \cap Places'[b] = {}
  <2>1. Places[a] \cap Places[b] = {}
    BY <1>1, <1>4
  <2>2. CASE a = to
    BY <1>4, <2>1, <2>2
  <2>3. CASE b = to
    BY <1>4, <2>1, <2>3
  <2>4. CASE a # to /\ b # to
    BY <2>1, <2>4
  <2> QED BY <2>2, <2>3, <2>4
<1> QED BY <1>3, <1>4, PlacesFacts DEF InOnePlace

(* A step that brings nothing anywhere.                                    *)
LEMMA NothingMoves ==
  ASSUME TypeOK, InOnePlace, UNCHANGED emits,
         Once(wire'), Once(Posted(asio')), Once(m_packet_queue'),
         \A a \in PlaceNames : Places'[a] \subseteq Places[a]
  PROVE  InOnePlace'
<1>1. "written" \in PlaceNames /\ {} \in SUBSET (1..emits')
  BY DEF PlaceNames
<1>2. emits \in Nat /\ emits' \in Nat /\ emits <= emits'
  BY BoundsAssumption DEF TypeOK
<1>3. \A a \in PlaceNames \ {"written"} :
        Places'[a] \subseteq Places[a] /\ Places'[a] \cap {} = {}
  OBVIOUS
<1>4. Places'["written"] \subseteq Places["written"] \cup {}
  BY <1>1
<1> QED BY <1>1, <1>2, <1>3, <1>4, Moves

(* A thread with nothing to send, that does not begin to, holds no more    *)
(* than before.                                                            *)
LEMMA HoldsStay ==
  ASSUME NEW th \in Threads, UNCHANGED <<p, front_pack>>,
         pc'[th] \in SendSteps => pc[th] \in SendSteps,
         pc'[th] \in {"front", "open.front"} =>
           pc[th] \in {"front", "open.front"}
  PROVE  /\ ToSend(th)' \subseteq ToSend(th)
         /\ InHand(th)' \subseteq InHand(th)
BY DEF ToSend, InHand

(* A step that brings no thread nearer to sending, writes and posts no     *)
(* emit, and puts nothing in the queue.                                    *)
LEMMA NoEmitMoves ==
  ASSUME TypeOK, InOnePlace, UNCHANGED <<emits, p, front_pack>>,
         m_packet_queue' \in {m_packet_queue, <<>>},
         \/ wire' = wire
         \/ Once(wire') /\ EmitsIn(wire') \subseteq EmitsIn(wire),
         asio' = asio \/ KeepsPosted(asio, asio'),
         \A th \in Threads :
           /\ pc'[th] \in SendSteps => pc[th] \in SendSteps
           /\ pc'[th] \in {"front", "open.front"} =>
                pc[th] \in {"front", "open.front"}
  PROVE  InOnePlace'
<1>1. Once(wire) /\ Once(Posted(asio)) /\ Once(m_packet_queue)
  BY DEF InOnePlace
<1>2. Once(wire') /\ EmitsIn(wire') \subseteq EmitsIn(wire)
  BY <1>1
<1>3. /\ Once(Posted(asio'))
      /\ EmitsIn(Posted(asio')) \subseteq EmitsIn(Posted(asio))
  BY <1>1 DEF KeepsPosted
<1>4. /\ Once(m_packet_queue')
      /\ EmitsIn(m_packet_queue') \subseteq EmitsIn(m_packet_queue)
  BY <1>1, EmptyEmits
<1>5. /\ ToSend("user")' \subseteq ToSend("user")
      /\ InHand("user")' \subseteq InHand("user")
      /\ ToSend("net")' \subseteq ToSend("net")
      /\ InHand("net")' \subseteq InHand("net")
  BY HoldsStay DEF Threads
<1>6. \A a \in PlaceNames : Places'[a] \subseteq Places[a]
  BY <1>2, <1>3, <1>4, <1>5, PlacesFacts DEF PlaceNames
<1> QED BY <1>2, <1>3, <1>4, <1>6, NothingMoves

(* Writing a packet that is not written yet, if the session is up.         *)
LEMMA WriteOutEmits ==
  ASSUME TypeOK, NEW pkt \in Packets, WriteOut(pkt), Once(wire),
         EmitsOf(pkt) \cap EmitsIn(wire) = {}
  PROVE  /\ Once(wire')
         /\ EmitsIn(wire') \subseteq EmitsIn(wire) \cup EmitsOf(pkt)
<1> DEFINE S == Packets \cup {Packet("session", 0, 0)}
<1>1. wire \in Seq(S) /\ pkt \in S
  BY DEF TypeOK
<1>2. wire' = wire \/ wire' = Append(wire, pkt)
  BY DEF WriteOut
<1> HIDE DEF S
<1>3. CASE wire' = Append(wire, pkt)
  BY <1>1, <1>3, AppendEmits
<1> QED BY <1>2, <1>3

(* A thread sends a packet that it holds, and holds it no longer.          *)
LEMMA SendMoves ==
  ASSUME TypeOK, InOnePlace, NEW th \in Threads, NEW pkt \in Packets,
         NEW label, SendOrCrash(th, pkt, label), SendUnchanged,
         NEW from \in {"user", "user_hand", "net", "net_hand"},
         EmitsOf(pkt) \subseteq Places[from],
         m_client => Places'[from] = {},
         \A u \in Threads : ToSend(u)' \subseteq ToSend(u)
                            /\ InHand(u)' \subseteq InHand(u)
  PROVE  InOnePlace'
<1>1. /\ Once(wire) /\ Once(Posted(asio)) /\ Once(m_packet_queue)
      /\ \A a \in PlaceNames : Places[a] \subseteq 1..emits
      /\ \A a, b \in PlaceNames : a # b => Places[a] \cap Places[b] = {}
  BY PlacesApart
<1>2. /\ emits \in Nat /\ emits' = emits /\ m_packet_queue' = m_packet_queue
      /\ front_pack' = front_pack /\ p' = p
  BY BoundsAssumption DEF TypeOK, SendUnchanged, sendVars, socketVars, bounds
<1>3. CASE ~m_client
  <2>1. UNCHANGED <<asio, wire, pc>>
    BY <1>3 DEF SendOrCrash
  <2> QED BY <1>2, <2>1, NoEmitMoves
<1>4. \A a \in PlaceNames \ {from} : EmitsOf(pkt) \cap Places[a] = {}
  BY <1>1 DEF PlaceNames
<1>5. EmitsOf(pkt) \in SUBSET (1..emits')
  BY <1>1, <1>2 DEF PlaceNames
<1>6. /\ Places'["user"] \subseteq Places["user"]
      /\ Places'["user_hand"] \subseteq Places["user_hand"]
      /\ Places'["net"] \subseteq Places["net"]
      /\ Places'["net_hand"] \subseteq Places["net_hand"]
      /\ Places'["queued"] = Places["queued"]
  BY <1>2, PlacesFacts DEF Threads
<1>7. CASE m_client /\ th = "user"
  <2>1. asio' = Post(asio, "send_impl", pkt) /\ wire' = wire
    BY <1>7 DEF SendOrCrash, ClientSend
  <2>2. Posted(asio) \in Seq(Packets)
    BY PostedType DEF TypeOK
  <2>3. Posted(asio') = Append(Posted(asio), pkt)
    <3>1. asio \in Queues /\ Handler("send_impl", pkt) \in Handlers
      BY PacketFacts DEF TypeOK
    <3>2. PostedBy(Handler("send_impl", pkt)) = pkt
      BY DEF PostedBy, Handler
    <3> QED BY <2>1, <3>1, <3>2, PostFacts
  <2>4. EmitsOf(pkt) \cap EmitsIn(Posted(asio)) = {}
    BY <1>4, PlacesFacts DEF PlaceNames
  <2>5. /\ Once(Posted(asio'))
        /\ EmitsIn(Posted(asio')) = EmitsIn(Posted(asio)) \cup EmitsOf(pkt)
    BY <1>1, <2>2, <2>3, <2>4, AppendEmits
  <2>6. Places'["posted"] \subseteq Places["posted"] \cup EmitsOf(pkt)
    BY <2>5, PlacesFacts
  <2>7. \A a \in PlaceNames \ {"posted"} :
          Places'[a] \subseteq Places[a] /\ Places'[a] \cap EmitsOf(pkt) = {}
    <3>1. Places'["written"] = Places["written"]
      BY <2>1, PlacesFacts
    <3>2. \A a \in PlaceNames \ {"posted"} : Places'[a] \subseteq Places[a]
      BY <1>6, <3>1 DEF PlaceNames
    <3> QED BY <1>4, <1>7, <3>2
  <2> QED
    BY <1>1, <1>2, <1>5, <2>1, <2>5, <2>6, <2>7, Moves DEF PlaceNames
<1>8. CASE m_client /\ th = "net"
  <2>1. asio' = asio /\ WriteOut(pkt)
    BY <1>8 DEF SendOrCrash, ClientSend
  <2>2. EmitsOf(pkt) \cap EmitsIn(wire) = {}
    BY <1>4, PlacesFacts DEF PlaceNames
  <2>3. /\ Once(wire')
        /\ EmitsIn(wire') \subseteq EmitsIn(wire) \cup EmitsOf(pkt)
    BY <1>1, <2>1, <2>2, WriteOutEmits
  <2>4. Places'["written"] \subseteq Places["written"] \cup EmitsOf(pkt)
    BY <2>3, PlacesFacts
  <2>5. \A a \in PlaceNames \ {"written"} :
          Places'[a] \subseteq Places[a] /\ Places'[a] \cap EmitsOf(pkt) = {}
    <3>1. Places'["posted"] = Places["posted"]
      BY <2>1, PlacesFacts
    <3>2. \A a \in PlaceNames \ {"written"} : Places'[a] \subseteq Places[a]
      BY <1>6, <3>1 DEF PlaceNames
    <3> QED BY <1>4, <1>8, <3>2
  <2> QED
    BY <1>1, <1>2, <1>5, <2>1, <2>3, <2>4, <2>5, Moves DEF PlaceNames
<1> QED BY <1>3, <1>7, <1>8 DEF Threads

(* Every step of send_packet moves an emit to one place, or none.          *)
LEMMA SendInOnePlace ==
  ASSUME TypeOK, InOnePlace, NEW th \in Threads, SendPacket(th)
  PROVE  InOnePlace'
<1>0. /\ pc \in [Threads -> PCs] /\ m_packet_queue \in Seq(Packets)
      /\ p \in [Threads -> Packets] /\ front_pack \in [Threads -> Packets]
      /\ emits \in Nat
  BY BoundsAssumption DEF TypeOK
<1>1. /\ Once(wire) /\ Once(Posted(asio)) /\ Once(m_packet_queue)
      /\ \A a \in PlaceNames : Places[a] \subseteq 1..emits
      /\ \A a, b \in PlaceNames : a # b => Places[a] \cap Places[b] = {}
  BY PlacesApart
<1>2. /\ th \in PlaceNames /\ HandOf(th) \in PlaceNames
      /\ th \in {"user", "user_hand", "net", "net_hand"}
      /\ HandOf(th) \in {"user", "user_hand", "net", "net_hand"}
      /\ Places[th] = ToSend(th) /\ Places'[th] = ToSend(th)'
      /\ Places[HandOf(th)] = InHand(th) /\ Places'[HandOf(th)] = InHand(th)'
  BY PlacesFacts DEF PlaceNames, HandOf, Threads
<1>3. CASE TakeId(th) \/ SendGuard(th) \/ SendCheck(th)
  <2>1. \A u \in Threads :
          /\ pc'[u] \in SendSteps => pc[u] \in SendSteps
          /\ pc'[u] \in {"front", "open.front"} =>
               pc[u] \in {"front", "open.front"}
    BY <1>0, <1>3, ReturnFacts
       DEF TakeId, SendGuard, SendCheck, At, Goto, SendSteps
  <2>2. UNCHANGED <<emits, p, front_pack, m_packet_queue, wire, asio>>
    BY <1>3
       DEF TakeId, SendGuard, SendCheck, sendVars, socketVars, peerVars, bounds
  <2> QED BY <2>1, <2>2, NoEmitMoves
<1>4. CASE Drain(th)
  <2>1. UNCHANGED <<emits, p, wire, asio>>
    BY <1>4 DEF Drain, Pop, peerVars, bounds
  <2>2. CASE m_packet_queue = <<>>
    <3>1. UNCHANGED <<front_pack, m_packet_queue>>
      BY <1>4, <2>2 DEF Drain, Pop
    <3>2. \A u \in Threads :
            /\ pc'[u] \in SendSteps => pc[u] \in SendSteps
            /\ pc'[u] \in {"front", "open.front"} =>
                 pc[u] \in {"front", "open.front"}
      BY <1>0, <1>4, <2>2 DEF Drain, Pop, At, Goto, SendSteps
    <3> QED BY <2>1, <3>1, <3>2, NoEmitMoves
  <2>3. CASE m_packet_queue # <<>>
    <3> DEFINE pkt == Head(m_packet_queue)
    <3>1. /\ front_pack' = [front_pack EXCEPT ![th] = pkt]
          /\ m_packet_queue' = Tail(m_packet_queue)
          /\ \/ pc[th] = "drain" /\ pc' = [pc EXCEPT ![th] = "front"]
             \/ pc[th] = "open.drain" /\ pc' = [pc EXCEPT ![th] = "open.front"]
      BY <1>4, <2>3 DEF Drain, Pop, At, Goto
    <3>2. /\ EmitsIn(m_packet_queue) = EmitsOf(pkt) \cup EmitsIn(m_packet_queue')
          /\ Once(m_packet_queue')
          /\ EmitsOf(pkt) \cap EmitsIn(m_packet_queue') = {}
      BY <1>0, <1>1, <2>3, <3>1, TailEmits
    <3>3. pkt \in Packets
      BY <1>0, <2>3
    <3> HIDE DEF pkt
    <3>4. InHand(th)' \subseteq InHand(th) \cup EmitsOf(pkt)
      BY <1>0, <3>1, <3>3 DEF InHand
    <3>5. /\ \A u \in Threads : ToSend(u)' = ToSend(u)
          /\ \A u \in Threads \ {th} : InHand(u)' = InHand(u)
      BY <1>0, <2>1, <3>1 DEF ToSend, InHand, SendSteps
    <3>6. \A a \in PlaceNames \ {HandOf(th)} : Places'[a] \subseteq Places[a]
      BY <2>1, <3>2, <3>5, PlacesFacts DEF PlaceNames, HandOf, Threads
    <3>7. \A a \in PlaceNames \ {"queued"} : EmitsOf(pkt) \cap Places[a] = {}
      BY <1>1, <3>2, PlacesFacts DEF PlaceNames
    <3>8. EmitsOf(pkt) \cap Places'["queued"] = {}
      BY <3>2, PlacesFacts
    <3>9. EmitsOf(pkt) \in SUBSET (1..emits')
      BY <1>1, <2>1, <3>2, PlacesFacts DEF PlaceNames
    <3>10. \A a \in PlaceNames \ {HandOf(th)} :
             Places'[a] \subseteq Places[a] /\ Places'[a] \cap EmitsOf(pkt) = {}
      BY <3>6, <3>7, <3>8
    <3>11. Places'[HandOf(th)] \subseteq Places[HandOf(th)] \cup EmitsOf(pkt)
      BY <1>2, <3>4
    <3>12. /\ emits' \in Nat /\ emits <= emits'
           /\ Once(wire') /\ Once(Posted(asio')) /\ Once(m_packet_queue')
      BY <1>0, <1>1, <2>1, <3>2
    <3> QED
      BY <1>0, <1>2, <3>9, <3>10, <3>11, <3>12, Moves
  <2> QED BY <2>2, <2>3
<1>5. CASE SendFront(th)
  <2>1. PICK label \in {"drain", "open.drain"} :
          /\ pc[th] = IF label = "drain" THEN "front" ELSE "open.front"
          /\ SendOrCrash(th, front_pack[th], label)
    BY <1>5 DEF SendFront, At
  <2>2. /\ UNCHANGED <<p, front_pack>> /\ SendUnchanged
        /\ front_pack[th] \in Packets
    BY <1>0, <1>5 DEF SendFront, SendUnchanged, sendVars
  <2>3. EmitsOf(front_pack[th]) \subseteq Places[HandOf(th)]
    BY <1>2, <2>1 DEF InHand
  <2>4. pc' = pc \/ pc' = [pc EXCEPT ![th] = label]
    BY <2>1 DEF SendOrCrash, Goto
  <2>5. m_client => Places'[HandOf(th)] = {}
    BY <1>0, <1>2, <2>1 DEF SendOrCrash, Goto, InHand
  <2>6. \A u \in Threads : /\ ToSend(u)' \subseteq ToSend(u)
                           /\ InHand(u)' \subseteq InHand(u)
    BY <1>0, <2>1, <2>2, <2>4 DEF ToSend, InHand, SendSteps
  <2> QED BY <1>2, <2>1, <2>2, <2>3, <2>5, <2>6, SendMoves
<1>6. CASE SendLast(th)
  <2>1. /\ pc[th] = "send"
        /\ SendOrCrash(th, p[th], Return(th))
        /\ UNCHANGED <<p, front_pack>> /\ SendUnchanged
        /\ p[th] \in Packets
    BY <1>0, <1>6 DEF SendLast, At, SendUnchanged, sendVars
  <2>2. EmitsOf(p[th]) \subseteq Places[th]
    BY <1>2, <2>1 DEF ToSend, SendSteps
  <2>3. pc' = pc \/ pc' = [pc EXCEPT ![th] = Return(th)]
    BY <2>1 DEF SendOrCrash, Goto
  <2>4. m_client => Places'[th] = {}
    BY <1>0, <1>2, <2>1, ReturnFacts DEF SendOrCrash, Goto, ToSend, SendSteps
  <2>5. \A u \in Threads : /\ ToSend(u)' \subseteq ToSend(u)
                           /\ InHand(u)' \subseteq InHand(u)
    BY <1>0, <2>1, <2>3, ReturnFacts DEF ToSend, InHand, SendSteps
  <2> QED BY <1>2, <2>1, <2>2, <2>4, <2>5, SendMoves
<1>7. CASE Push(th)
  <2>1. /\ pc[th] = "push" /\ pc' = [pc EXCEPT ![th] = Return(th)]
        /\ m_packet_queue' = Append(m_packet_queue, p[th])
        /\ UNCHANGED <<p, front_pack, wire, asio, emits>>
        /\ p[th] \in Packets
    BY <1>0, <1>7 DEF Push, At, Goto, sendVars, peerVars, bounds
  <2>2. EmitsOf(p[th]) \subseteq Places[th] /\ Places'[th] = {}
    BY <1>0, <1>2, <2>1, ReturnFacts DEF ToSend, SendSteps
  <2>3. EmitsOf(p[th]) \cap EmitsIn(m_packet_queue) = {}
    BY <1>1, <1>2, <2>2, PlacesFacts DEF PlaceNames, Threads
  <2>4. /\ Once(m_packet_queue')
        /\ EmitsIn(m_packet_queue') =
             EmitsIn(m_packet_queue) \cup EmitsOf(p[th])
    BY <1>0, <1>1, <2>1, <2>3, AppendEmits
  <2>5. \A u \in Threads : /\ ToSend(u)' \subseteq ToSend(u)
                           /\ InHand(u)' \subseteq InHand(u)
    BY <1>0, <2>1, ReturnFacts DEF ToSend, InHand, SendSteps
  <2>6. \A a \in PlaceNames \ {"queued"} : Places'[a] \subseteq Places[a]
    BY <2>1, <2>5, PlacesFacts DEF PlaceNames, Threads
  <2>7. \A a \in PlaceNames \ {"queued"} :
          Places'[a] \subseteq Places[a] /\ Places'[a] \cap EmitsOf(p[th]) = {}
    <3>1. \A a \in PlaceNames \ {th} : EmitsOf(p[th]) \cap Places[a] = {}
      BY <1>1, <1>2, <2>2
    <3> QED BY <2>2, <2>6, <3>1
  <2>8. Places'["queued"] \subseteq Places["queued"] \cup EmitsOf(p[th])
    BY <2>4, PlacesFacts
  <2>9. EmitsOf(p[th]) \in SUBSET (1..emits')
    BY <1>1, <1>2, <2>1, <2>2
  <2>10. /\ emits' \in Nat /\ emits <= emits' /\ "queued" \in PlaceNames
         /\ Once(wire') /\ Once(Posted(asio')) /\ Once(m_packet_queue')
    BY <1>0, <1>1, <2>1, <2>4 DEF PlaceNames
  <2> QED
    BY <1>0, <2>7, <2>8, <2>9, <2>10, Moves
<1> QED BY <1>3, <1>4, <1>5, <1>6, <1>7 DEF SendPacket

(* emit(): the number is new.                                              *)
LEMMA EmitInOnePlace ==
  ASSUME TypeOK, InOnePlace, NEW th \in Threads, Emit(th), pc[th] = "idle",
         UNCHANGED <<front_pack, wire, m_packet_queue>>,
         asio' = asio \/ KeepsPosted(asio, asio')
  PROVE  InOnePlace'
<1>0. /\ pc \in [Threads -> PCs] /\ p \in [Threads -> Packets]
      /\ emits \in Nat /\ emits' \in Nat /\ emits' = emits + 1
  BY BoundsAssumption DEF TypeOK, Emit
<1>1. /\ Once(wire) /\ Once(Posted(asio)) /\ Once(m_packet_queue)
      /\ \A a \in PlaceNames : Places[a] \subseteq 1..emits
  BY PlacesApart
<1>2. /\ th \in PlaceNames
      /\ Places[th] = ToSend(th) /\ Places'[th] = ToSend(th)'
  BY PlacesFacts DEF PlaceNames, Threads
<1>3. ToSend(th)' \subseteq {emits + 1}
  <2>1. CASE m_client
    BY <1>0, <2>1 DEF Emit, Goto, ToSend, EmitsOf, Packet
  <2>2. CASE ~m_client
    BY <1>0, <2>2 DEF Emit, ToSend, SendSteps
  <2> QED BY <2>1, <2>2
<1>4. /\ \A u \in Threads : InHand(u)' \subseteq InHand(u)
      /\ \A u \in Threads \ {th} : ToSend(u)' = ToSend(u)
  BY <1>0 DEF Emit, Goto, InHand, ToSend
<1>5. /\ Once(Posted(asio'))
      /\ EmitsIn(Posted(asio')) = EmitsIn(Posted(asio))
  BY <1>1 DEF KeepsPosted
<1>6. \A a \in PlaceNames \ {th} : Places'[a] \subseteq Places[a]
  BY <1>4, <1>5, PlacesFacts DEF PlaceNames, Threads
<1>7. emits + 1 \notin 1..emits /\ emits <= emits' /\ {emits + 1} \subseteq 1..emits'
  BY <1>0
<1>8. \A a \in PlaceNames \ {th} :
        Places'[a] \subseteq Places[a] /\ Places'[a] \cap {emits + 1} = {}
  BY <1>1, <1>6, <1>7
<1>9. Places'[th] \subseteq Places[th] \cup {emits + 1}
  BY <1>2, <1>3
<1>10. Once(wire') /\ Once(m_packet_queue')
  BY <1>1
<1> QED BY <1>0, <1>2, <1>5, <1>7, <1>8, <1>9, <1>10, Moves

(* A posted packet is written, or dropped.                                 *)
LEMMA SendImplInOnePlace ==
  ASSUME TypeOK, InOnePlace, SendImpl
  PROVE  InOnePlace'
<1>0. /\ asio \in Queues /\ asio.ready # <<>>
      /\ asio' = PopReady(asio) /\ WriteOut(Arg)
      /\ Arg \in Packets /\ Head(asio.ready).op = "send_impl"
      /\ UNCHANGED <<pc, p, front_pack, m_packet_queue, emits>>
      /\ emits \in Nat
  BY BoundsAssumption
     DEF SendImpl, Runs, Popped, Arg, TypeOK, sendVars, socketVars, bounds
<1>1. /\ Once(wire) /\ Once(Posted(asio)) /\ Once(m_packet_queue)
      /\ \A a \in PlaceNames : Places[a] \subseteq 1..emits
      /\ \A a, b \in PlaceNames : a # b => Places[a] \cap Places[b] = {}
  BY PlacesApart
<1> DEFINE s == Posted(asio)
<1>2. /\ s \in Seq(Packets) /\ s # <<>> /\ Head(s) = Arg
      /\ Posted(asio') = Tail(s)
  BY <1>0, PopFacts, PostedType DEF PostedBy, Arg
<1>3. /\ EmitsIn(s) = EmitsOf(Arg) \cup EmitsIn(Tail(s))
      /\ Once(Tail(s))
      /\ EmitsOf(Arg) \cap EmitsIn(Tail(s)) = {}
  <2> HIDE DEF s
  <2>1. /\ EmitsIn(s) = EmitsOf(Head(s)) \cup EmitsIn(Tail(s))
        /\ Once(s) => /\ Once(Tail(s))
                      /\ EmitsOf(Head(s)) \cap EmitsIn(Tail(s)) = {}
    <3> SUFFICES s \in Seq(Packets) /\ s # <<>>
      BY TailEmits
    <3> QED BY <1>2
  <2>2. Once(s)
    BY <1>1 DEF s
  <2> QED BY <1>2, <2>1, <2>2
<1>4. /\ Once(Posted(asio'))
      /\ Places["posted"] = EmitsOf(Arg) \cup Places'["posted"]
      /\ EmitsOf(Arg) \cap Places'["posted"] = {}
  BY <1>2, <1>3, PlacesFacts
<1> HIDE DEF s
<1>5. \A a \in PlaceNames \ {"posted"} : EmitsOf(Arg) \cap Places[a] = {}
  BY <1>1, <1>4 DEF PlaceNames
<1>6. /\ Once(wire')
      /\ EmitsIn(wire') \subseteq EmitsIn(wire) \cup EmitsOf(Arg)
  <2>1. EmitsOf(Arg) \cap EmitsIn(wire) = {}
    BY <1>5, PlacesFacts DEF PlaceNames
  <2> QED BY <1>0, <1>1, <2>1, WriteOutEmits
<1>7. Places'["written"] \subseteq Places["written"] \cup EmitsOf(Arg)
  BY <1>6, PlacesFacts
<1>8. \A u \in Threads : ToSend(u)' = ToSend(u) /\ InHand(u)' = InHand(u)
  BY <1>0 DEF ToSend, InHand
<1>9. \A a \in PlaceNames \ {"written"} : Places'[a] \subseteq Places[a]
  BY <1>0, <1>4, <1>8, PlacesFacts DEF PlaceNames, Threads
<1>10. \A a \in PlaceNames \ {"written"} :
         Places'[a] \subseteq Places[a] /\ Places'[a] \cap EmitsOf(Arg) = {}
  BY <1>4, <1>5, <1>9
<1>11. EmitsOf(Arg) \in SUBSET (1..emits')
  BY <1>0, <1>1, <1>4 DEF PlaceNames
<1>12. /\ emits' \in Nat /\ emits <= emits' /\ "written" \in PlaceNames
       /\ Once(m_packet_queue')
  BY <1>0, <1>1 DEF PlaceNames
<1> QED
  BY <1>0, <1>4, <1>6, <1>7, <1>10, <1>11, <1>12, Moves

(* The first handler, which is no send_impl, is taken.                     *)
LEMMA PopKeeps ==
  ASSUME TypeOK, asio.ready # <<>>, Head(asio.ready).op # "send_impl"
  PROVE  KeepsReady(asio, PopReady(asio))
BY PopFacts DEF TypeOK

(* And the socket's timer is reset.                                        *)
LEMMA PopResetKeeps ==
  ASSUME TypeOK, asio.ready # <<>>, Head(asio.ready).op # "send_impl"
  PROVE  KeepsReady(asio, ResetTimer(PopReady(asio)))
<1> DEFINE q == PopReady(asio)
<1>1. KeepsReady(asio, q) /\ q \in Queues
  BY PopKeeps DEF KeepsReady, KeepsPosted
<1> HIDE DEF q
<1>2. KeepsReady(q, ResetTimer(q))
  BY <1>1, ResetTimerFacts
<1> QED BY <1>1, <1>2 DEF q, KeepsReady, KeepsPosted

(* Writing what is no emit.                                                *)
LEMMA NoEmitWritten ==
  ASSUME TypeOK, InOnePlace,
         NEW pkt \in {Connect, Packet("session", 0, 0)},
         wire' = wire \/ wire' = Append(wire, pkt)
  PROVE  Once(wire') /\ EmitsIn(wire') \subseteq EmitsIn(wire)
<1> DEFINE S == Packets \cup {Packet("session", 0, 0)}
<1>1. wire \in Seq(S) /\ pkt \in S /\ Once(wire)
  BY PacketFacts DEF TypeOK, InOnePlace
<1>2. EmitsOf(pkt) = {}
  BY DEF EmitsOf, Connect, Packet
<1> HIDE DEF S
<1>3. CASE wire' = Append(wire, pkt)
  <2>1. /\ EmitsIn(wire') = EmitsIn(wire) \cup EmitsOf(pkt)
        /\ Once(wire) /\ EmitsOf(pkt) \cap EmitsIn(wire) = {} => Once(wire')
    BY <1>1, <1>3, AppendEmits
  <2> QED BY <1>1, <1>2, <2>1
<1>4. CASE wire' = wire
  BY <1>1, <1>4
<1> QED BY <1>3, <1>4

(* The user's steps move an emit or none.                                  *)
LEMMA UserInOnePlace ==
  ASSUME TypeOK, InOnePlace, UserStart \/ UserStep
  PROVE  InOnePlace'
<1>0. /\ pc \in [Threads -> PCs] /\ p \in [Threads -> Packets]
      /\ "user" \in Threads /\ asio \in Queues
  BY DEF TypeOK, Threads
<1>1. CASE NewSocket \/ NewInsert
  <2>1. \A th \in Threads :
          /\ pc'[th] \in SendSteps => pc[th] \in SendSteps
          /\ pc'[th] \in {"front", "open.front"} =>
               pc[th] \in {"front", "open.front"}
    BY <1>0, <1>1 DEF NewSocket, NewInsert, Goto, SendSteps
  <2>2. UNCHANGED <<emits, p, front_pack, m_packet_queue, wire, asio>>
    BY <1>1
       DEF NewSocket, NewInsert, socketVars, sendVars, peerVars, bounds
  <2> QED BY <2>1, <2>2, NoEmitMoves
<1>2. CASE UserEmit
  <2>1. /\ Emit("user") /\ pc["user"] = "idle"
        /\ UNCHANGED <<front_pack, wire, m_packet_queue, asio>>
    BY <1>2 DEF UserEmit, At, socketVars, peerVars
  <2> QED BY <1>0, <2>1, EmitInOnePlace
<1>3. ASSUME NEW call \in UserCalls, UserClose(call) PROVE InOnePlace'
  <2>1. \A th \in Threads :
          /\ pc'[th] \in SendSteps => pc[th] \in SendSteps
          /\ pc'[th] \in {"front", "open.front"} =>
               pc[th] \in {"front", "open.front"}
    BY <1>0, <1>3 DEF UserClose, Goto, SendSteps
  <2>2. UNCHANGED <<emits, p, front_pack, m_packet_queue, wire, asio>>
    BY <1>3 DEF UserClose, socketVars, sendVars, peerVars
  <2> QED BY <2>1, <2>2, NoEmitMoves
<1>4. CASE NewConnect
  <2> DEFINE q == Post(asio, "send_impl", Connect)
  <2>1. /\ q \in Queues /\ Posted(q) = Append(Posted(asio), Connect)
    <3>1. Handler("send_impl", Connect) \in Handlers
      BY PacketFacts
    <3>2. PostedBy(Handler("send_impl", Connect)) = Connect
      BY DEF PostedBy, Handler
    <3> QED BY <1>0, <3>1, <3>2, PostFacts
  <2>2. KeepsPosted(asio, q)
    <3> DEFINE s == Posted(asio)
    <3>1. s \in Seq(Packets)
      BY <1>0, PostedType
    <3>2. Connect \in Packets /\ EmitsOf(Connect) = {}
      BY PacketFacts
    <3> HIDE DEF s
    <3>3. /\ EmitsIn(Append(s, Connect)) = EmitsIn(s) \cup EmitsOf(Connect)
          /\ Once(s) /\ EmitsOf(Connect) \cap EmitsIn(s) = {} =>
               Once(Append(s, Connect))
      BY <3>1, <3>2, AppendEmits
    <3>4. /\ UsersIn(Append(s, Connect)) = UsersIn(s) \cup UserOf(Connect)
          /\ Ordered(s) /\ Below(UsersIn(s), UserOf(Connect)) =>
               Ordered(Append(s, Connect))
      BY <3>1, <3>2, AppendUsers
    <3>5. UserOf(Connect) = {}
      BY DEF UserOf, UsersEmit, Connect, Packet
    <3> QED BY <2>1, <3>2, <3>3, <3>4, <3>5 DEF s, KeepsPosted, Below
  <2> HIDE DEF q
  <2>3. KeepsPosted(asio, asio')
    <3>1. KeepsPosted(q, AwaitConnect(q))
      BY <2>1, AwaitConnectFacts DEF KeepsReady
    <3>2. asio' = AwaitConnect(q)
      BY <1>4 DEF NewConnect, q
    <3> QED BY <2>2, <3>1, <3>2 DEF KeepsPosted
  <2>4. \A th \in Threads :
          /\ pc'[th] \in SendSteps => pc[th] \in SendSteps
          /\ pc'[th] \in {"front", "open.front"} =>
               pc[th] \in {"front", "open.front"}
    BY <1>0, <1>4 DEF NewConnect, Goto, SendSteps
  <2>5. UNCHANGED <<emits, p, front_pack, m_packet_queue, wire>>
    BY <1>4 DEF NewConnect, socketVars, sendVars, peerVars, bounds
  <2> QED BY <2>3, <2>4, <2>5, NoEmitMoves
<1>5. CASE SendPacket("user")
  BY <1>0, <1>5, SendInOnePlace
<1>6. CASE CloseCheck
  <2>1. /\ UNCHANGED <<emits, front_pack, m_packet_queue, wire, asio>>
        /\ \A th \in Threads \ {"user"} : UNCHANGED <<pc[th], p[th]>>
        /\ pc'["user"] \in {"guard", "idle"}
        /\ pc'["user"] = "guard" => p'["user"] = Disconnect
    BY <1>0, <1>6
       DEF CloseCheck, Goto, socketVars, peerVars, bounds
  <2>2. /\ ToSend("user")' = {} /\ InHand("user")' = {}
        /\ ToSend("net")' = ToSend("net") /\ InHand("net")' = InHand("net")
    BY <2>1, PacketFacts DEF ToSend, InHand, SendSteps, Threads
  <2>3. \A a \in PlaceNames : Places'[a] \subseteq Places[a]
    BY <2>1, <2>2, PlacesFacts DEF PlaceNames
  <2>4. Once(wire') /\ Once(Posted(asio')) /\ Once(m_packet_queue')
    BY <2>1 DEF InOnePlace
  <2> QED BY <2>1, <2>3, <2>4, NothingMoves
<1>7. CASE CloseTimer
  <2>1. asio' = asio \/ KeepsPosted(asio, asio')
    BY <1>0, <1>7, CloseWaitFacts DEF CloseTimer, KeepsReady
  <2>2. \A th \in Threads :
          /\ pc'[th] \in SendSteps => pc[th] \in SendSteps
          /\ pc'[th] \in {"front", "open.front"} =>
               pc[th] \in {"front", "open.front"}
    BY <1>0, <1>7 DEF CloseTimer, Goto, SendSteps
  <2>3. UNCHANGED <<emits, p, front_pack, m_packet_queue, wire>>
    BY <1>7 DEF CloseTimer, socketVars, sendVars, peerVars, bounds
  <2> QED BY <2>1, <2>2, <2>3, NoEmitMoves
<1> QED
  BY <1>1, <1>2, <1>3, <1>4, <1>5, <1>6, <1>7 DEF UserStart, UserStep

(* The network thread's steps move an emit or none.                        *)
LEMMA NetInOnePlace ==
  ASSUME TypeOK, InOnePlace, NetStep
  PROVE  InOnePlace'
<1>0. pc \in [Threads -> PCs] /\ "net" \in Threads /\ asio \in Queues
  BY DEF TypeOK, Threads
<1>1. CASE SendImpl
  BY <1>1, SendImplInOnePlace
<1>2. CASE SendPacket("net")
  BY <1>0, <1>2, SendInOnePlace
<1>3. CASE OnEvent
  <2>1. /\ asio' = PopReady(asio) /\ asio.ready # <<>>
        /\ Head(asio.ready).op # "send_impl"
        /\ pc["net"] = "idle"
        /\ UNCHANGED <<front_pack, wire, m_packet_queue>>
    BY <1>3 DEF OnEvent, Receives, Runs, Popped, At, socketVars, peerVars
  <2>2. KeepsPosted(asio, asio')
    BY <2>1, PopKeeps DEF KeepsReady
  <2>3. CASE Emit("net")
    BY <1>0, <2>1, <2>2, <2>3, EmitInOnePlace
  <2>4. CASE UNCHANGED <<emits, p, pc>>
    BY <2>1, <2>2, <2>4, NoEmitMoves
  <2> QED BY <1>3, <2>3, <2>4 DEF OnEvent
<1>4. ASSUME UNCHANGED <<emits, p, front_pack>>,
             m_packet_queue' \in {m_packet_queue, <<>>},
             \/ wire' = wire
             \/ Once(wire') /\ EmitsIn(wire') \subseteq EmitsIn(wire),
             asio' = asio \/ KeepsPosted(asio, asio'),
             \/ pc' = pc
             \/ \E label \in PCs \ (SendSteps \cup {"open.front"}) :
                  Goto("net", label)
      PROVE  InOnePlace'
  <2>1. \A th \in Threads :
          /\ pc'[th] \in SendSteps => pc[th] \in SendSteps
          /\ pc'[th] \in {"front", "open.front"} =>
               pc[th] \in {"front", "open.front"}
    BY <1>0, <1>4 DEF Goto, SendSteps
  <2> QED BY <1>4, <2>1, NoEmitMoves
<1>5. {"idle", "invoke.on_open", "invoke.on_disconnect", "clear", "open.drain",
       "close.null", "close.reset", "close.rest"}
        \subseteq PCs \ (SendSteps \cup {"open.front"})
  BY DEF PCs, SendSteps
<1>6. CASE OnOpen
  <2>1. KeepsPosted(asio, asio')
    BY <1>6, PopKeeps DEF OnOpen, Runs, Popped, KeepsReady
  <2>2. Once(wire') /\ EmitsIn(wire') \subseteq EmitsIn(wire)
    BY <1>6, NoEmitWritten DEF OnOpen
  <2> QED
    BY <1>4, <1>5, <1>6, <2>1, <2>2 DEF OnOpen, socketVars, sendVars, bounds
<1>7. CASE InvokeOnOpen
  <2>1. asio' = asio \/ KeepsPosted(asio, asio')
    BY <1>0, <1>7, AwaitConnectFacts DEF InvokeOnOpen, SendConnect, KeepsReady
  <2>2. wire' = wire \/ wire' = Append(wire, Connect)
    BY <1>7 DEF InvokeOnOpen, SendConnect, WriteOut
  <2>3. Once(wire') /\ EmitsIn(wire') \subseteq EmitsIn(wire)
    BY <2>2, NoEmitWritten
  <2> QED
    BY <1>4, <1>5, <1>7, <2>1, <2>3 DEF InvokeOnOpen, sendVars, bounds
<1>8. CASE OnDisconnect \/ Ignored \/ OnDisconnectPacket \/ OnAck
           \/ WaitAborted \/ OnCloseWait
  <2>1. KeepsPosted(asio, asio')
    BY <1>8, PopKeeps
       DEF OnDisconnect, Ignored, OnDisconnectPacket, OnAck, WaitAborted,
           OnCloseWait, Receives, Runs, Popped, KeepsReady
  <2>2. UNCHANGED <<emits, p, front_pack, m_packet_queue, wire>>
    BY <1>8
       DEF OnDisconnect, Ignored, OnDisconnectPacket, OnAck, WaitAborted,
           OnCloseWait, socketVars, sendVars, peerVars, bounds
  <2>3. pc' = pc \/ Goto("net", "invoke.on_disconnect")
                 \/ Goto("net", "close.null")
    BY <1>8
       DEF OnDisconnect, Ignored, OnDisconnectPacket, OnAck, WaitAborted,
           OnCloseWait
  <2> QED BY <1>4, <1>5, <2>1, <2>2, <2>3
<1>9. CASE OnConnected \/ TimeoutConnection
  <2>1. KeepsPosted(asio, asio')
    BY <1>9, PopResetKeeps
       DEF OnConnected, TimeoutConnection, Receives, Runs, KeepsReady
  <2>2. UNCHANGED <<emits, p, front_pack, m_packet_queue, wire>>
    BY <1>9
       DEF OnConnected, TimeoutConnection, socketVars, sendVars, peerVars, bounds
  <2>3. \/ Goto("net", "idle") \/ Goto("net", "open.drain")
        \/ Goto("net", "close.null")
    BY <1>9 DEF OnConnected, TimeoutConnection, DrainIfNew
  <2> QED BY <1>4, <1>5, <2>1, <2>2, <2>3
<1>10. CASE InvokeOnDisconnect \/ ClearQueue \/ CloseNull \/ CloseReset
            \/ CloseRest
  <2>1. asio' = asio \/ KeepsPosted(asio, asio')
    BY <1>0, <1>10, ResetTimerFacts
       DEF InvokeOnDisconnect, ClearQueue, CloseNull, CloseReset, CloseRest,
           KeepsReady
  <2>2. /\ UNCHANGED <<emits, p, front_pack, wire>>
        /\ m_packet_queue' \in {m_packet_queue, <<>>}
    BY <1>10
       DEF InvokeOnDisconnect, ClearQueue, CloseNull, CloseReset, CloseRest,
           sendVars, peerVars, bounds
  <2>3. \/ Goto("net", "idle") \/ Goto("net", "clear")
        \/ Goto("net", "close.reset") \/ Goto("net", "close.rest")
    BY <1>10
       DEF InvokeOnDisconnect, ClearQueue, CloseNull, CloseReset, CloseRest
  <2> QED BY <1>4, <1>5, <2>1, <2>2, <2>3
<1> QED
  BY <1>1, <1>2, <1>3, <1>6, <1>7, <1>8, <1>9, <1>10 DEF NetStep, OnMessage

(* Time, the connection and the server move none.                          *)
LEMMA SurroundingsKeep ==
  ASSUME TypeOK, Surroundings
  PROVE  /\ KeepsPosted(asio, asio')
         /\ UNCHANGED <<pc, sendVars, wire, socketVars, ackVars, emits>>
<1>0. asio \in Queues
  BY DEF TypeOK
<1>1. CASE \E t \in Timers : TimerExpires(t)
  BY <1>0, <1>1, ExpireFacts DEF TimerExpires, Queued, KeepsReady, peerVars
<1>2. CASE SessionOpens \/ SessionEnds
  <2>1. /\ Handler("on_open", "-") \in Handlers
        /\ Handler("on_disconnect", "-") \in Handlers
    BY DEF Handler, Handlers
  <2>2. KeepsPosted(asio, asio')
    BY <1>0, <1>2, <2>1, PostFacts
       DEF SessionOpens, SessionEnds, Queued
  <2> QED BY <1>2, <2>2 DEF SessionOpens, SessionEnds, Queued
<1>3. ASSUME NEW msg \in Messages, ServerSends(msg)
      PROVE  /\ KeepsPosted(asio, asio')
             /\ UNCHANGED <<pc, sendVars, wire, socketVars, ackVars, emits>>
  <2>1. Handler("on_message", msg) \in Handlers
    BY DEF Handler, Handlers
  <2> QED BY <1>0, <1>3, <2>1, PostFacts DEF ServerSends, Queued
<1>4. CASE ServerConnects \/ ServerEmits \/ ServerDisconnects
  BY <1>3, <1>4 DEF ServerConnects, ServerEmits, ServerDisconnects, Messages
<1>5. CASE ServerAcks
  <2>1. PICK e \in server.events : ServerSends(Packet("ack", e[1], e[2]))
    BY <1>5 DEF ServerAcks
  <2>2. Packet("ack", e[1], e[2]) \in Messages
    BY DEF TypeOK, Messages, Packet
  <2> QED BY <1>3, <2>1, <2>2
<1> QED BY <1>1, <1>2, <1>4, <1>5 DEF Surroundings

(* Every emit stays in one place.                                          *)
LEMMA InOnePlaceStep ==
  ASSUME TypeOK, InOnePlace, [Next]_vars
  PROVE  InOnePlace'
<1>1. CASE UserStart \/ UserStep
  BY <1>1, UserInOnePlace
<1>2. CASE NetStep
  BY <1>2, NetInOnePlace
<1>3. CASE Surroundings
  BY <1>3, SurroundingsKeep, NoEmitMoves DEF sendVars, socketVars
<1>4. CASE UNCHANGED vars
  BY <1>4, NoEmitMoves DEF vars, sendVars, socketVars, peerVars, bounds
<1> QED BY <1>1, <1>2, <1>3, <1>4 DEF Next

-----------------------------------------------------------------------------
(* Whose id it is.                                                         *)

(* The emits and the ids that are under way.                               *)
Pair(pkt) == <<pkt.n, pkt.id>>
PairsIn(s) == {Pair(s[i]) : i \in DOMAIN s}
PairsTo(q) == {Pair(h.arg) : h \in Traffic(q)}
Carried ==
  {Pair(front_pack[th]) : th \in Threads}
    \cup {Pair(p[th]) : th \in {u \in Threads : pc[u] # "id"}}
    \cup PairsIn(m_packet_queue) \cup PairsTo(asio) \cup server.events

(* Whatever is carried carries an id that its emit owns.                   *)
LEMMA CarriedFacts ==
  ASSUME TypeOK, IdsOwned
  PROVE  \A x \in Carried : x[2] \in Ids /\ Owns(x[1], x[2])
<1>1. \A h \in Traffic(asio) : h.arg.id \in Ids
  <2>1. \A i \in DOMAIN asio.ready : asio.ready[i] \in Handlers
    BY DEF TypeOK, Queues
  <2>2. \A h \in Handlers : h.op \in {"send_impl", "on_message"} =>
          h.arg \in Packets \cup Messages
    BY DEF Handlers, Timers
  <2>3. \A pkt \in Packets \cup Messages : pkt.id \in Ids
    BY BoundsAssumption
       DEF Packets, Messages, Connect, Disconnect, Packet, Emits, Ids
  <2> QED BY <2>1, <2>2, <2>3 DEF Traffic
<1>2. \A pkt \in Packets : pkt.id \in Ids
  BY BoundsAssumption DEF Packets, Connect, Disconnect, Packet, Ids
<1>3. \A e \in server.events : e[2] \in Ids
  BY BoundsAssumption DEF TypeOK, Emits, Ids
<1>4. \A i \in DOMAIN m_packet_queue : m_packet_queue[i] \in Packets
  BY DEF TypeOK
<1>5. \A x \in PairsTo(asio) : x[2] \in Ids /\ Owns(x[1], x[2])
  BY <1>1 DEF PairsTo, Pair, IdsOwned
<1>6. \A x \in PairsIn(m_packet_queue) : x[2] \in Ids /\ Owns(x[1], x[2])
  BY <1>2, <1>4 DEF PairsIn, Pair, IdsOwned
<1>7. \A th \in Threads :
        /\ front_pack[th].id \in Ids /\ p[th].id \in Ids
        /\ Owns(front_pack[th].n, front_pack[th].id)
        /\ pc[th] # "id" => Owns(p[th].n, p[th].id)
  BY <1>2 DEF TypeOK, IdsOwned
<1>8. \A e \in server.events : Owns(e[1], e[2])
  BY DEF IdsOwned
<1> QED BY <1>3, <1>5, <1>6, <1>7, <1>8 DEF Carried, Pair

(* Who owns an id still does when the callbacks that are there are kept or *)
(* run, and new ones get new ids.                                          *)
LEMMA OwnersStay ==
  ASSUME TypeOK, IdsOwned,
         s_global_event_id' \in Nat, s_global_event_id <= s_global_event_id',
         \A id \in Emits :
           /\ id < s_global_event_id => m_acks'[id] \in {0, m_acks[id]}
           /\ id >= s_global_event_id' => m_acks'[id] = 0,
         \A th \in Threads :
           pc'[th] = "id" =>
             p'[th].id = s_global_event_id' /\ th \in AckThreads,
         \A x \in Carried' :
           x \in Carried \/ x[2] = 0 \/ Owns(x[1], x[2])',
         AckIsOwn'
  PROVE  IdsOwned'
<1>0. s_global_event_id \in Nat
  BY BoundsAssumption DEF TypeOK
<1>1. ASSUME NEW x \in Carried' PROVE Owns(x[1], x[2])'
  <2>1. CASE x \in Carried
    <3>1. x[2] \in Ids /\ Owns(x[1], x[2])
      BY <2>1, CarriedFacts
    <3>2. x[2] = 0 \/ x[2] \in Emits
      BY <3>1, BoundsAssumption DEF Ids, Emits
    <3>3. CASE x[2] \in Emits
      <4>1. x[2] \in Nat /\ x[2] # 0
        BY <3>3, BoundsAssumption DEF Emits
      <4>2. x[2] < s_global_event_id /\ m_acks[x[2]] \in {0, x[1]}
        BY <3>1, <4>1 DEF Owns
      <4>3. x[2] < s_global_event_id'
        BY <1>0, <4>1, <4>2
      <4>4. m_acks'[x[2]] \in {0, x[1]}
        BY <3>3, <4>2
      <4> QED BY <4>3, <4>4 DEF Owns
    <3> QED BY <3>2, <3>3 DEF Owns
  <2> QED BY <1>1, <2>1 DEF Owns
<1>2. /\ \A th \in Threads : Pair(front_pack'[th]) \in Carried'
      /\ \A th \in Threads : pc'[th] # "id" => Pair(p'[th]) \in Carried'
      /\ \A i \in DOMAIN m_packet_queue' : Pair(m_packet_queue'[i]) \in Carried'
      /\ \A h \in Traffic(asio') : Pair(h.arg) \in Carried'
      /\ \A e \in server'.events : e \in Carried'
  BY DEF Carried, PairsIn, PairsTo
<1>3. \A n, id : <<n, id>> \in Carried' => Owns(n, id)'
  BY <1>1
<1>4. /\ \A th \in Threads : Owns(front_pack[th].n, front_pack[th].id)'
      /\ \A th \in Threads : pc'[th] # "id" => Owns(p[th].n, p[th].id)'
      /\ \A i \in DOMAIN m_packet_queue' :
           Owns(m_packet_queue[i].n, m_packet_queue[i].id)'
      /\ \A h \in Traffic(asio') : Owns(h.arg.n, h.arg.id)'
      /\ \A e \in server'.events : Owns(e[1], e[2])'
  BY <1>1, <1>2, <1>3 DEF Pair, Owns
<1> QED BY <1>4 DEF IdsOwned, Traffic

(* A step that leaves the callbacks alone, and carries on nothing new with *)
(* an id.                                                                  *)
LEMMA OwnedStays ==
  ASSUME TypeOK, IdsOwned, UNCHANGED ackVars,
         \A th \in Threads :
           pc'[th] = "id" => pc[th] = "id" /\ p'[th] = p[th],
         \A th \in Threads : Pair(front_pack'[th]) \in Carried,
         \A th \in Threads :
           pc'[th] # "id" => Pair(p'[th]) \in Carried \/ p'[th].id = 0,
         \A x \in PairsIn(m_packet_queue') : x \in Carried,
         \A x \in PairsTo(asio') \cup server'.events :
           x \in Carried \/ x[2] = 0
  PROVE  IdsOwned'
<1>1. UNCHANGED <<m_acks, s_global_event_id, acked>>
  BY DEF ackVars
<1>2. s_global_event_id \in Nat
  BY BoundsAssumption DEF TypeOK
<1>3. \A id \in Emits : id >= s_global_event_id => m_acks[id] = 0
  BY DEF IdsOwned
<1>4. \A x \in Carried' : x \in Carried \/ x[2] = 0
  BY DEF Carried, Pair
<1>5. \A th \in Threads :
        pc'[th] = "id" =>
          p'[th].id = s_global_event_id' /\ th \in AckThreads
  BY <1>1 DEF IdsOwned
<1>6. AckIsOwn'
  BY <1>1 DEF IdsOwned, AckIsOwn
<1>7. /\ s_global_event_id' \in Nat /\ s_global_event_id <= s_global_event_id'
      /\ \A id \in Emits :
           /\ id < s_global_event_id => m_acks'[id] \in {0, m_acks[id]}
           /\ id >= s_global_event_id' => m_acks'[id] = 0
  BY <1>1, <1>2, <1>3
<1> QED BY <1>4, <1>5, <1>6, <1>7, OwnersStay

(* What is carried where.                                                  *)
LEMMA CarriedHere ==
  /\ \A th \in Threads : Pair(front_pack[th]) \in Carried
  /\ \A th \in Threads : pc[th] # "id" => Pair(p[th]) \in Carried
  /\ \A x \in PairsIn(m_packet_queue) \cup PairsTo(asio) \cup server.events :
       x \in Carried
BY DEF Carried

(* Nor takes anything up, or moves it.                                     *)
LEMMA NothingTaken ==
  ASSUME TypeOK, IdsOwned, UNCHANGED <<ackVars, sendVars>>,
         \A th \in Threads : pc'[th] = "id" <=> pc[th] = "id",
         m_packet_queue' \in {m_packet_queue, <<>>},
         \A x \in PairsTo(asio') \cup server'.events :
           x \in Carried \/ x[2] = 0
  PROVE  IdsOwned'
<1>1. PairsIn(<<>>) = {}
  BY DEF PairsIn
<1>2. \A x \in PairsIn(m_packet_queue') : x \in Carried
  BY <1>1, CarriedHere
<1>3. UNCHANGED <<p, front_pack>>
  BY DEF sendVars
<1>4. \A th \in Threads :
        /\ Pair(front_pack'[th]) \in Carried
        /\ pc'[th] # "id" => Pair(p'[th]) \in Carried
        /\ pc'[th] = "id" => pc[th] = "id" /\ p'[th] = p[th]
  BY <1>3, CarriedHere
<1> QED BY <1>2, <1>4, OwnedStays

(* Sequences of packets.                                                   *)
LEMMA AppendPairs ==
  ASSUME NEW S, NEW s \in Seq(S), NEW pkt \in S
  PROVE  PairsIn(Append(s, pkt)) = PairsIn(s) \cup {Pair(pkt)}
<1>1. /\ Len(s) \in Nat /\ DOMAIN s = 1..Len(s)
      /\ DOMAIN Append(s, pkt) = 1..(Len(s) + 1)
      /\ Append(s, pkt)[Len(s) + 1] = pkt
      /\ \A i \in 1..Len(s) : Append(s, pkt)[i] = s[i]
  OBVIOUS
<1> QED BY <1>1 DEF PairsIn

(* A tail carries nothing else.                                            *)
LEMMA TailPairs ==
  ASSUME NEW S, NEW s \in Seq(S), s # <<>>
  PROVE  PairsIn(Tail(s)) \subseteq PairsIn(s) /\ Pair(Head(s)) \in PairsIn(s)
<1>1. /\ Len(s) \in Nat \ {0} /\ DOMAIN s = 1..Len(s)
      /\ DOMAIN Tail(s) = 1..(Len(s) - 1) /\ Head(s) = s[1]
      /\ \A i \in 1..(Len(s) - 1) : Tail(s)[i] = s[i + 1]
  OBVIOUS
<1>2. 1 \in DOMAIN s /\ \A i \in DOMAIN Tail(s) : i + 1 \in DOMAIN s
  BY <1>1
<1> QED BY <1>1, <1>2 DEF PairsIn

(* Writing a packet out, the server notes at most its emit.                *)
LEMMA WriteOutEvents ==
  ASSUME TypeOK, NEW pkt \in Packets, WriteOut(pkt) \/ UNCHANGED server
  PROVE  server'.events \subseteq server.events \cup {Pair(pkt)}
<1>1. server \in [connects : Nat, joined : BOOLEAN,
                  events : SUBSET (Emits \X Emits)]
  BY DEF TypeOK
<1>2. CASE server' = server
  BY <1>2
<1>3. CASE server' = [server EXCEPT !.connects = server.connects + 1]
  BY <1>1, <1>3
<1>4. CASE server' = [server EXCEPT !.joined = FALSE]
  BY <1>1, <1>4
<1>5. CASE server' =
             [server EXCEPT !.events = server.events \cup {<<pkt.n, pkt.id>>}]
  BY <1>1, <1>5 DEF Pair
<1>6. \/ server' = server
      \/ server' = [server EXCEPT !.connects = server.connects + 1]
      \/ server' = [server EXCEPT !.joined = FALSE]
      \/ server' =
             [server EXCEPT !.events = server.events \cup {<<pkt.n, pkt.id>>}]
  BY DEF WriteOut
<1> QED BY <1>2, <1>3, <1>4, <1>5, <1>6

(* Sending a packet, the posted or the written one is what was carried.    *)
LEMMA SendCarries ==
  ASSUME TypeOK, NEW th \in Threads, NEW pkt \in Packets, NEW label \in PCs,
         SendOrCrash(th, pkt, label), Pair(pkt) \in Carried
  PROVE  \A x \in PairsTo(asio') \cup server'.events : x \in Carried
<1>1. asio \in Queues /\ Handler("send_impl", pkt) \in Handlers
  BY PacketFacts DEF TypeOK
<1>2. asio' = asio \/ asio' = Post(asio, "send_impl", pkt)
  BY DEF SendOrCrash, ClientSend
<1>3. Traffic(asio') \subseteq Traffic(asio) \cup {Handler("send_impl", pkt)}
  BY <1>1, <1>2, PostFacts
<1>4. Pair(Handler("send_impl", pkt).arg) = Pair(pkt)
  BY DEF Handler
<1>5. PairsTo(asio') \subseteq PairsTo(asio) \cup {Pair(pkt)}
  BY <1>3, <1>4 DEF PairsTo
<1>6. WriteOut(pkt) \/ UNCHANGED server
  BY DEF SendOrCrash, ClientSend
<1>7. server'.events \subseteq server.events \cup {Pair(pkt)}
  BY <1>6, WriteOutEvents
<1> QED BY <1>5, <1>7, CarriedHere

(* The callback is entered under the id that was read: as one thread asks, *)
(* the counter still has that value.                                       *)
LEMMA OwnedTakeId ==
  ASSUME TypeOK, TypeOK', IdsIssued, IdsOwned, AckThreads # Threads,
         NEW th \in Threads, TakeId(th)
  PROVE  IdsOwned'
<1>1. /\ pc[th] = "id" /\ pc' = [pc EXCEPT ![th] = "guard"]
      /\ s_global_event_id' = p[th].id + 1
      /\ m_acks' = [m_acks EXCEPT ![p[th].id] = p[th].n]
      /\ UNCHANGED <<acked, p, front_pack, m_packet_queue, asio, server>>
  BY DEF TakeId, At, Goto, NextId, socketVars, sendVars, peerVars
<1>2. p[th].id = s_global_event_id /\ th \in AckThreads
  BY <1>1 DEF IdsOwned
<1>3. s_global_event_id \in Nat /\ pc \in [Threads -> PCs]
  BY BoundsAssumption DEF TypeOK
<1>4. \A u \in Threads \ {th} : pc[u] # "id" /\ pc'[u] = pc[u]
  BY <1>1, <1>2, <1>3, AckThreadsAssumption DEF IdsOwned, Threads
<1>5. pc'[th] = "guard"
  BY <1>1, <1>3
<1>6. s_global_event_id \in Emits /\ m_acks \in [Emits -> 0..MaxEmits]
  BY <1>1, <1>2, BoundsAssumption DEF IdsIssued, TypeOK, Emits
<1>7. \A id \in Emits :
        m_acks'[id] = IF id = s_global_event_id THEN p[th].n ELSE m_acks[id]
  BY <1>1, <1>2, <1>6
<1>8. \A id \in Emits :
        /\ id < s_global_event_id => m_acks'[id] \in {0, m_acks[id]}
        /\ id >= s_global_event_id' => m_acks'[id] = 0
  <2>1. \A id \in Emits : id >= s_global_event_id => m_acks[id] = 0
    BY DEF IdsOwned
  <2>2. \A id \in Emits : id \in Nat
    BY DEF Emits
  <2> QED BY <1>1, <1>2, <1>3, <1>7, <2>1, <2>2
<1>9. \A u \in Threads :
        pc'[u] = "id" => p'[u].id = s_global_event_id' /\ u \in AckThreads
  BY <1>4, <1>5
<1>10. \A x \in Carried' :
         x \in Carried \/ x[2] = 0 \/ Owns(x[1], x[2])'
  <2>1. \A x \in Carried' : x \in Carried \/ x = Pair(p[th])
    BY <1>1, <1>4, <1>5 DEF Carried
  <2>2. s_global_event_id < s_global_event_id'
    BY <1>1, <1>2, <1>3
  <2>3. Pair(p[th]) = <<p[th].n, s_global_event_id>>
    BY <1>2 DEF Pair
  <2>4. m_acks'[s_global_event_id] = p[th].n
    BY <1>6, <1>7
  <2> QED BY <2>1, <2>2, <2>3, <2>4 DEF Owns
<1>11. AckIsOwn'
  BY <1>1 DEF IdsOwned, AckIsOwn
<1>12. s_global_event_id' \in Nat /\ s_global_event_id <= s_global_event_id'
  BY <1>1, <1>2, <1>3
<1> QED BY <1>8, <1>9, <1>10, <1>11, <1>12, OwnersStay

(* send_packet, whatever it sends, mixes up no ids.                        *)
LEMMA OwnedSend ==
  ASSUME TypeOK, TypeOK', IdsIssued, IdsOwned, AckThreads # Threads,
         NEW th \in Threads, SendPacket(th)
  PROVE  IdsOwned'
<1>0. pc \in [Threads -> PCs] /\ p[th] \in Packets /\ front_pack[th] \in Packets
  BY DEF TypeOK
<1>1. CASE TakeId(th)
  BY <1>1, OwnedTakeId
<1>2. CASE SendGuard(th) \/ SendCheck(th)
  BY <1>0, <1>2, ReturnFacts, CarriedHere, NothingTaken
     DEF SendGuard, SendCheck, At, Goto, socketVars, peerVars
<1>3. CASE Drain(th)
  <2>1. /\ UNCHANGED <<ackVars, p, asio, server>>
        /\ \A u \in Threads : pc'[u] = "id" <=> pc[u] = "id"
    BY <1>0, <1>3 DEF Drain, Pop, At, Goto, peerVars
  <2>2. CASE UNCHANGED <<m_packet_queue, front_pack>>
    BY <2>1, <2>2, CarriedHere, NothingTaken DEF sendVars
  <2>3. CASE m_packet_queue # <<>>
    <3>1. /\ front_pack' = [front_pack EXCEPT ![th] = Head(m_packet_queue)]
          /\ m_packet_queue' = Tail(m_packet_queue)
      BY <1>3, <2>3 DEF Drain, Pop
    <3>2. m_packet_queue \in Seq(Packets) /\ front_pack \in [Threads -> Packets]
      BY DEF TypeOK
    <3>3. /\ PairsIn(m_packet_queue') \subseteq PairsIn(m_packet_queue)
          /\ Pair(Head(m_packet_queue)) \in PairsIn(m_packet_queue)
      BY <2>3, <3>1, <3>2, TailPairs
    <3>4. \A u \in Threads :
            front_pack'[u] = front_pack[u] \/ front_pack'[u] = Head(m_packet_queue)
      BY <3>1, <3>2
    <3>5. \A u \in Threads : Pair(front_pack'[u]) \in Carried
      BY <3>3, <3>4, CarriedHere
    <3> QED BY <2>1, <3>3, <3>5, CarriedHere, OwnedStays
  <2> QED BY <1>3, <2>2, <2>3 DEF Drain, Pop
<1>4. CASE SendFront(th) \/ SendLast(th)
  <2>1. PICK pkt \in Packets, label \in PCs \ {"id"} :
          SendOrCrash(th, pkt, label) /\ Pair(pkt) \in Carried
    <3>1. CASE SendFront(th)
      <4>1. \/ SendOrCrash(th, front_pack[th], "drain")
            \/ SendOrCrash(th, front_pack[th], "open.drain")
        BY <3>1 DEF SendFront
      <4> QED BY <1>0, <4>1, CarriedHere DEF PCs, SendSteps
    <3>2. CASE SendLast(th)
      <4>1. SendOrCrash(th, p[th], Return(th)) /\ pc[th] = "send"
        BY <3>2 DEF SendLast, At
      <4> QED BY <1>0, <4>1, CarriedHere, ReturnFacts DEF PCs, SendSteps
    <3> QED BY <1>4, <3>1, <3>2
  <2>2. \A x \in PairsTo(asio') \cup server'.events : x \in Carried
    BY <2>1, SendCarries
  <2>3. UNCHANGED <<ackVars, sendVars, m_packet_queue>>
    BY <1>4 DEF SendFront, SendLast, SendUnchanged, socketVars
  <2>4. pc[th] # "id"
    BY <1>4 DEF SendFront, SendLast, At
  <2>5. \A u \in Threads : pc'[u] = "id" <=> pc[u] = "id"
    BY <1>0, <2>1, <2>4 DEF SendOrCrash, Goto
  <2> QED BY <2>2, <2>3, <2>5, NothingTaken
<1>5. CASE Push(th)
  <2>1. /\ UNCHANGED <<ackVars, sendVars, asio, server>>
        /\ m_packet_queue' = Append(m_packet_queue, p[th])
        /\ pc[th] = "push" /\ pc' = [pc EXCEPT ![th] = Return(th)]
    BY <1>5 DEF Push, At, Goto, peerVars
  <2>2. PairsIn(m_packet_queue') = PairsIn(m_packet_queue) \cup {Pair(p[th])}
    BY <1>0, <2>1, AppendPairs DEF TypeOK
  <2>3. \A u \in Threads : pc'[u] = "id" <=> pc[u] = "id"
    BY <1>0, <2>1, ReturnFacts
  <2>4. \A u \in Threads :
          /\ Pair(front_pack'[u]) \in Carried
          /\ pc'[u] # "id" => Pair(p'[u]) \in Carried
          /\ pc'[u] = "id" => pc[u] = "id" /\ p'[u] = p[u]
    BY <2>1, <2>3, CarriedHere DEF sendVars
  <2>5. \A x \in PairsIn(m_packet_queue') : x \in Carried
    BY <2>1, <2>2, CarriedHere
  <2> QED BY <2>1, <2>4, <2>5, CarriedHere, OwnedStays
<1> QED BY <1>1, <1>2, <1>3, <1>4, <1>5 DEF SendPacket

(* An emit reads the counter, or has no id.                                *)
LEMMA OwnedEmit ==
  ASSUME TypeOK, IdsOwned, NEW th \in Threads, pc[th] = "idle", Emit(th),
         UNCHANGED <<ackVars, front_pack, m_packet_queue, server>>,
         asio' = asio \/ KeepsReady(asio, asio')
  PROVE  IdsOwned'
<1>0. /\ pc \in [Threads -> PCs] /\ p \in [Threads -> Packets]
      /\ UNCHANGED <<m_acks, s_global_event_id, acked>>
      /\ s_global_event_id \in Nat
  BY BoundsAssumption DEF TypeOK, ackVars
<1>1. CASE UNCHANGED <<p, pc>>
  <2>1. Traffic(asio') \subseteq Traffic(asio)
    BY DEF KeepsReady
  <2>2. \A x \in PairsTo(asio') \cup server'.events : x \in Carried
    BY <2>1, CarriedHere DEF PairsTo
  <2> QED BY <1>1, <2>2, NothingTaken DEF sendVars
<1>2. CASE ~UNCHANGED <<p, pc>>
  <2> DEFINE pkt == Packet("event", emits + 1,
                      IF th \in AckThreads THEN s_global_event_id ELSE 0)
  <2>1. /\ p' = [p EXCEPT ![th] = pkt]
        /\ pc' = [pc EXCEPT ![th] = IF th \in AckThreads THEN "id" ELSE "guard"]
    BY <1>2 DEF Emit, Goto
  <2>2. pkt.id = IF th \in AckThreads THEN s_global_event_id ELSE 0
    BY DEF Packet
  <2> HIDE DEF pkt
  <2>3. \A u \in Threads \ {th} : p'[u] = p[u] /\ pc'[u] = pc[u]
    BY <1>0, <2>1
  <2>4. \A u \in Threads :
          pc'[u] = "id" =>
            p'[u].id = s_global_event_id' /\ u \in AckThreads
    <3>1. p'[th] = pkt /\ (pc'[th] = "id" => th \in AckThreads)
      BY <1>0, <2>1
    <3> QED BY <1>0, <2>2, <2>3, <3>1 DEF IdsOwned
  <2>5. Traffic(asio') \subseteq Traffic(asio)
    BY DEF KeepsReady
  <2>6. \A x \in Carried' : x \in Carried \/ x[2] = 0
    <3>1. p'[th] = pkt
      BY <1>0, <2>1
    <3>2. pc'[th] # "id" => Pair(p'[th])[2] = 0
      BY <1>0, <2>1, <2>2, <3>1 DEF Pair
    <3>3. \A u \in Threads : pc'[u] # "id" =>
            Pair(p'[u]) \in Carried \/ Pair(p'[u])[2] = 0
      BY <2>3, <3>2, CarriedHere
    <3>4. \A x \in PairsTo(asio') : x \in PairsTo(asio)
      BY <2>5 DEF PairsTo
    <3> QED BY <3>3, <3>4, CarriedHere DEF Carried
  <2>7. \A id \in Emits :
          /\ id < s_global_event_id => m_acks'[id] \in {0, m_acks[id]}
          /\ id >= s_global_event_id' => m_acks'[id] = 0
    BY <1>0 DEF IdsOwned
  <2>8. AckIsOwn'
    BY <1>0 DEF IdsOwned, AckIsOwn
  <2>9. s_global_event_id' \in Nat /\ s_global_event_id <= s_global_event_id'
    BY <1>0
  <2> QED BY <2>4, <2>6, <2>7, <2>8, <2>9, OwnersStay
<1> QED BY <1>1, <1>2

(* The user's other calls: a connect is posted, a disconnect is to be sent.*)
LEMMA OwnedUser ==
  ASSUME TypeOK, TypeOK', IdsIssued, IdsOwned, AckThreads # Threads,
         UserStart \/ UserStep
  PROVE  IdsOwned'
<1>0. /\ pc \in [Threads -> PCs] /\ p \in [Threads -> Packets]
      /\ "user" \in Threads /\ asio \in Queues
  BY DEF TypeOK, Threads
<1>1. CASE UserEmit
  <2>1. /\ Emit("user") /\ pc["user"] = "idle"
        /\ UNCHANGED <<ackVars, front_pack, m_packet_queue, server, asio>>
    BY <1>1 DEF UserEmit, At, socketVars, peerVars
  <2> QED BY <1>0, <2>1, OwnedEmit
<1>2. CASE SendPacket("user")
  BY <1>0, <1>2, OwnedSend
<1>3. ASSUME UNCHANGED <<ackVars, sendVars, m_packet_queue, server>>,
             asio' = asio \/ \A x \in PairsTo(asio') : x \in Carried \/ x[2] = 0,
             pc' = pc \/ \E label \in PCs \ {"id"} : Goto("user", label),
             pc["user"] # "id"
      PROVE  IdsOwned'
  <2>1. \A th \in Threads : pc'[th] = "id" <=> pc[th] = "id"
    BY <1>0, <1>3 DEF Goto
  <2> QED BY <1>3, <2>1, CarriedHere, NothingTaken
<1>4. {"idle", "new.insert", "new.connect", "close.check"} \subseteq PCs \ {"id"}
  BY DEF PCs, SendSteps
<1>5. CASE NewSocket \/ NewInsert
  BY <1>3, <1>4, <1>5 DEF NewSocket, NewInsert, At, socketVars, peerVars
<1>6. ASSUME NEW call \in UserCalls, UserClose(call) PROVE IdsOwned'
  BY <1>3, <1>4, <1>6 DEF UserClose, At, socketVars, peerVars
<1>7. CASE NewConnect
  <2> DEFINE q == Post(asio, "send_impl", Connect)
  <2>1. Handler("send_impl", Connect) \in Handlers
    BY PacketFacts
  <2>2. /\ q \in Queues
        /\ Traffic(q) \subseteq
             Traffic(asio) \cup {Handler("send_impl", Connect)}
    BY <1>0, <2>1, PostFacts
  <2> HIDE DEF q
  <2>3. Traffic(AwaitConnect(q)) \subseteq Traffic(q)
    BY <2>2, AwaitConnectFacts DEF KeepsReady
  <2>4. asio' = AwaitConnect(q)
    BY <1>7 DEF NewConnect, q
  <2>5. Pair(Handler("send_impl", Connect).arg)[2] = 0
    BY DEF Pair, Handler, Connect, Packet
  <2>6. \A x \in PairsTo(asio') : x \in PairsTo(asio) \/ x[2] = 0
    BY <2>2, <2>3, <2>4, <2>5 DEF PairsTo
  <2> QED
    BY <1>3, <1>4, <1>7, <2>6, CarriedHere
       DEF NewConnect, At, socketVars, peerVars
<1>8. CASE CloseCheck
  <2>1. /\ UNCHANGED <<ackVars, front_pack, m_packet_queue, asio, server>>
        /\ \A th \in Threads \ {"user"} : UNCHANGED <<pc[th], p[th]>>
        /\ pc["user"] # "id" /\ pc'["user"] # "id"
        /\ p'["user"] \in {p["user"], Disconnect}
    BY <1>0, <1>8 DEF CloseCheck, At, Goto, socketVars, peerVars
  <2>2. \A th \in Threads :
          /\ pc'[th] = "id" => pc[th] = "id" /\ p'[th] = p[th]
          /\ Pair(front_pack'[th]) \in Carried
          /\ pc'[th] # "id" => Pair(p'[th]) \in Carried \/ p'[th].id = 0
    BY <2>1, PacketFacts, CarriedHere
  <2> QED BY <2>1, <2>2, CarriedHere, OwnedStays
<1>9. CASE CloseTimer
  <2>1. asio' = asio \/ Traffic(asio') \subseteq Traffic(asio)
    BY <1>0, <1>9, CloseWaitFacts DEF CloseTimer, KeepsReady
  <2>2. \A x \in PairsTo(asio') : x \in Carried
    BY <2>1, CarriedHere DEF PairsTo
  <2> QED
    BY <1>3, <1>4, <1>9, <2>2 DEF CloseTimer, At, socketVars, peerVars
<1> QED
  BY <1>1, <1>2, <1>5, <1>6, <1>7, <1>8, <1>9 DEF UserStart, UserStep

(* An answer finds the callback of the emit it answers, or none.           *)
LEMMA OwnedAck ==
  ASSUME TypeOK, IdsOwned, OnAck
  PROVE  IdsOwned'
<1>1. /\ asio.ready # <<>> /\ Arg \in Messages /\ Arg.type = "ack"
      /\ Head(asio.ready).op = "on_message" /\ Arg = Head(asio.ready).arg
      /\ asio' = PopReady(asio)
      /\ UNCHANGED <<s_global_event_id, pc, sendVars, m_packet_queue, server>>
  BY DEF OnAck, Receives, Runs, Popped, socketVars, peerVars, Arg
<1>2. /\ asio \in Queues /\ m_acks \in [Emits -> 0..MaxEmits]
      /\ s_global_event_id \in Nat
  BY BoundsAssumption DEF TypeOK
<1>3. KeepsReady(asio, asio') /\ Head(asio.ready) \in Traffic(asio)
  BY <1>1, <1>2, PopFacts
<1>4. Arg.id \in Emits /\ Arg.id # 0
  BY <1>1, BoundsAssumption
     DEF Messages, Connect, Disconnect, Packet, Emits
<1>5. Owns(Arg.n, Arg.id)
  BY <1>1, <1>3 DEF IdsOwned
<1>6. m_acks[Arg.id] \in {0, Arg.n}
  BY <1>4, <1>5 DEF Owns
<1>7. AckIsOwn'
  <2>1. acked' = acked \/ acked' = acked \cup {<<Arg.n, Arg.n>>}
    BY <1>6 DEF OnAck
  <2> QED BY <2>1 DEF IdsOwned, AckIsOwn
<1>8. \A id \in Emits : m_acks'[id] \in {0, m_acks[id]}
  <2>1. m_acks' = m_acks \/ m_acks' = [m_acks EXCEPT ![Arg.id] = 0]
    BY DEF OnAck
  <2> QED BY <1>2, <2>1
<1>9. \A id \in Emits :
        /\ id < s_global_event_id => m_acks'[id] \in {0, m_acks[id]}
        /\ id >= s_global_event_id' => m_acks'[id] = 0
  BY <1>1, <1>8 DEF IdsOwned
<1>10. \A x \in Carried' : x \in Carried
  <2>1. \A x \in PairsTo(asio') : x \in PairsTo(asio)
    BY <1>3 DEF KeepsReady, PairsTo
  <2> QED BY <1>1, <2>1 DEF Carried, sendVars
<1>11. \A th \in Threads :
         pc'[th] = "id" =>
           p'[th].id = s_global_event_id' /\ th \in AckThreads
  BY <1>1 DEF IdsOwned, sendVars
<1>12. s_global_event_id' \in Nat /\ s_global_event_id <= s_global_event_id'
  BY <1>1, <1>2
<1> QED BY <1>7, <1>9, <1>10, <1>11, <1>12, OwnersStay

(* The network thread mixes up no ids.                                     *)
LEMMA OwnedNet ==
  ASSUME TypeOK, TypeOK', IdsIssued, IdsOwned, AckThreads # Threads, NetStep
  PROVE  IdsOwned'
<1>0. pc \in [Threads -> PCs] /\ "net" \in Threads /\ asio \in Queues
  BY DEF TypeOK, Threads
<1>1. CASE SendPacket("net")
  BY <1>0, <1>1, OwnedSend
<1>2. CASE OnAck
  BY <1>2, OwnedAck
<1>3. CASE OnEvent
  <2>1. /\ asio' = PopReady(asio) /\ asio.ready # <<>>
        /\ Head(asio.ready).op # "send_impl"
        /\ pc["net"] = "idle"
        /\ UNCHANGED <<ackVars, front_pack, m_packet_queue, server>>
    BY <1>3 DEF OnEvent, Receives, Runs, Popped, At, socketVars, peerVars
  <2>2. KeepsReady(asio, asio')
    BY <2>1, PopKeeps
  <2>3. CASE Emit("net")
    BY <1>0, <2>1, <2>2, <2>3, OwnedEmit
  <2>4. CASE UNCHANGED <<emits, p, pc>>
    <3>1. \A x \in PairsTo(asio') \cup server'.events : x \in Carried
      BY <2>1, <2>2, CarriedHere DEF KeepsReady, PairsTo
    <3> QED BY <2>1, <2>4, <3>1, NothingTaken DEF sendVars
  <2> QED BY <1>3, <2>3, <2>4 DEF OnEvent
<1>4. CASE SendImpl
  <2>1. /\ asio.ready # <<>> /\ Arg \in Packets /\ Arg = Head(asio.ready).arg
        /\ Head(asio.ready).op = "send_impl"
        /\ asio' = PopReady(asio) /\ WriteOut(Arg)
        /\ UNCHANGED <<ackVars, sendVars, m_packet_queue, pc>>
    BY <1>4 DEF SendImpl, Runs, Popped, socketVars, Arg
  <2>2. /\ Traffic(asio') \subseteq Traffic(asio)
        /\ Head(asio.ready) \in Traffic(asio)
    BY <1>0, <2>1, PopFacts
  <2>3. Pair(Arg) \in PairsTo(asio) /\ PairsTo(asio') \subseteq PairsTo(asio)
    BY <2>1, <2>2 DEF PairsTo
  <2>4. server'.events \subseteq server.events \cup {Pair(Arg)}
    BY <2>1, WriteOutEvents
  <2>5. \A x \in PairsTo(asio') \cup server'.events : x \in Carried
    BY <2>3, <2>4, CarriedHere
  <2> QED BY <2>1, <2>5, NothingTaken
<1>5. ASSUME UNCHANGED <<ackVars, sendVars>>,
             m_packet_queue' \in {m_packet_queue, <<>>},
             asio' = asio \/ KeepsReady(asio, asio'),
             server' = server \/ server'.events = {}
               \/ server'.events \subseteq server.events \cup {Pair(Connect)},
             pc["net"] # "id",
             pc' = pc \/ \E label \in PCs \ {"id"} : Goto("net", label)
      PROVE  IdsOwned'
  <2>1. \A th \in Threads : pc'[th] = "id" <=> pc[th] = "id"
    BY <1>0, <1>5 DEF Goto
  <2>2. Pair(Connect)[2] = 0
    BY DEF Pair, Connect, Packet
  <2>3. PairsTo(asio') \subseteq PairsTo(asio)
    BY <1>5 DEF KeepsReady, PairsTo
  <2>4. \A x \in PairsTo(asio') \cup server'.events : x \in Carried \/ x[2] = 0
    BY <1>5, <2>2, <2>3, CarriedHere
  <2> QED BY <1>5, <2>1, <2>4, NothingTaken
<1>6. {"idle", "invoke.on_open", "invoke.on_disconnect", "clear", "open.drain",
       "close.null", "close.reset", "close.rest"} \subseteq PCs \ {"id"}
  BY DEF PCs, SendSteps
<1>7. CASE OnOpen \/ OnDisconnect
  <2>1. KeepsReady(asio, asio')
    BY <1>7, PopKeeps DEF OnOpen, OnDisconnect, Runs, Popped
  <2>2. server'.events = {}
    BY <1>7 DEF OnOpen, OnDisconnect, NewServer
  <2>3. \/ Goto("net", "invoke.on_open") \/ Goto("net", "invoke.on_disconnect")
    BY <1>7 DEF OnOpen, OnDisconnect
  <2>4. /\ UNCHANGED <<ackVars, sendVars, m_packet_queue>>
        /\ pc["net"] # "id"
    BY <1>7 DEF OnOpen, OnDisconnect, Runs, At, socketVars
  <2> QED BY <1>5, <1>6, <2>1, <2>2, <2>3, <2>4
<1>8. CASE InvokeOnOpen
  <2>1. asio' = asio \/ KeepsReady(asio, asio')
    BY <1>0, <1>8, AwaitConnectFacts DEF InvokeOnOpen, SendConnect
  <2>2. WriteOut(Connect) \/ UNCHANGED server
    BY <1>8 DEF InvokeOnOpen, SendConnect
  <2>3. server'.events \subseteq server.events \cup {Pair(Connect)}
    BY <2>2, PacketFacts, WriteOutEvents
  <2> QED
    BY <1>5, <1>6, <1>8, <2>1, <2>3 DEF InvokeOnOpen, At
<1>9. CASE Ignored \/ OnDisconnectPacket \/ WaitAborted \/ OnCloseWait
  <2>1. KeepsReady(asio, asio')
    BY <1>9, PopKeeps
       DEF Ignored, OnDisconnectPacket, WaitAborted, OnCloseWait, Receives,
           Runs, Popped
  <2>2. /\ UNCHANGED <<ackVars, sendVars, m_packet_queue, server>>
        /\ pc["net"] # "id"
        /\ pc' = pc \/ Goto("net", "close.null")
    BY <1>9
       DEF Ignored, OnDisconnectPacket, WaitAborted, OnCloseWait, Receives,
           Runs, At, socketVars, peerVars
  <2> QED BY <1>5, <1>6, <2>1, <2>2
<1>10. CASE OnConnected \/ TimeoutConnection
  <2>1. KeepsReady(asio, asio')
    BY <1>10, PopResetKeeps
       DEF OnConnected, TimeoutConnection, Receives, Runs
  <2>2. /\ UNCHANGED <<ackVars, sendVars, m_packet_queue, server>>
        /\ pc["net"] # "id"
        /\ \/ Goto("net", "idle") \/ Goto("net", "open.drain")
           \/ Goto("net", "close.null")
    BY <1>10
       DEF OnConnected, TimeoutConnection, DrainIfNew, Receives, Runs, At,
           socketVars, peerVars
  <2> QED BY <1>5, <1>6, <2>1, <2>2
<1>11. CASE InvokeOnDisconnect \/ ClearQueue \/ CloseNull \/ CloseReset
            \/ CloseRest
  <2>1. asio' = asio \/ KeepsReady(asio, asio')
    BY <1>0, <1>11, ResetTimerFacts
       DEF InvokeOnDisconnect, ClearQueue, CloseNull, CloseReset, CloseRest
  <2>2. /\ UNCHANGED <<ackVars, sendVars, server>>
        /\ m_packet_queue' \in {m_packet_queue, <<>>}
        /\ pc["net"] # "id"
        /\ \/ Goto("net", "idle") \/ Goto("net", "clear")
           \/ Goto("net", "close.reset") \/ Goto("net", "close.rest")
    BY <1>11
       DEF InvokeOnDisconnect, ClearQueue, CloseNull, CloseReset, CloseRest,
           At, peerVars
  <2> QED BY <1>5, <1>6, <2>1, <2>2
<1> QED
  BY <1>1, <1>2, <1>3, <1>4, <1>7, <1>8, <1>9, <1>10, <1>11
     DEF NetStep, OnMessage

(* The server's answer carries the id it was sent.                         *)
LEMMA OwnedSurroundings ==
  ASSUME TypeOK, IdsOwned, Surroundings
  PROVE  IdsOwned'
<1>0. /\ asio \in Queues
      /\ server \in [connects : Nat, joined : BOOLEAN,
                     events : SUBSET (Emits \X Emits)]
  BY DEF TypeOK
<1>1. /\ UNCHANGED <<ackVars, sendVars, m_packet_queue>>
      /\ \A th \in Threads : pc'[th] = "id" <=> pc[th] = "id"
  BY SurroundingsKeep DEF socketVars
<1>2. ASSUME server'.events \subseteq server.events,
             \A h \in Traffic(asio') \ Traffic(asio) :
               Pair(h.arg) \in Carried \/ h.arg.id = 0
      PROVE  IdsOwned'
  <2>1. \A x \in PairsTo(asio') : x \in Carried \/ x[2] = 0
    BY <1>2, CarriedHere DEF PairsTo, Pair
  <2> QED BY <1>1, <1>2, <2>1, CarriedHere, NothingTaken
<1>3. CASE \E t \in Timers : TimerExpires(t)
  <2>1. Traffic(asio') \subseteq Traffic(asio)
    BY <1>0, <1>3, ExpireFacts DEF TimerExpires, Queued, KeepsReady
  <2> QED BY <1>2, <1>3, <2>1 DEF TimerExpires, peerVars
<1>4. CASE SessionOpens \/ SessionEnds
  <2>1. /\ Handler("on_open", "-") \in Handlers
        /\ Handler("on_disconnect", "-") \in Handlers
    BY DEF Handler, Handlers
  <2>2. Traffic(asio') \subseteq Traffic(asio)
    BY <1>0, <1>4, <2>1, PostFacts
       DEF SessionOpens, SessionEnds, Queued, KeepsReady
  <2> QED BY <1>2, <1>4, <2>2 DEF SessionOpens, SessionEnds
<1>5. ASSUME NEW msg \in Messages, ServerSends(msg)
      PROVE  \A h \in Traffic(asio') \ Traffic(asio) : h.arg = msg
  <2>1. Handler("on_message", msg) \in Handlers
    BY DEF Handler, Handlers
  <2>2. asio' = Post(asio, "on_message", msg)
    BY <1>5 DEF ServerSends, Queued
  <2>3. Traffic(asio') \subseteq Traffic(asio) \cup {Handler("on_message", msg)}
    BY <1>0, <2>1, <2>2, PostFacts
  <2> QED BY <2>3 DEF Handler
<1>6. CASE ServerConnects \/ ServerEmits \/ ServerDisconnects
  <2>1. PICK msg \in {Connect, Disconnect, Packet("event", 0, 0)} :
          ServerSends(msg)
    BY <1>6 DEF ServerConnects, ServerEmits, ServerDisconnects
  <2>2. msg \in Messages /\ msg.id = 0
    BY DEF Messages, Connect, Disconnect, Packet
  <2>3. server'.events = server.events
    BY <1>0, <1>6 DEF ServerConnects, ServerEmits, ServerDisconnects
  <2> QED BY <1>2, <1>5, <2>1, <2>2, <2>3
<1>7. CASE ServerAcks
  <2>1. PICK e \in server.events :
          /\ ServerSends(Packet("ack", e[1], e[2]))
          /\ server' = [server EXCEPT !.events = server.events \ {e}]
    BY <1>7 DEF ServerAcks
  <2> DEFINE msg == Packet("ack", e[1], e[2])
  <2>2. msg \in Messages /\ Pair(msg) = e
    BY <1>0 DEF Messages, Packet, Pair
  <2> HIDE DEF msg
  <2>3. ServerSends(msg)
    BY <2>1 DEF msg
  <2>4. server'.events \subseteq server.events
    BY <1>0, <2>1
  <2> QED BY <1>2, <1>5, <2>2, <2>3, <2>4, CarriedHere
<1> QED BY <1>3, <1>4, <1>6, <1>7 DEF Surroundings

(* No step mixes up the ids.                                               *)
LEMMA OwnedStep ==
  ASSUME TypeOK, TypeOK', IdsIssued, IdsOwned, AckThreads # Threads,
         [Next]_vars
  PROVE  IdsOwned'
<1>1. CASE UserStart \/ UserStep
  BY <1>1, OwnedUser
<1>2. CASE NetStep
  BY <1>2, OwnedNet
<1>3. CASE Surroundings
  BY <1>3, OwnedSurroundings
<1>4. CASE UNCHANGED vars
  BY <1>4, CarriedHere, NothingTaken
     DEF vars, ackVars, sendVars, socketVars, peerVars
<1> QED BY <1>1, <1>2, <1>3, <1>4 DEF Next

-----------------------------------------------------------------------------
(* The namespace is asked for in time.                                     *)

(* Whatever was sent on the namespace comes after a CONNECT of its session.*)
AllAsked ==
  \A j \in Written("event") \cup Written("disconnect") :
    \E i \in Written("connect") : InSession(i, j)

(* r keeps q's handlers in line, and more is under way in it only if it is *)
(* a packet.                                                               *)
KeepsOrder(q, r) ==
  /\ \A ses \in Sessions : InLine(q, ses) => InLine(r, ses)
  /\ ConnectAhead(q) => ConnectAhead(r)
  /\ \A h \in Traffic(r) \ Traffic(q) : h.op = "send_impl"

(* What keeps the handlers keeps their order.                              *)
LEMMA ReadyInOrder ==
  ASSUME NEW q, NEW r, KeepsReady(q, r)
  PROVE  KeepsOrder(q, r) /\ Traffic(r) \subseteq Traffic(q)
BY DEF KeepsReady, KeepsOrder

(* A packet posted keeps the order.                                        *)
LEMMA PacketInOrder ==
  ASSUME NEW q \in Queues, NEW pkt \in Packets
  PROVE  /\ KeepsOrder(q, Post(q, "send_impl", pkt))
         /\ Post(q, "send_impl", pkt) \in Queues
         /\ Traffic(Post(q, "send_impl", pkt)) \subseteq
              Traffic(q) \cup {Handler("send_impl", pkt)}
<1>1. Handler("send_impl", pkt) \in Handlers
  BY PacketFacts
<1>2. "send_impl" \notin SessionHandlers
  BY DEF SessionHandlers
<1>3. Handler("send_impl", pkt).op = "send_impl"
  BY DEF Handler
<1> QED BY <1>1, <1>2, <1>3, PostFacts DEF KeepsOrder

(* The handlers of a session, in the order it posts them.                  *)
LEMMA SessionInLine ==
  ASSUME NEW q \in Queues, NEW op, NEW arg, Handler(op, arg) \in Handlers,
         NEW ses \in Sessions, InLine(q, ses)
  PROVE  LET r == Post(q, op, arg)
         IN  /\ op = "on_open" /\ ses = "none" => InLine(r, "opening")
             /\ op = "on_message" /\ ses = "up" => InLine(r, "up")
             /\ op = "on_disconnect" /\ ses = "up" => InLine(r, "ending")
<1> DEFINE r == Post(q, op, arg)
           h == Handler(op, arg)
           n == Len(q.ready)
<1>1. q.ready \in Seq(Handlers) /\ r.ready = Append(q.ready, h)
  BY PostFacts DEF Queues
<1>2. /\ n \in Nat /\ DOMAIN q.ready = 1..n /\ DOMAIN r.ready = 1..(n + 1)
      /\ r.ready[n + 1] = h
      /\ \A i \in 1..n : r.ready[i] = q.ready[i] /\ i <= n + 1 /\ i # n + 1
      /\ \A i \in 1..(n + 1) : i = n + 1 \/ i \in 1..n
      /\ n + 1 <= n + 1
  BY <1>1
<1>3. h.op = op
  BY DEF h, Handler
<1> HIDE DEF r, h, n
<1>4. ASSUME op = "on_open", ses = "none" PROVE InLine(r, "opening")
  <2>1. \A i \in 1..n : q.ready[i].op \notin SessionHandlers
    BY <1>2, <1>4 DEF InLine, SessionHandlers
  <2> QED BY <1>2, <1>3, <1>4, <2>1 DEF InLine, SessionHandlers
<1>5. ASSUME ses = "up"
      PROVE  \A i \in 1..n : q.ready[i].op \notin {"on_open", "on_disconnect"}
  BY <1>2, <1>5 DEF InLine
<1>6. ASSUME op = "on_message", ses = "up" PROVE InLine(r, "up")
  BY <1>2, <1>3, <1>5, <1>6 DEF InLine
<1>7. ASSUME op = "on_disconnect", ses = "up" PROVE InLine(r, "ending")
  <2>1. \A i \in 1..(n + 1) :
          r.ready[i].op # "on_open" /\ (r.ready[i].op = "on_disconnect" => i = n + 1)
    BY <1>2, <1>3, <1>5, <1>7
  <2>2. \A i \in 1..(n + 1) : i <= n + 1
    BY <1>2
  <2> QED BY <1>2, <2>1, <2>2 DEF InLine
<1> QED BY <1>4, <1>6, <1>7 DEF r

(* One more packet, or a new session, in what was written.                 *)
LEMMA WireGrows ==
  ASSUME TypeOK, NEW pkt \in Packets \cup {Packet("session", 0, 0)},
         wire' = Append(wire, pkt)
  PROVE  /\ pkt.type = "connect" => Asked'
         /\ pkt.type # "session" /\ Asked => Asked'
         /\ AllAsked /\ (pkt.type \in {"event", "disconnect"} => Asked) =>
              AllAsked'
<1> DEFINE S == Packets \cup {Packet("session", 0, 0)}
<1>1. wire \in Seq(S) /\ pkt \in S
  BY DEF TypeOK
<1> HIDE DEF S
<1>2. PICK n \in Nat : /\ DOMAIN wire = 1..n /\ DOMAIN wire' = 1..(n + 1)
                       /\ wire'[n + 1] = pkt
                       /\ \A i \in 1..n : wire'[i] = wire[i]
  <2>1. Len(wire) \in Nat
    BY <1>1
  <2> QED BY <1>1, <2>1
<1>3. \A i \in 1..(n + 1) : i \in Nat /\ (i = n + 1 \/ i \in 1..n)
  BY <1>2
<1>4. ASSUME NEW type
      PROVE  /\ Written(type) \subseteq Written(type)'
             /\ Written(type)' \subseteq Written(type) \cup {n + 1}
             /\ n + 1 \in Written(type)' <=> pkt.type = type
             /\ Written(type) \subseteq 1..n
  BY <1>2, <1>3 DEF Written
<1>5. ASSUME pkt.type = "connect" PROVE Asked'
  <2>1. n + 1 \in Written("connect")'
    BY <1>4, <1>5
  <2>2. \A j \in Written("session")' : j < n + 1
    <3>1. Written("session")' \subseteq 1..n
      BY <1>4, <1>5
    <3> QED BY <1>2, <3>1
  <2> QED BY <2>1, <2>2 DEF Asked, InNewestSession
<1>6. ASSUME pkt.type # "session", Asked PROVE Asked'
  <2>1. PICK i \in Written("connect") : \A j \in Written("session") : j < i
    BY <1>6 DEF Asked, InNewestSession
  <2>2. i \in Written("connect")' /\ Written("session")' \subseteq Written("session")
    BY <1>4, <1>6
  <2> QED BY <2>1, <2>2 DEF Asked, InNewestSession
<1>7. ASSUME NEW i \in 1..n, NEW j \in 1..n, InSession(i, j)
      PROVE  InSession(i, j)'
  <2>1. \A k \in i..j : k \in 1..n
    BY <1>2
  <2> QED BY <1>2, <1>7, <2>1 DEF InSession, SessionStart
<1>8. ASSUME Asked, pkt.type \in {"event", "disconnect"}
      PROVE  \E i \in Written("connect")' : InSession(i, n + 1)'
  <2>1. PICK i \in Written("connect") : \A j \in Written("session") : j < i
    BY <1>8 DEF Asked, InNewestSession
  <2>2. i \in 1..n /\ i \in Written("connect")'
    BY <1>4
  <2>3. ASSUME NEW k \in i..(n + 1) PROVE ~SessionStart(k)'
    <3>1. k \in 1..(n + 1) /\ ~(k < i)
      BY <1>2, <2>2
    <3>2. CASE k = n + 1
      BY <1>2, <1>8, <3>2 DEF SessionStart
    <3>3. CASE k \in 1..n
      <4>1. wire[k].type # "session"
        BY <1>2, <2>1, <3>1, <3>3 DEF Written
      <4> QED BY <1>2, <3>3, <4>1 DEF SessionStart
    <3> QED BY <1>3, <3>1, <3>2, <3>3
  <2>4. i < n + 1
    BY <1>2, <2>2
  <2> QED BY <2>2, <2>3, <2>4 DEF InSession
<1>9. ASSUME AllAsked, pkt.type \in {"event", "disconnect"} => Asked
      PROVE  AllAsked'
  <2> DEFINE Late == Written("event") \cup Written("disconnect")
  <2>1. Late \subseteq 1..n
    BY <1>4
  <2>2. ASSUME NEW j \in Late
        PROVE  \E i \in Written("connect")' : InSession(i, j)'
    <3>1. PICK i \in Written("connect") : InSession(i, j)
      BY <1>9 DEF AllAsked
    <3>2. i \in 1..n /\ j \in 1..n /\ i \in Written("connect")'
      BY <1>4, <2>1
    <3> QED BY <1>7, <3>1, <3>2
  <2>3. \A j \in Late' : j \in Late \/ (j = n + 1 /\ pkt.type \in {"event", "disconnect"})
    BY <1>4
  <2>4. \A j \in Late' : \E i \in Written("connect")' : InSession(i, j)'
    BY <1>8, <1>9, <2>2, <2>3
  <2> QED BY <2>4 DEF AllAsked
<1> QED BY <1>5, <1>6, <1>9

(* What was not written changes nothing of it.                             *)
LEMMA WireStays ==
  ASSUME wire' = wire
  PROVE  /\ Asked => Asked'
         /\ AllAsked => AllAsked'
<1>1. \A type : Written(type)' = Written(type)
  BY DEF Written
<1>2. \A i, j : InSession(i, j)' <=> InSession(i, j)
  BY DEF InSession, SessionStart
<1> QED BY <1>1, <1>2 DEF Asked, AllAsked, InNewestSession

(* What the network thread writes is asked for, and so is what follows.    *)
LEMMA WriteOutAsks ==
  ASSUME TypeOK, NEW pkt \in Packets, WriteOut(pkt)
  PROVE  /\ Asked => Asked'
         /\ pkt = Connect /\ m_con_state = "opened" /\ session = "up" => Asked'
         /\ AllAsked
              /\ (m_con_state = "opened" /\ session = "up" /\ pkt # Connect =>
                    Asked)
              => AllAsked'
         /\ server'.joined => server.joined
         /\ server'.connects > 0 => server.connects > 0 \/ Asked'
<1>1. server \in [connects : Nat, joined : BOOLEAN,
                  events : SUBSET (Emits \X Emits)]
  BY DEF TypeOK
<1>2. /\ pkt.type # "session"
      /\ pkt.type \in {"event", "disconnect"} => pkt # Connect
      /\ Connect.type = "connect"
  BY DEF Packets, Connect, Disconnect, Packet
<1>3. CASE m_con_state = "opened" /\ session = "up"
  <2>1. wire' = Append(wire, pkt)
    BY <1>3 DEF WriteOut
  <2>2. /\ pkt.type = "connect" => Asked'
        /\ pkt.type # "session" /\ Asked => Asked'
        /\ AllAsked /\ (pkt.type \in {"event", "disconnect"} => Asked) =>
             AllAsked'
    BY <2>1, WireGrows
  <2>3. CASE pkt.type = "connect"
    BY <1>1, <1>2, <1>3, <2>2, <2>3 DEF WriteOut
  <2>4. CASE pkt.type # "connect"
    <3>1. \/ server' = server
          \/ server' = [server EXCEPT !.joined = FALSE]
          \/ server' = [server EXCEPT !.events =
                          server.events \cup {<<pkt.n, pkt.id>>}]
      BY <1>3, <2>4 DEF WriteOut
    <3>2. /\ server'.joined => server.joined
          /\ server'.connects > 0 => server.connects > 0
      BY <1>1, <3>1
    <3>3. pkt # Connect
      BY <1>2, <2>4
    <3>4. Asked => Asked'
      BY <1>2, <2>2
    <3>5. AllAsked /\ Asked => AllAsked'
      BY <2>2
    <3> QED BY <1>3, <3>2, <3>3, <3>4, <3>5
  <2> QED BY <2>3, <2>4
<1>4. CASE ~(m_con_state = "opened" /\ session = "up")
  <2>1. wire' = wire /\ server' = server
    BY <1>4 DEF WriteOut
  <2> QED BY <1>4, <2>1, WireStays
<1> QED BY <1>3, <1>4

(* A socket that is there has its client, after a step that moves neither  *)
(* it nor the network thread out of on_close.                              *)
LEMMA AliveStays ==
  ASSUME Alive, UNCHANGED <<m_client, m_sockets, closes>>,
         SocketMutexFree' <=> SocketMutexFree,
         pc["net"] \in {"close.reset", "close.rest"} =>
           pc'["net"] \in {"close.reset", "close.rest"}
  PROVE  Alive'
BY DEF Alive

(* As long as there is no socket, nothing is sent.                         *)
LEMMA UnbornStays ==
  ASSUME Unborn, UNCHANGED <<m_sockets, closes>>,
         closes = 0 /\ ~m_sockets =>
           /\ pc'["user"] \in {"idle", "new.connect", "new.insert"}
           /\ pc'["net"] \notin SendsNet
           /\ m_packet_queue' = <<>>
           /\ \A h \in Traffic(asio') \ Traffic(asio) :
                h.op = "send_impl" => h.arg = Connect
  PROVE  Unborn'
BY DEF Unborn

(* What was asked for, or soon would be, still is or will be.              *)
LEMMA AskedSoonStays ==
  ASSUME AskedSoon, closes' = 0 => closes = 0,
         session' = "up" => session = "up",
         m_con_state' = "opened" => m_con_state = "opened",
         Asked => Asked',
         closes = 0 /\ session = "up" /\ m_con_state = "opened" =>
           /\ ConnectAhead(asio) => ConnectAhead(asio') \/ Asked'
           /\ pc["net"] = "invoke.on_open" => pc'["net"] = "invoke.on_open"
           /\ ~m_sockets /\ pc["user"] \in {"idle", "new.connect"} =>
                \/ ~m_sockets' /\ pc'["user"] \in {"idle", "new.connect"}
                \/ ConnectAhead(asio')
  PROVE  AskedSoon'
BY DEF AskedSoon

(* A step that only hands packets on, or makes nothing of the session,     *)
(* does not disturb it.                                                    *)
LEMMA ConnectStays ==
  ASSUME TypeOK, ConnectAsked,
         UNCHANGED <<m_nsp, m_client, m_sockets, closes, session, server, wire>>,
         m_con_state' = "opened" => m_con_state = "opened",
         KeepsOrder(asio, asio'),
         SocketMutexFree' <=> SocketMutexFree,
         pc["net"] = "invoke.on_open" => pc'["net"] = "invoke.on_open",
         pc["net"] \in {"close.reset", "close.rest"} =>
           pc'["net"] \in {"close.reset", "close.rest"},
         pc'["net"] \in SendsNet => Spoken,
         closes = 0 /\ ~m_sockets =>
           /\ pc'["user"] = pc["user"] /\ pc'["net"] \notin SendsNet
           /\ m_packet_queue' = <<>> /\ Traffic(asio') \subseteq Traffic(asio)
  PROVE  ConnectAsked'
<1>1. Alive'
  BY AliveStays DEF ConnectAsked
<1>2. Unborn'
  <2>1. closes = 0 /\ ~m_sockets =>
          pc["user"] \in {"idle", "new.connect", "new.insert"}
    BY DEF ConnectAsked, Unborn
  <2> QED BY <2>1, UnbornStays DEF ConnectAsked
<1>3. InLine(asio', session')
  BY DEF ConnectAsked, KeepsOrder, TypeOK
<1>4. (Asked => Asked') /\ (AllAsked => AllAsked')
  BY WireStays
<1>5. ConnectFirst'
  BY <1>4 DEF ConnectAsked, ConnectFirst, AllAsked, IsRoot
<1>6. ASSUME ~IsRoot PROVE AskedBefore'
  <2>1. Spoken' => Spoken
    BY DEF Spoken, KeepsOrder
  <2> QED BY <1>4, <1>6, <2>1 DEF ConnectAsked, AskedBefore
<1>7. ASSUME ~IsRoot PROVE AskedSoon'
  <2>1. /\ AskedSoon /\ (ConnectAhead(asio) => ConnectAhead(asio'))
        /\ closes = 0 /\ ~m_sockets => pc'["user"] = pc["user"]
    BY <1>7 DEF ConnectAsked, KeepsOrder
  <2> QED BY <1>4, <2>1, AskedSoonStays
<1> QED
  BY <1>1, <1>2, <1>3, <1>5, <1>6, <1>7 DEF ConnectAsked, IsRoot

(* send_packet hands a packet on; the network thread, which runs it only   *)
(* when the namespace has been asked for, writes it.                       *)
LEMMA SendAsked ==
  ASSUME TypeOK, ConnectAsked, NEW th \in Threads, SendPacket(th)
  PROVE  ConnectAsked'
<1>0. /\ pc \in [Threads -> PCs] /\ "user" \in Threads /\ "net" \in Threads
      /\ th \in {"user", "net"} /\ asio \in Queues
      /\ p \in [Threads -> Packets] /\ front_pack \in [Threads -> Packets]
  BY DEF TypeOK, Threads
<1>1. /\ pc[th] \in SendsNet
      /\ \/ UNCHANGED pc
         \/ \E label \in SendsNet \cup {"idle", "close.timer"} :
              pc' = [pc EXCEPT ![th] = label]
  BY ReturnFacts
     DEF SendPacket, TakeId, SendGuard, SendCheck, Drain, Pop, SendFront,
         SendLast, SendOrCrash, Push, At, Goto, SendSteps, SendsNet
<1>2. SendsNet \cap {"idle", "close.timer", "new.connect", "new.insert",
                     "invoke.on_open", "close.reset", "close.rest"} = {}
  BY DEF SendsNet, SendSteps
<1>3. ~(closes = 0 /\ ~m_sockets)
  BY <1>0, <1>1, <1>2 DEF ConnectAsked, Unborn
<1>4. /\ SocketMutexFree' <=> SocketMutexFree
      /\ pc["net"] \in {"invoke.on_open", "close.reset", "close.rest"} =>
           pc'["net"] = pc["net"]
      /\ pc'["net"] \in SendsNet => pc["net"] \in SendsNet
  BY <1>0, <1>1, <1>2 DEF SocketMutexFree
<1>5. UNCHANGED <<clientVars, m_client, closes, session>>
  BY DEF SendPacket, TakeId, SendGuard, SendCheck, Drain, Pop, SendFront,
         SendLast, SendUnchanged, Push, socketVars, peerVars, endVars
<1>6. ASSUME UNCHANGED <<server, wire>>, KeepsOrder(asio, asio')
      PROVE  ConnectAsked'
  BY <1>3, <1>4, <1>5, <1>6, ConnectStays DEF clientVars, Spoken
<1>7. KeepsOrder(asio, asio)
  BY DEF KeepsOrder
<1>8. CASE TakeId(th) \/ SendGuard(th) \/ SendCheck(th) \/ Drain(th)
           \/ Push(th)
  <2>1. UNCHANGED <<server, wire, asio>>
    BY <1>8 DEF TakeId, SendGuard, SendCheck, Drain, Pop, Push, peerVars
  <2> QED BY <1>6, <1>7, <2>1
<1>9. CASE SendFront(th) \/ SendLast(th)
  <2>1. PICK pkt \in Packets :
          \/ UNCHANGED <<asio, wire, server>>
          \/ th = "user" /\ asio' = Post(asio, "send_impl", pkt)
             /\ UNCHANGED <<wire, server>>
          \/ th = "net" /\ asio' = asio /\ WriteOut(pkt)
    <3>1. p[th] \in Packets /\ front_pack[th] \in Packets
      BY <1>0
    <3> QED
      BY <1>0, <1>9, <3>1 DEF SendFront, SendLast, SendOrCrash, ClientSend
  <2>2. CASE UNCHANGED <<asio, wire, server>>
    BY <1>6, <1>7, <2>2
  <2>3. CASE /\ asio' = Post(asio, "send_impl", pkt)
             /\ UNCHANGED <<wire, server>>
    BY <1>0, <1>6, <2>3, PacketInOrder
  <2>4. CASE th = "net" /\ asio' = asio /\ WriteOut(pkt)
    <3>1. Alive'
      BY <1>4, <1>5, AliveStays DEF ConnectAsked, clientVars
    <3>2. Unborn'
      BY <1>3, <1>5, UnbornStays DEF ConnectAsked, clientVars
    <3>3. InLine(asio', session')
      BY <1>5, <2>4 DEF ConnectAsked
    <3>4. ASSUME ~IsRoot
          PROVE  Asked' /\ (AllAsked => AllAsked')
      <4>1. Asked
        BY <1>1, <2>4, <3>4 DEF ConnectAsked, AskedBefore, Spoken
      <4> QED BY <2>4, <4>1, WriteOutAsks
    <3>5. ConnectFirst'
      BY <1>5, <3>4
         DEF ConnectAsked, ConnectFirst, AllAsked, IsRoot, clientVars
    <3> QED
      BY <1>5, <3>1, <3>2, <3>3, <3>4, <3>5
         DEF ConnectAsked, AskedBefore, AskedSoon, IsRoot, clientVars
  <2> QED BY <2>1, <2>2, <2>3, <2>4
<1> QED BY <1>8, <1>9 DEF SendPacket

(* The user's steps: socket() asks, or leaves it to on_open.               *)
LEMMA UserAsked ==
  ASSUME TypeOK, ClosesOnce, ConnectAsked, UserStart \/ UserStep
  PROVE  ConnectAsked'
<1>0. /\ pc \in [Threads -> PCs] /\ "user" \in Threads /\ "net" \in Threads
      /\ asio \in Queues
  BY DEF TypeOK, Threads
<1>1. KeepsOrder(asio, asio)
  BY DEF KeepsOrder
<1>2. \A label : pc' = [pc EXCEPT !["user"] = label] =>
                   pc'["net"] = pc["net"] /\ pc'["user"] = label
  BY <1>0
<1>3. pc["net"] \in SendsNet => Spoken
  BY DEF Spoken
<1>4. CASE SendPacket("user")
  BY <1>0, <1>4, SendAsked
<1>5. closes = 0 /\ ~m_sockets =>
        pc["user"] \in {"idle", "new.connect", "new.insert"}
  BY DEF ConnectAsked, Unborn
<1>6. ASSUME UNCHANGED <<m_nsp, m_client, m_sockets, closes, session, server,
                         wire, m_packet_queue>>,
             m_con_state' = "opened" => m_con_state = "opened",
             KeepsOrder(asio, asio'),
             ~(closes = 0 /\ ~m_sockets),
             NEW label \in PCs \ {"new.connect", "new.insert"},
             pc["user"] \notin {"new.connect", "new.insert"},
             UNCHANGED pc \/ pc' = [pc EXCEPT !["user"] = label]
      PROVE  ConnectAsked'
  <2>1. pc'["net"] = pc["net"] /\ (SocketMutexFree' <=> SocketMutexFree)
    BY <1>0, <1>2, <1>6 DEF SocketMutexFree
  <2> QED BY <1>3, <1>6, <2>1, ConnectStays
<1>7. CASE UserEmit
  <2>1. \E label \in {"id", "guard", "idle"} :
          UNCHANGED pc \/ pc' = [pc EXCEPT !["user"] = label]
    BY <1>7 DEF UserEmit, Emit, Goto
  <2>2. {"id", "guard", "idle"} \subseteq PCs \ {"new.connect", "new.insert"}
    BY DEF PCs, SendSteps
  <2>3. ~(closes = 0 /\ ~m_sockets) /\ pc["user"] = "idle"
    BY <1>7 DEF UserEmit, HasSocket, At, TypeOK
  <2> QED
    BY <1>1, <1>6, <1>7, <2>1, <2>2, <2>3
       DEF UserEmit, clientVars, socketVars, peerVars, endVars
<1>8. ASSUME NEW call \in UserCalls, UserClose(call) PROVE ConnectAsked'
  <2>1. /\ pc' = [pc EXCEPT !["user"] = "close.check"]
        /\ m_con_state' = "opened" => m_con_state = "opened"
    BY <1>8 DEF UserClose, Goto
  <2>2. "close.check" \in PCs \ {"new.connect", "new.insert"}
    BY DEF PCs, SendSteps
  <2>3. ~(closes = 0 /\ ~m_sockets) /\ pc["user"] = "idle"
    BY <1>8 DEF UserClose, HasSocket, At, TypeOK
  <2>4. UNCHANGED <<m_nsp, m_client, m_sockets, closes, session, server, wire,
                    m_packet_queue, asio>>
    BY <1>8 DEF UserClose, socketVars, peerVars, endVars
  <2> QED BY <1>1, <1>6, <2>1, <2>2, <2>3, <2>4
<1>9. CASE CloseCheck
  <2>1. \E label \in {"guard", "idle"} : pc' = [pc EXCEPT !["user"] = label]
    BY <1>9 DEF CloseCheck, Goto
  <2>2. {"guard", "idle"} \subseteq PCs \ {"new.connect", "new.insert"}
    BY DEF PCs, SendSteps
  <2>3. ~(closes = 0 /\ ~m_sockets) /\ pc["user"] = "close.check"
    BY <1>5, <1>9 DEF CloseCheck, At
  <2>4. UNCHANGED <<clientVars, m_client, closes, session, server, wire,
                    m_packet_queue, asio>>
    BY <1>9 DEF CloseCheck, socketVars, peerVars, endVars
  <2> QED BY <1>1, <1>6, <2>1, <2>2, <2>3, <2>4 DEF clientVars
<1>10. CASE CloseTimer
  <2>1. UNCHANGED pc \/ pc' = [pc EXCEPT !["user"] = "idle"]
    BY <1>10 DEF CloseTimer, Goto
  <2>2. "idle" \in PCs \ {"new.connect", "new.insert"}
    BY DEF PCs
  <2>3. ~(closes = 0 /\ ~m_sockets) /\ pc["user"] = "close.timer"
    BY <1>5, <1>10 DEF CloseTimer, At
  <2>4. KeepsOrder(asio, asio')
    BY <1>0, <1>1, <1>10, CloseWaitFacts, ReadyInOrder DEF CloseTimer
  <2>5. UNCHANGED <<clientVars, m_client, closes, session, server, wire,
                    m_packet_queue>>
    BY <1>10 DEF CloseTimer, socketVars, peerVars
  <2> QED BY <1>6, <2>1, <2>2, <2>3, <2>4, <2>5 DEF clientVars
<1>11. CASE NewSocket \/ NewConnect \/ NewInsert
  <2>1. /\ pc["user"] \in {"idle", "new.connect", "new.insert"}
        /\ UNCHANGED <<m_con_state, m_nsp, closes, session, server, wire,
                       m_packet_queue>>
        /\ pc'["net"] = pc["net"]
    BY <1>2, <1>11
       DEF NewSocket, NewConnect, NewInsert, At, Goto, clientVars, socketVars,
           peerVars, endVars
  <2>2. /\ SocketMutexFree => pc["user"] = "idle"
        /\ pc'["net"] \in SendsNet => pc["net"] \in SendsNet
        /\ Asked => Asked'
    BY <2>1, WireStays DEF SocketMutexFree
  <2>3. ConnectFirst'
    BY <2>1, WireStays DEF ConnectAsked, ConnectFirst, AllAsked, IsRoot
  <2>4. CASE NewSocket
    <3>1. /\ m_client' = TRUE /\ m_client = FALSE /\ m_sockets = FALSE
          /\ UNCHANGED <<m_sockets, asio>>
          /\ pc'["user"] \in {"new.connect", "new.insert"}
          /\ m_con_state = "opened" /\ ~IsRoot => pc'["user"] = "new.connect"
      BY <1>2, <2>4 DEF NewSocket, Goto, clientVars, TypeOK
    <3>2. Alive'
      BY <3>1 DEF Alive
    <3>3. Unborn'
      BY <2>1, <3>1 DEF ConnectAsked, Unborn
    <3>4. InLine(asio', session')
      BY <2>1, <3>1 DEF ConnectAsked
    <3>5. Spoken' => Spoken
      BY <2>1, <3>1 DEF Spoken
    <3>6. ~IsRoot => AskedSoon'
      BY <2>1, <3>1 DEF AskedSoon
    <3> QED
      BY <2>1, <2>2, <2>3, <3>2, <3>3, <3>4, <3>5, <3>6
         DEF ConnectAsked, AskedBefore, IsRoot
  <2>5. CASE NewConnect
    <3> DEFINE r == Post(asio, "send_impl", Connect)
    <3>1. /\ asio' = AwaitConnect(r) /\ UNCHANGED <<m_client, m_sockets>>
          /\ pc["user"] = "new.connect" /\ pc'["user"] = "new.insert"
      BY <1>2, <2>5 DEF NewConnect, At, Goto, clientVars, socketVars
    <3>2. /\ KeepsOrder(asio, r) /\ r \in Queues
          /\ Traffic(r) \subseteq Traffic(asio) \cup {Handler("send_impl", Connect)}
          /\ r.ready = Append(asio.ready, Handler("send_impl", Connect))
      BY <1>0, PacketFacts, PacketInOrder, PostFacts
    <3> HIDE DEF r
    <3>3. KeepsOrder(r, asio') /\ Traffic(asio') \subseteq Traffic(r)
      BY <3>1, <3>2, AwaitConnectFacts, ReadyInOrder
    <3>4. /\ InLine(asio, session) => InLine(asio', session')
          /\ ConnectAhead(asio) => ConnectAhead(asio')
          /\ \A h \in Traffic(asio') \ Traffic(asio) :
               h = Handler("send_impl", Connect)
      BY <2>1, <3>2, <3>3 DEF KeepsOrder, TypeOK
    <3>5. Handler("send_impl", Connect).op = "send_impl"
          /\ Handler("send_impl", Connect).arg = Connect
      BY DEF Handler
    <3>6. Alive'
      BY <2>1, <3>1, AliveStays DEF ConnectAsked, SocketMutexFree
    <3>7. Unborn'
      BY <2>1, <3>1, <3>4, <3>5 DEF ConnectAsked, Unborn
    <3>8. Spoken' => Spoken
      BY <2>1, <3>4, <3>5 DEF Spoken
    <3>9. ASSUME closes = 0, ~m_sockets PROVE ConnectAhead(asio')
      <4> DEFINE n == Len(asio.ready)
      <4>1. asio.ready \in Seq(Handlers)
        BY <1>0 DEF Queues
      <4>2. /\ n \in Nat /\ DOMAIN asio.ready = 1..n /\ DOMAIN r.ready = 1..(n + 1)
            /\ r.ready[n + 1] = Handler("send_impl", Connect)
            /\ \A j \in 1..n : r.ready[j] = asio.ready[j]
        BY <3>2, <4>1
      <4> HIDE DEF n
      <4>3. ASSUME NEW j \in 1..n, asio.ready[j].op = "send_impl"
            PROVE  asio.ready[j].arg = Connect
        <5>1. asio.ready[j] \in Traffic(asio)
          BY <4>2, <4>3 DEF Traffic
        <5> QED BY <3>9, <4>3, <5>1 DEF ConnectAsked, Unborn
      <4>4. n + 1 \in DOMAIN r.ready /\ 1..(n + 1 - 1) = 1..n
        BY <4>2
      <4>5. ConnectAhead(r)
        BY <4>2, <4>3, <4>4 DEF ConnectAhead
      <4> QED BY <3>3, <4>5 DEF KeepsOrder
    <3>10. ~IsRoot => AskedSoon'
      BY <2>1, <2>2, <3>4, <3>9, AskedSoonStays DEF ConnectAsked
    <3> QED
      BY <2>1, <2>2, <2>3, <3>4, <3>6, <3>7, <3>8, <3>10
         DEF ConnectAsked, AskedBefore, IsRoot
  <2>6. CASE NewInsert
    <3>1. /\ m_sockets' = TRUE /\ UNCHANGED <<m_client, asio>>
          /\ pc["user"] = "new.insert"
      BY <2>6 DEF NewInsert, At, socketVars
    <3>2. Alive'
      BY <2>1, <3>1 DEF ConnectAsked, Alive, SocketMutexFree
    <3>3. Unborn'
      BY <3>1 DEF Unborn
    <3>4. InLine(asio', session')
      BY <2>1, <3>1 DEF ConnectAsked
    <3>5. Spoken' => Spoken
      BY <2>1, <3>1 DEF Spoken
    <3>6. ~IsRoot => AskedSoon'
      BY <2>1, <2>2, <3>1, AskedSoonStays DEF ConnectAsked
    <3> QED
      BY <2>1, <2>2, <2>3, <3>2, <3>3, <3>4, <3>5, <3>6
         DEF ConnectAsked, AskedBefore, IsRoot
  <2> QED BY <1>11, <2>4, <2>5, <2>6
<1> QED BY <1>4, <1>7, <1>8, <1>9, <1>10, <1>11 DEF UserStart, UserStep

(* The first packet posted is written: if it is no CONNECT, the namespace  *)
(* has been asked for.                                                     *)
LEMMA SendImplAsked ==
  ASSUME TypeOK, ConnectAsked, SendImpl
  PROVE  ConnectAsked'
<1> DEFINE h == Head(asio.ready)
<1>0. /\ asio \in Queues /\ asio.ready # <<>> /\ h.op = "send_impl"
      /\ h.arg = Arg /\ Arg \in Packets /\ pc["net"] = "idle"
      /\ asio' = PopReady(asio) /\ WriteOut(Arg)
      /\ UNCHANGED <<m_con_state, m_nsp, m_client, m_sockets, closes, session,
                     pc, m_packet_queue>>
  BY DEF SendImpl, Runs, At, Popped, Arg, TypeOK, clientVars, socketVars,
         endVars
<1>1. /\ h \in Handlers
      /\ Traffic(asio') \subseteq Traffic(asio) /\ h \in Traffic(asio)
      /\ InLine(asio, session) => InLine(asio', session)
      /\ h # Handler("send_impl", Connect) /\ ConnectAhead(asio) =>
           ConnectAhead(asio')
  BY <1>0, PopFacts DEF TypeOK
<1>2. Arg # Connect => h # Handler("send_impl", Connect)
  BY <1>0 DEF Handler
<1>4. asio.ready[1] = h /\ 1 \in DOMAIN asio.ready
      /\ \A i \in DOMAIN asio.ready : i = 1 \/ 1 \in 1..(i - 1)
  <2>1. asio.ready \in Seq(Handlers)
    BY <1>0 DEF Queues
  <2>2. /\ Len(asio.ready) \in Nat \ {0}
        /\ DOMAIN asio.ready = 1..Len(asio.ready) /\ asio.ready[1] = h
    BY <1>0, <2>1
  <2> QED BY <2>2
<1> HIDE DEF h
<1>5. Alive'
  BY <1>0, AliveStays DEF ConnectAsked, SocketMutexFree
<1>6. Unborn'
  BY <1>0, <1>1 DEF ConnectAsked, Unborn
<1>7. InLine(asio', session')
  BY <1>0, <1>1 DEF ConnectAsked
<1>8. /\ Asked => Asked'
      /\ Arg = Connect /\ m_con_state = "opened" /\ session = "up" => Asked'
      /\ AllAsked
           /\ (m_con_state = "opened" /\ session = "up" /\ Arg # Connect =>
                 Asked)
           => AllAsked'
      /\ server'.joined => server.joined
      /\ server'.connects > 0 => server.connects > 0 \/ Asked'
  BY <1>0, WriteOutAsks
<1>9. ~IsRoot => AskedBefore'
  BY <1>0, <1>1, <1>8 DEF ConnectAsked, AskedBefore, Spoken
<1>10. ASSUME ~IsRoot PROVE AskedSoon'
  <2>1. AskedSoon
    BY <1>10 DEF ConnectAsked
  <2>2. ASSUME ConnectAhead(asio), session = "up", m_con_state = "opened"
        PROVE  ConnectAhead(asio') \/ Asked'
    <3>1. CASE h = Handler("send_impl", Connect)
      BY <1>8, <2>2, <3>1 DEF Handler, h, Arg
    <3>2. CASE h # Handler("send_impl", Connect)
      BY <1>1, <2>2, <3>2
    <3> QED BY <3>1, <3>2
  <2> QED BY <1>0, <1>8, <2>1, <2>2, AskedSoonStays
<1>11. ASSUME ~IsRoot, closes = 0, m_con_state = "opened", session = "up",
              Arg # Connect
       PROVE  Asked
  <2>1. ~ConnectAhead(asio)
    <3> SUFFICES ASSUME NEW i \in DOMAIN asio.ready,
                        asio.ready[i] = Handler("send_impl", Connect),
                        \A j \in 1..(i - 1) :
                          asio.ready[j].op = "send_impl" =>
                            asio.ready[j].arg = Connect
                 PROVE  FALSE
      BY DEF ConnectAhead
    <3>1. CASE i = 1
      BY <1>2, <1>4, <1>11, <3>1
    <3>2. CASE 1 \in 1..(i - 1)
      BY <1>0, <1>4, <1>11, <3>2
    <3> QED BY <1>4, <3>1, <3>2
  <2>2. m_sockets
    BY <1>0, <1>1, <1>11 DEF ConnectAsked, Unborn
  <2> QED BY <1>0, <1>11, <2>1, <2>2 DEF ConnectAsked, AskedSoon
<1>12. ConnectFirst'
  BY <1>0, <1>8, <1>11 DEF ConnectAsked, ConnectFirst, AllAsked, IsRoot
<1> QED
  BY <1>0, <1>5, <1>6, <1>7, <1>9, <1>10, <1>12 DEF ConnectAsked, IsRoot

(* A session begins with nothing said in it, and ends with nothing left.   *)
LEMMA SessionAsked ==
  ASSUME TypeOK, ConnectAsked, OnOpen \/ OnDisconnect
  PROVE  ConnectAsked'
<1> DEFINE h == Head(asio.ready)
<1>0. /\ asio \in Queues /\ asio.ready # <<>>
      /\ h.op \in {"on_open", "on_disconnect"} /\ pc["net"] = "idle"
      /\ asio' = PopReady(asio)
      /\ UNCHANGED <<m_nsp, m_client, m_sockets, closes, m_packet_queue>>
      /\ pc \in [Threads -> PCs] /\ "net" \in Threads /\ "user" \in Threads
  BY DEF OnOpen, OnDisconnect, Runs, At, Popped, TypeOK, socketVars, endVars,
         Threads
<1>1. /\ Traffic(asio') \subseteq Traffic(asio) /\ asio' \in Queues
      /\ \A i \in DOMAIN asio'.ready : asio'.ready[i].op \notin SessionHandlers
  BY <1>0, PopFacts DEF ConnectAsked, TypeOK
<1> HIDE DEF h
<1>2. /\ \A ses : InLine(asio', ses)
      /\ \A m \in Traffic(asio') : m.op # "on_message"
  BY <1>1 DEF InLine, Traffic, SessionHandlers
<1>3. /\ pc'["user"] = pc["user"]
      /\ pc'["net"] \in {"invoke.on_open", "invoke.on_disconnect"}
      /\ pc'["net"] \notin SendsNet
      /\ OnOpen => pc'["net"] = "invoke.on_open"
  BY <1>0 DEF OnOpen, OnDisconnect, Goto, SendsNet, SendSteps
<1>4. Alive'
  BY <1>0, <1>3, AliveStays DEF ConnectAsked, SocketMutexFree
<1>5. Unborn'
  BY <1>0, <1>1, <1>3 DEF ConnectAsked, Unborn
<1>6. ~IsRoot => ~Spoken'
  <2>1. ~IsRoot => server'.connects = 0 /\ ~server'.joined
    BY DEF OnOpen, OnDisconnect, NewServer
  <2> QED BY <1>2, <1>3, <2>1 DEF Spoken
<1>7. AskedSoon'
  <2>1. OnDisconnect => session' # "up"
    BY DEF OnDisconnect
  <2> QED BY <1>3, <2>1 DEF AskedSoon
<1>8. AllAsked => AllAsked'
  <2>1. CASE OnOpen
    <3>1. wire' = Append(wire, Packet("session", 0, 0))
      BY <2>1 DEF OnOpen
    <3>2. Packet("session", 0, 0).type \notin {"event", "disconnect"}
      BY DEF Packet
    <3> QED BY <3>1, <3>2, WireGrows
  <2>2. CASE OnDisconnect
    BY <2>2, WireStays DEF OnDisconnect
  <2> QED BY <2>1, <2>2
<1>9. ConnectFirst'
  BY <1>0, <1>8 DEF ConnectAsked, ConnectFirst, AllAsked, IsRoot
<1> QED
  BY <1>0, <1>2, <1>4, <1>5, <1>6, <1>7, <1>9
     DEF ConnectAsked, AskedBefore, IsRoot

(* on_open asks for the namespace, unless there is no socket yet.          *)
LEMMA InvokeOnOpenAsked ==
  ASSUME TypeOK, ConnectAsked, InvokeOnOpen
  PROVE  ConnectAsked'
<1>0. /\ asio \in Queues /\ pc["net"] = "invoke.on_open" /\ SocketMutexFree
      /\ UNCHANGED <<m_con_state, m_nsp, session, closes, m_packet_queue>>
      /\ pc'["user"] = pc["user"] /\ pc'["net"] = "idle"
      /\ m_sockets \in BOOLEAN
  BY DEF InvokeOnOpen, At, Goto, TypeOK, Threads, endVars
<1>1. SocketMutexFree' <=> SocketMutexFree
  BY <1>0 DEF SocketMutexFree
<1>2. "idle" \notin SendsNet
  BY DEF SendsNet, SendSteps
<1>3. CASE IsRoot
  <2>1. UNCHANGED <<asio, wire, server>>
        /\ IF closes = 0 THEN m_sockets' = TRUE /\ m_client' = TRUE
           ELSE UNCHANGED <<m_sockets, m_client>>
    BY <1>3 DEF InvokeOnOpen
  <2>2. Alive'
    BY <1>0, <2>1 DEF Alive
  <2>3. Unborn'
    BY <1>0, <2>1 DEF Unborn
  <2>4. InLine(asio', session')
    BY <1>0, <2>1 DEF ConnectAsked
  <2>5. IsRoot'
    BY <1>0, <1>3 DEF IsRoot
  <2> QED BY <2>2, <2>3, <2>4, <2>5 DEF ConnectAsked, ConnectFirst
<1>4. CASE ~IsRoot
  <2>1. /\ UNCHANGED <<m_sockets, m_client>>
        /\ \/ m_sockets /\ m_client /\ asio' = AwaitConnect(asio)
              /\ WriteOut(Connect)
           \/ ~(m_sockets /\ m_client) /\ UNCHANGED <<asio, wire, server>>
    BY <1>4 DEF InvokeOnOpen, SendConnect
  <2>2. KeepsOrder(asio, asio') /\ Traffic(asio') \subseteq Traffic(asio)
    <3>1. CASE asio' = AwaitConnect(asio)
      BY <1>0, <3>1, AwaitConnectFacts, ReadyInOrder
    <3>2. CASE asio' = asio
      BY <3>2 DEF KeepsOrder
    <3> QED BY <2>1, <3>1, <3>2
  <2>3. /\ Asked => Asked'
        /\ AllAsked => AllAsked'
        /\ server'.joined => server.joined
        /\ server'.connects > 0 => server.connects > 0 \/ Asked'
        /\ m_sockets /\ m_client /\ m_con_state = "opened" /\ session = "up" =>
             Asked'
    <3>1. CASE WriteOut(Connect)
      BY <2>1, <3>1, PacketFacts, WriteOutAsks
    <3>2. CASE ~(m_sockets /\ m_client) /\ UNCHANGED <<wire, server>>
      BY <3>2, WireStays
    <3> QED BY <2>1, <3>1, <3>2
  <2>4. Alive'
    BY <1>0, <1>1, <2>1, AliveStays DEF ConnectAsked
  <2>5. Unborn'
    BY <1>0, <1>2, <2>1, <2>2 DEF ConnectAsked, Unborn
  <2>6. InLine(asio', session')
    BY <1>0, <2>2 DEF ConnectAsked, KeepsOrder, TypeOK
  <2>7. AskedBefore'
    <3>1. Spoken' => Spoken \/ Asked'
      BY <1>0, <1>2, <2>2, <2>3 DEF Spoken
    <3> QED BY <1>4, <2>3, <3>1 DEF ConnectAsked, AskedBefore
  <2>8. AskedSoon'
    <3>1. ASSUME closes = 0, ~(m_sockets /\ m_client)
          PROVE  ~m_sockets /\ pc["user"] = "idle"
      BY <1>0, <3>1 DEF ConnectAsked, Alive, Unborn, SocketMutexFree
    <3> QED BY <1>0, <2>1, <2>3, <3>1 DEF AskedSoon
  <2>9. ConnectFirst'
    BY <1>0, <2>3 DEF ConnectAsked, ConnectFirst, AllAsked, IsRoot
  <2> QED BY <2>4, <2>5, <2>6, <2>7, <2>8, <2>9 DEF ConnectAsked
<1> QED BY <1>3, <1>4

(* The network thread's steps.                                             *)
LEMMA NetAsked ==
  ASSUME TypeOK, ConnectAsked, NetStep
  PROVE  ConnectAsked'
<1>0. /\ pc \in [Threads -> PCs] /\ "user" \in Threads /\ "net" \in Threads
      /\ asio \in Queues /\ closes \in Nat
  BY DEF TypeOK, Threads
<1>1. \A label : pc' = [pc EXCEPT !["net"] = label] =>
                   pc'["user"] = pc["user"] /\ pc'["net"] = label
  BY <1>0
<1>2. CASE SendImpl \/ OnOpen \/ OnDisconnect \/ InvokeOnOpen
           \/ SendPacket("net")
  BY <1>0, <1>2, SendImplAsked, SessionAsked, InvokeOnOpenAsked, SendAsked
<1>3. closes = 0 /\ ~m_sockets => m_packet_queue = <<>>
  BY DEF ConnectAsked, Unborn
<1>4. KeepsOrder(asio, asio)
  BY DEF KeepsOrder
<1>5. ASSUME UNCHANGED <<clientVars, m_client, closes, session, server, wire>>,
             KeepsOrder(asio, asio'), Traffic(asio') \subseteq Traffic(asio),
             m_packet_queue' \in {m_packet_queue, <<>>},
             pc["net"] # "invoke.on_open",
             NEW label, UNCHANGED pc \/ pc' = [pc EXCEPT !["net"] = label],
             pc'["net"] \in SendsNet =>
               Spoken /\ ~(closes = 0 /\ ~m_sockets),
             pc["net"] \in {"close.reset", "close.rest"} =>
               pc'["net"] \in {"close.reset", "close.rest"}
      PROVE  ConnectAsked'
  <2>1. pc'["user"] = pc["user"] /\ (SocketMutexFree' <=> SocketMutexFree)
    BY <1>1, <1>5 DEF SocketMutexFree
  <2> QED BY <1>3, <1>5, <2>1, ConnectStays DEF clientVars
<1>6. ASSUME pc["net"] = "idle", asio.ready # <<>>,
             Head(asio.ready).op # "send_impl",
             asio' \in {PopReady(asio), ResetTimer(PopReady(asio))}
      PROVE  KeepsOrder(asio, asio') /\ Traffic(asio') \subseteq Traffic(asio)
  BY <1>6, PopKeeps, PopResetKeeps, ReadyInOrder
<1>7. "idle" \notin SendsNet /\ "clear" \notin SendsNet
      /\ "close.null" \notin SendsNet /\ "close.rest" \notin SendsNet
  BY DEF SendsNet, SendSteps
<1>8. CASE Ignored \/ OnDisconnectPacket \/ OnAck \/ WaitAborted
           \/ TimeoutConnection \/ OnCloseWait
  <2>1. /\ pc["net"] = "idle" /\ asio.ready # <<>>
        /\ Head(asio.ready).op # "send_impl"
        /\ asio' \in {PopReady(asio), ResetTimer(PopReady(asio))}
        /\ UNCHANGED pc \/ pc' = [pc EXCEPT !["net"] = "close.null"]
    BY <1>8
       DEF Ignored, OnDisconnectPacket, OnAck, WaitAborted, TimeoutConnection,
           OnCloseWait, Receives, Runs, At, Goto, Popped
  <2>2. UNCHANGED <<clientVars, m_client, closes, session, server, wire,
                    m_packet_queue>>
    BY <1>8
       DEF Ignored, OnDisconnectPacket, OnAck, WaitAborted, TimeoutConnection,
           OnCloseWait, socketVars, peerVars, endVars
  <2>3. pc'["net"] \in {"idle", "close.null"}
    BY <1>1, <2>1
  <2> QED BY <1>5, <1>6, <1>7, <2>1, <2>2, <2>3
<1>9. CASE OnConnected \/ OnEvent
  <2>1. /\ pc["net"] = "idle" /\ asio.ready # <<>>
        /\ Head(asio.ready).op = "on_message" /\ m_sockets
        /\ asio' \in {PopReady(asio), ResetTimer(PopReady(asio))}
        /\ UNCHANGED pc \/ \E label : pc' = [pc EXCEPT !["net"] = label]
    BY <1>9
       DEF OnConnected, OnEvent, Emit, Receives, Runs, At, Goto, Popped
  <2>2. UNCHANGED <<clientVars, m_client, closes, session, server, wire,
                    m_packet_queue>>
    BY <1>9 DEF OnConnected, OnEvent, socketVars, peerVars, endVars
  <2>3. Spoken
    BY <1>0, <2>1, PopFacts DEF Spoken
  <2> QED BY <1>5, <1>6, <2>1, <2>2, <2>3
<1>10. CASE InvokeOnDisconnect \/ ClearQueue
  <2>1. /\ pc["net"] \in {"invoke.on_disconnect", "clear"}
        /\ m_packet_queue' \in {m_packet_queue, <<>>}
        /\ \E label \in {"clear", "idle"} : pc' = [pc EXCEPT !["net"] = label]
    BY <1>10 DEF InvokeOnDisconnect, ClearQueue, At, Goto
  <2>2. UNCHANGED <<clientVars, m_client, closes, session, server, wire, asio>>
    BY <1>10 DEF InvokeOnDisconnect, ClearQueue, peerVars, endVars
  <2>3. pc'["net"] \in {"idle", "clear"}
    BY <1>1, <2>1
  <2> QED BY <1>4, <1>5, <1>7, <2>1, <2>2, <2>3
<1>11. CASE CloseReset
  <2>1. /\ pc["net"] = "close.reset" /\ pc' = [pc EXCEPT !["net"] = "close.rest"]
        /\ asio' = ResetTimer(asio)
        /\ UNCHANGED <<clientVars, m_client, closes, session, server, wire,
                       m_packet_queue>>
    BY <1>11 DEF CloseReset, At, Goto, peerVars, endVars
  <2>2. KeepsOrder(asio, asio') /\ Traffic(asio') \subseteq Traffic(asio)
    BY <1>0, <2>1, ResetTimerFacts, ReadyInOrder
  <2>3. pc'["net"] = "close.rest"
    BY <1>1, <2>1
  <2> QED BY <1>5, <1>7, <2>1, <2>2, <2>3
<1>12. CASE CloseNull
  <2>1. /\ pc["net"] = "close.null" /\ pc'["net"] = "close.reset"
        /\ pc'["user"] = pc["user"]
        /\ UNCHANGED <<m_con_state, m_nsp, m_sockets, closes, session, server,
                       wire, asio, m_packet_queue>>
    BY <1>1, <1>12 DEF CloseNull, At, Goto, clientVars, peerVars, endVars
  <2>2. "close.reset" \notin SendsNet
    BY DEF SendsNet, SendSteps
  <2>3. Alive'
    BY <2>1 DEF Alive
  <2>4. Unborn'
    BY <2>1, <2>2 DEF ConnectAsked, Unborn
  <2>5. (Asked => Asked') /\ (AllAsked => AllAsked')
    BY <2>1, WireStays
  <2>6. ~IsRoot => AskedBefore'
    BY <2>1, <2>2, <2>5 DEF ConnectAsked, AskedBefore, Spoken
  <2>7. ~IsRoot => AskedSoon'
    BY <2>1, <2>5 DEF ConnectAsked, AskedSoon
  <2>8. ConnectFirst'
    BY <2>1, <2>5 DEF ConnectAsked, ConnectFirst, AllAsked, IsRoot
  <2> QED
    BY <2>1, <2>3, <2>4, <2>6, <2>7, <2>8 DEF ConnectAsked, IsRoot
<1>13. CASE CloseRest
  <2>1. /\ closes' # 0 /\ pc'["net"] = "idle"
        /\ UNCHANGED <<m_nsp, session, server, wire, asio>>
    BY <1>0, <1>1, <1>13 DEF CloseRest, Goto, peerVars
  <2>2. Asked => Asked'
    BY <2>1, WireStays
  <2>3. ~IsRoot => AskedBefore'
    BY <1>7, <2>1, <2>2 DEF ConnectAsked, AskedBefore, Spoken
  <2> QED
    BY <2>1, <2>3
       DEF ConnectAsked, Alive, Unborn, AskedSoon, ConnectFirst, IsRoot
<1> QED
  BY <1>2, <1>8, <1>9, <1>10, <1>11, <1>12, <1>13 DEF NetStep, OnMessage

(* The server says nothing of a namespace that it was not asked for.       *)
LEMMA SurroundingsAsked ==
  ASSUME TypeOK, ConnectAsked, Surroundings
  PROVE  ConnectAsked'
<1>0. asio \in Queues
  BY DEF TypeOK
<1>1. UNCHANGED <<clientVars, m_client, closes, pc, wire, m_packet_queue>>
  BY DEF Surroundings, TimerExpires, SessionOpens, SessionEnds,
         ServerConnects, ServerEmits, ServerDisconnects, ServerAcks,
         ServerSends, Queued, socketVars, endVars
<1>2. SocketMutexFree' <=> SocketMutexFree
  BY <1>1 DEF SocketMutexFree
<1>3. (Asked => Asked') /\ (AllAsked => AllAsked')
  BY <1>1, WireStays
<1>4. ASSUME InLine(asio', session'), session' = "up" => session = "up",
             ConnectAhead(asio) => ConnectAhead(asio'),
             \A h \in Traffic(asio') \ Traffic(asio) : h.op = "on_message",
             ~IsRoot /\ Spoken' => Spoken
      PROVE  ConnectAsked'
  <2>1. Alive'
    BY <1>1, <1>2, AliveStays DEF ConnectAsked, clientVars
  <2>2. Unborn'
    BY <1>1, <1>4 DEF ConnectAsked, Unborn, clientVars
  <2>3. ~IsRoot => AskedBefore'
    BY <1>3, <1>4 DEF ConnectAsked, AskedBefore
  <2>4. ~IsRoot => AskedSoon'
    BY <1>1, <1>3, <1>4, AskedSoonStays DEF ConnectAsked, clientVars
  <2>5. ConnectFirst'
    BY <1>1, <1>3 DEF ConnectAsked, ConnectFirst, AllAsked, IsRoot, clientVars
  <2> QED
    BY <1>1, <1>4, <2>1, <2>2, <2>3, <2>4, <2>5
       DEF ConnectAsked, IsRoot, clientVars
<1>5. CASE \E t \in Timers : TimerExpires(t)
  <2>1. KeepsReady(asio, asio') /\ UNCHANGED <<session, server>>
    BY <1>0, <1>5, ExpireFacts DEF TimerExpires, Queued, peerVars
  <2>2. /\ KeepsOrder(asio, asio') /\ Traffic(asio') \subseteq Traffic(asio)
        /\ InLine(asio', session')
    BY <2>1, ReadyInOrder DEF KeepsOrder, ConnectAsked, TypeOK
  <2> QED BY <1>1, <1>4, <2>1, <2>2 DEF Spoken, KeepsOrder
<1>6. CASE SessionOpens \/ SessionEnds
  <2>1. PICK op \in {"on_open", "on_disconnect"} :
          /\ asio' = Post(asio, op, "-") /\ UNCHANGED server
          /\ \/ op = "on_open" /\ session = "none" /\ session' = "opening"
             \/ op = "on_disconnect" /\ session = "up" /\ session' = "ending"
    BY <1>6 DEF SessionOpens, SessionEnds, Queued
  <2>2. Handler(op, "-") \in Handlers
    BY DEF Handler, Handlers
  <2>3. InLine(asio', session')
    BY <1>0, <2>1, <2>2, SessionInLine DEF ConnectAsked, TypeOK
  <2>4. /\ Traffic(asio') \subseteq Traffic(asio)
        /\ ConnectAhead(asio) => ConnectAhead(asio')
    BY <1>0, <2>1, <2>2, PostFacts
  <2> QED BY <1>1, <1>4, <2>1, <2>3, <2>4 DEF Spoken
<1>7. ASSUME NEW msg \in Messages, ServerSends(msg),
             server.connects > 0 \/ server.joined,
             server'.connects > 0 => server.connects > 0,
             server'.joined => Spoken
      PROVE  ConnectAsked'
  <2>1. /\ asio' = Post(asio, "on_message", msg)
        /\ session = "up" /\ session' = "up"
    BY <1>7 DEF ServerSends, Queued
  <2>2. Handler("on_message", msg) \in Handlers
    BY DEF Handler, Handlers
  <2>3. InLine(asio', session')
    BY <1>0, <2>1, <2>2, SessionInLine DEF ConnectAsked, TypeOK
  <2>4. /\ Traffic(asio') \subseteq Traffic(asio) \cup {Handler("on_message", msg)}
        /\ ConnectAhead(asio) => ConnectAhead(asio')
    BY <1>0, <2>1, <2>2, PostFacts
  <2>5. Handler("on_message", msg).op = "on_message"
    BY DEF Handler
  <2> QED BY <1>4, <1>7, <2>1, <2>3, <2>4, <2>5 DEF Spoken
<1>8. CASE ServerConnects \/ ServerEmits \/ ServerDisconnects
  <2>1. PICK msg \in {Connect, Disconnect, Packet("event", 0, 0)} :
          ServerSends(msg)
    BY <1>8 DEF ServerConnects, ServerEmits, ServerDisconnects
  <2>2. msg \in Messages
    BY DEF Messages
  <2>3. /\ server.connects > 0 \/ server.joined
        /\ server'.connects > 0 => server.connects > 0
    BY <1>8 DEF ServerConnects, ServerEmits, ServerDisconnects, TypeOK
  <2> QED BY <1>7, <2>1, <2>2, <2>3 DEF Spoken
<1>9. CASE ServerAcks
  <2>1. PICK e \in server.events :
          /\ server.joined /\ ServerSends(Packet("ack", e[1], e[2]))
          /\ server' = [server EXCEPT !.events = server.events \ {e}]
    BY <1>9 DEF ServerAcks
  <2>2. Packet("ack", e[1], e[2]) \in Messages
    BY DEF TypeOK, Messages, Packet
  <2>3. server'.connects > 0 => server.connects > 0
    BY <2>1 DEF TypeOK
  <2> QED BY <1>7, <2>1, <2>2, <2>3 DEF Spoken
<1> QED BY <1>5, <1>6, <1>8, <1>9 DEF Surroundings

(* Every step leaves the namespace asked for in time.                      *)
LEMMA ConnectAskedStep ==
  ASSUME TypeOK, ClosesOnce, ConnectAsked, [Next]_vars
  PROVE  ConnectAsked'
<1>1. CASE UserStart \/ UserStep
  BY <1>1, UserAsked
<1>2. CASE NetStep
  BY <1>2, NetAsked
<1>3. CASE Surroundings
  BY <1>3, SurroundingsAsked
<1>4. CASE UNCHANGED vars
  <2>1. UNCHANGED <<clientVars, m_client, closes, session, server, wire, pc,
                    asio, m_packet_queue>>
    BY <1>4 DEF vars, socketVars, endVars, peerVars
  <2>2. KeepsOrder(asio, asio') /\ Traffic(asio') \subseteq Traffic(asio)
        /\ (SocketMutexFree' <=> SocketMutexFree)
    BY <2>1 DEF KeepsOrder, SocketMutexFree
  <2>3. /\ pc["net"] \in SendsNet => Spoken
        /\ closes = 0 /\ ~m_sockets =>
             m_packet_queue = <<>> /\ pc["net"] \notin SendsNet
    BY DEF Spoken, ConnectAsked, Unborn
  <2> QED BY <2>1, <2>2, <2>3, ConnectStays DEF clientVars
<1> QED BY <1>1, <1>2, <1>3, <1>4 DEF Next

-----------------------------------------------------------------------------
(* The user's emits stay in line.                                          *)

(* The user's emit in hand, and the one it is about to send.               *)
Hand ==
  IF pc["user"] = "front" THEN UserOf(front_pack["user"]) ELSE {}
Coming ==
  IF pc["user"] \in SendSteps THEN UserOf(p["user"]) ELSE {}

LinedUp(posted, hand, queue, coming) ==
  /\ Ordered(posted) /\ Ordered(queue)
  /\ Below(UsersIn(posted), hand) /\ Below(UsersIn(posted), UsersIn(queue))
  /\ Below(UsersIn(posted), coming)
  /\ Below(hand, UsersIn(queue)) /\ Below(hand, coming)
  /\ Below(UsersIn(queue), coming)

(* A packet alone is in order.                                             *)
LEMMA OneUser ==
  /\ UsersIn(<<>>) = {} /\ Ordered(<<>>)
  /\ \A pkt : UsersIn(<<pkt>>) = UserOf(pkt) /\ Ordered(<<pkt>>)
<1>1. \A pkt : /\ DOMAIN <<pkt>> = {1} /\ <<pkt>>[1] = pkt
  OBVIOUS
<1>2. ASSUME NEW pkt PROVE UsersIn(<<pkt>>) = UserOf(pkt)
  BY <1>1 DEF UsersIn, UserOf
<1>3. ASSUME NEW pkt PROVE Ordered(<<pkt>>)
  BY <1>1 DEF Ordered
<1>4. UsersIn(<<>>) = {} /\ Ordered(<<>>)
  BY DEF UsersIn, Ordered
<1> QED BY <1>2, <1>3, <1>4

(* Four sequences are in order.                                            *)
LEMMA LineOfFour ==
  ASSUME NEW s1, NEW s2, NEW s3, NEW s4, Ordered(s2), Ordered(s4)
  PROVE  InLineOrder(<<s1, s2, s3, s4>>) <=>
           LinedUp(s1, UsersIn(s2), s3, UsersIn(s4))
<1> DEFINE line == <<s1, s2, s3, s4>>
<1>1. /\ DOMAIN line = 1..4
      /\ line[1] = s1 /\ line[2] = s2 /\ line[3] = s3 /\ line[4] = s4
  OBVIOUS
<1> HIDE DEF line
<1>2. ASSUME InLineOrder(line) PROVE LinedUp(s1, UsersIn(s2), s3, UsersIn(s4))
  BY <1>1, <1>2 DEF InLineOrder, LinedUp, Below
<1>3. ASSUME LinedUp(s1, UsersIn(s2), s3, UsersIn(s4)) PROVE InLineOrder(line)
  <2>1. \A a \in 1..4 : Ordered(line[a])
    BY <1>1, <1>3 DEF LinedUp
  <2>2. ASSUME NEW a \in 1..4, NEW b \in 1..4, a < b
        PROVE  Below(UsersIn(line[a]), UsersIn(line[b]))
    <3>1. CASE a = 1
      <4>1. b \in {2, 3, 4}
        BY <2>2, <3>1
      <4> QED BY <1>1, <1>3, <3>1, <4>1 DEF LinedUp
    <3>2. CASE a = 2
      <4>1. b \in {3, 4}
        BY <2>2, <3>2
      <4> QED BY <1>1, <1>3, <3>2, <4>1 DEF LinedUp
    <3>3. CASE a = 3
      <4>1. b = 4
        BY <2>2, <3>3
      <4> QED BY <1>1, <1>3, <3>3, <4>1 DEF LinedUp
    <3>4. a \in {1, 2, 3}
      BY <2>2
    <3> QED BY <3>1, <3>2, <3>3, <3>4
  <2> QED BY <1>1, <2>1, <2>2 DEF InLineOrder, Below
<1> QED BY <1>2, <1>3 DEF line

(* UserInLine in terms of them.                                            *)
LEMMA LineMeans ==
  /\ UserInLine <=> LinedUp(Posted(asio), Hand, m_packet_queue, Coming)
  /\ UserInLine' <=> LinedUp(Posted(asio'), Hand', m_packet_queue', Coming')
<1> DEFINE hand == IF pc["user"] = "front" THEN <<front_pack["user"]>> ELSE <<>>
           coming == IF pc["user"] \in SendSteps THEN <<p["user"]>> ELSE <<>>
<1>1. /\ UsersIn(hand) = Hand /\ Ordered(hand)
      /\ UsersIn(coming) = Coming /\ Ordered(coming)
  BY OneUser DEF Hand, Coming
<1>2. /\ UsersIn(hand') = Hand' /\ Ordered(hand')
      /\ UsersIn(coming') = Coming' /\ Ordered(coming')
  BY OneUser DEF Hand, Coming
<1>3. /\ UserLine = <<Posted(asio), hand, m_packet_queue, coming>>
      /\ UserLine' = <<Posted(asio'), hand', m_packet_queue', coming'>>
  BY DEF UserLine, Posted
<1> HIDE DEF hand, coming
<1>4. UserInLine <=> LinedUp(Posted(asio), Hand, m_packet_queue, Coming)
  BY <1>1, <1>3, LineOfFour DEF UserInLine
<1>5. UserInLine' <=> LinedUp(Posted(asio'), Hand', m_packet_queue', Coming')
  BY <1>2, <1>3, LineOfFour DEF UserInLine
<1> QED BY <1>4, <1>5

(* What leaves the line leaves it in order.                                *)
LEMMA LineStays ==
  ASSUME LineKept, asio' = asio \/ KeepsPosted(asio, asio'),
         UsersIn(m_packet_queue') \subseteq UsersIn(m_packet_queue),
         Ordered(m_packet_queue) => Ordered(m_packet_queue'),
         Hand' \subseteq Hand, Coming' \subseteq Coming,
         p'["net"] = p["net"] \/ ~UsersEmit(p'["net"]),
         pc'["user"] \notin {"open.drain", "open.front"},
         pc'["user"] = "send" => pc["user"] = "send"
  PROVE  LineKept'
<1>1. /\ UsersIn(Posted(asio')) \subseteq UsersIn(Posted(asio))
      /\ Ordered(Posted(asio)) => Ordered(Posted(asio'))
  BY DEF KeepsPosted
<1>2. UserInLine'
  BY <1>1, LineMeans DEF LineKept, LinedUp, Below
<1> QED BY <1>2 DEF LineKept

(* The user's next emit comes after all that is in line.                   *)
LEMMA LineUserEmit ==
  ASSUME TypeOK, InOnePlace, LineKept, UserEmit
  PROVE  LineKept'
<1>0. /\ pc["user"] = "idle" /\ Emit("user")
      /\ UNCHANGED <<asio, front_pack, m_packet_queue>>
      /\ pc \in [Threads -> PCs] /\ p \in [Threads -> Packets]
      /\ "user" \in Threads /\ emits \in Nat
  BY BoundsAssumption DEF UserEmit, At, socketVars, TypeOK, Threads
<1>1. Hand = {} /\ Coming = {}
  BY <1>0 DEF Hand, Coming, SendSteps
<1>2. CASE m_client
  <2>1. /\ p'["user"].n = emits + 1 /\ p'["net"] = p["net"]
        /\ pc'["user"] \in {"id", "guard"}
    BY <1>0, <1>2 DEF Emit, Goto, Packet, Threads
  <2>2. Hand' = {} /\ Coming' \subseteq {emits + 1}
    BY <2>1 DEF Hand, Coming, UserOf
  <2>3. /\ UsersIn(Posted(asio)) \subseteq EmitsIn(Posted(asio))
        /\ UsersIn(m_packet_queue) \subseteq EmitsIn(m_packet_queue)
    BY DEF UsersIn, EmitsIn, EmitsOf, UsersEmit
  <2>4. /\ UsersIn(Posted(asio)) \subseteq 1..emits
        /\ UsersIn(m_packet_queue) \subseteq 1..emits
    BY <2>3, PlacesApart, PlacesFacts DEF PlaceNames
  <2>5. /\ Below(UsersIn(Posted(asio)), Coming')
        /\ Below(UsersIn(m_packet_queue), Coming')
    BY <1>0, <2>2, <2>4 DEF Below
  <2>6. LinedUp(Posted(asio'), Hand', m_packet_queue', Coming')
    BY <1>0, <2>2, <2>5, LineMeans DEF LineKept, LinedUp, Below
  <2> QED BY <2>1, <2>6, LineMeans DEF LineKept
<1>3. CASE ~m_client
  BY <1>0, <1>1, <1>3, LineStays DEF Emit, Hand, Coming, LineKept
<1> QED BY <1>2, <1>3

(* The network thread takes the user's packets out of the line, and its    *)
(* own are none of the user's.                                             *)
LEMMA LineSendNet ==
  ASSUME TypeOK, LineKept, SendPacket("net")
  PROVE  LineKept'
<1>0. /\ pc \in [Threads -> PCs] /\ front_pack \in [Threads -> Packets]
      /\ p \in [Threads -> Packets] /\ m_packet_queue \in Seq(Packets)
      /\ "user" \in Threads /\ "net" \in Threads
  BY DEF TypeOK, Threads
<1>1. /\ pc'["user"] = pc["user"] /\ p' = p
      /\ front_pack'["user"] = front_pack["user"] /\ asio' = asio
  BY <1>0
     DEF SendPacket, TakeId, SendGuard, SendCheck, Drain, Pop, SendFront,
         SendLast, SendOrCrash, ClientSend, SendUnchanged, Push, Goto, sendVars
<1>2. Hand' = Hand /\ Coming' = Coming
  BY <1>1 DEF Hand, Coming
<1>3. \/ m_packet_queue' = m_packet_queue
      \/ m_packet_queue # <<>> /\ m_packet_queue' = Tail(m_packet_queue)
      \/ m_packet_queue' = Append(m_packet_queue, p["net"])
  BY DEF SendPacket, TakeId, SendGuard, SendCheck, Drain, Pop, SendFront,
         SendLast, SendUnchanged, Push, socketVars
<1>4. /\ UsersIn(m_packet_queue') \subseteq UsersIn(m_packet_queue)
      /\ Ordered(m_packet_queue) => Ordered(m_packet_queue')
  <2>1. UserOf(p["net"]) = {}
    BY DEF LineKept, UserOf
  <2>2. CASE m_packet_queue # <<>> /\ m_packet_queue' = Tail(m_packet_queue)
    BY <1>0, <2>2, TailUsers
  <2>3. CASE m_packet_queue' = Append(m_packet_queue, p["net"])
    BY <1>0, <2>1, <2>3, AppendUsers DEF Below
  <2> QED BY <1>3, <2>2, <2>3
<1> QED BY <1>1, <1>2, <1>4, LineStays DEF LineKept

(* The user moves its packets along the line.                              *)
LEMMA LineSendUser ==
  ASSUME TypeOK, LineKept, SendPacket("user")
  PROVE  LineKept'
<1>0. /\ pc \in [Threads -> PCs] /\ front_pack \in [Threads -> Packets]
      /\ p \in [Threads -> Packets] /\ m_packet_queue \in Seq(Packets)
      /\ "user" \in Threads /\ "net" \in Threads /\ asio \in Queues
      /\ pc["user"] \notin {"open.drain", "open.front"}
  BY DEF TypeOK, Threads, LineKept
<1>1. p' = p
  BY DEF SendPacket, TakeId, SendGuard, SendCheck, Drain, Pop, SendFront,
         SendLast, SendUnchanged, Push, sendVars
<1>2. CASE TakeId("user") \/ SendGuard("user") \/ SendCheck("user")
  <2>1. /\ pc["user"] \in {"id", "guard", "check"}
        /\ pc'["user"] \in {"guard", "check", "drain", "push", "idle",
                            "close.timer"}
        /\ UNCHANGED <<asio, front_pack, m_packet_queue>>
    BY <1>0, <1>2, ReturnFacts
       DEF TakeId, SendGuard, SendCheck, At, Goto, sendVars, socketVars
  <2>2. Hand' = {} /\ Coming' \subseteq Coming
    BY <1>1, <2>1 DEF Hand, Coming, SendSteps
  <2> QED BY <1>1, <2>1, <2>2, LineStays
<1>3. CASE Drain("user")
  <2>1. /\ pc["user"] = "drain" /\ asio' = asio
        /\ Pop("user", "send", "front")
    BY <1>0, <1>3 DEF Drain, At, Pop
  <2>2. Hand = {} /\ Coming' = Coming
    BY <1>0, <1>1, <2>1 DEF Hand, Coming, SendSteps, Pop, Goto
  <2>3. CASE m_packet_queue = <<>>
    <3>1. m_packet_queue' = <<>> /\ pc'["user"] = "send"
      BY <1>0, <2>1, <2>3 DEF Pop, Goto
    <3>2. Hand' = {} /\ UsersIn(m_packet_queue') = {}
      BY <3>1, OneUser DEF Hand
    <3>3. UserInLine'
      BY <2>1, <2>2, <2>3, <3>1, <3>2, LineMeans DEF LineKept, LinedUp, Below
    <3> QED BY <1>1, <3>1, <3>2, <3>3 DEF LineKept
  <2>4. CASE m_packet_queue # <<>>
    <3>1. /\ m_packet_queue' = Tail(m_packet_queue) /\ pc'["user"] = "front"
          /\ front_pack'["user"] = Head(m_packet_queue)
      BY <1>0, <2>1, <2>4 DEF Pop, Goto
    <3>2. /\ Hand' = UserOf(Head(m_packet_queue))
          /\ UsersIn(m_packet_queue) =
               UserOf(Head(m_packet_queue)) \cup UsersIn(m_packet_queue')
          /\ Ordered(m_packet_queue) =>
               Ordered(m_packet_queue') /\ Below(Hand', UsersIn(m_packet_queue'))
      BY <1>0, <2>4, <3>1, TailUsers DEF Hand
    <3>3. UserInLine'
      BY <2>1, <2>2, <3>2, LineMeans DEF LineKept, LinedUp, Below
    <3> QED BY <1>1, <3>1, <3>3 DEF LineKept
  <2> QED BY <2>3, <2>4
<1>4. ASSUME NEW pkt \in Packets, NEW label, SendOrCrash("user", pkt, label),
             UserOf(pkt) = Hand \/ UserOf(pkt) = Coming,
             SendUnchanged, m_client
      PROVE  /\ UsersIn(Posted(asio')) = UsersIn(Posted(asio)) \cup UserOf(pkt)
             /\ Ordered(Posted(asio'))
             /\ pc'["user"] = label
  <2>1. /\ asio' = Post(asio, "send_impl", pkt)
        /\ pc' = [pc EXCEPT !["user"] = label]
    BY <1>4 DEF SendOrCrash, ClientSend, Goto
  <2>2. Posted(asio') = Append(Posted(asio), pkt) /\ Posted(asio) \in Seq(Packets)
    <3>1. Handler("send_impl", pkt) \in Handlers
          /\ PostedBy(Handler("send_impl", pkt)) = pkt
      BY PacketFacts DEF PostedBy, Handler
    <3> QED BY <1>0, <2>1, <3>1, PostFacts, PostedType
  <2>3. Ordered(Posted(asio)) /\ Below(UsersIn(Posted(asio)), UserOf(pkt))
    BY <1>4, LineMeans DEF LineKept, LinedUp
  <2> DEFINE s == Posted(asio)
  <2> HIDE DEF s
  <2>4. /\ UsersIn(Append(s, pkt)) = UsersIn(s) \cup UserOf(pkt)
        /\ Ordered(s) /\ Below(UsersIn(s), UserOf(pkt)) =>
             Ordered(Append(s, pkt))
    <3>1. s \in Seq(Packets)
      BY <2>2 DEF s
    <3> QED BY <3>1, AppendUsers
  <2>5. pc'["user"] = label
    BY <1>0, <2>1
  <2> QED BY <2>2, <2>3, <2>4, <2>5 DEF s
<1>5. CASE SendFront("user") \/ SendLast("user")
  <2>0. UNCHANGED <<front_pack, m_packet_queue>> /\ SendUnchanged
    BY <1>5 DEF SendFront, SendLast, SendUnchanged, sendVars, socketVars
  <2>1. CASE ~m_client
    <3>1. UNCHANGED <<asio, pc>>
      BY <1>5, <2>1 DEF SendFront, SendLast, SendOrCrash
    <3> QED
      BY <1>1, <2>0, <3>1, LineStays DEF Hand, Coming, LineKept
  <2>2. CASE SendFront("user") /\ m_client
    <3>1. pc["user"] = "front" /\ SendOrCrash("user", front_pack["user"], "drain")
      BY <1>0, <2>2 DEF SendFront, At
    <3>2. /\ Hand = UserOf(front_pack["user"])
          /\ front_pack["user"] \in Packets /\ Coming = UserOf(p["user"])
      BY <1>0, <3>1 DEF Hand, Coming, SendSteps
    <3>3. /\ UsersIn(Posted(asio')) = UsersIn(Posted(asio)) \cup Hand
          /\ Ordered(Posted(asio')) /\ pc'["user"] = "drain"
      BY <1>4, <2>0, <2>2, <3>1, <3>2
    <3>4. Hand' = {} /\ Coming' = Coming
      BY <1>1, <3>2, <3>3 DEF Hand, Coming, SendSteps
    <3>5. UserInLine'
      BY <2>0, <3>3, <3>4, LineMeans DEF LineKept, LinedUp, Below
    <3> QED BY <1>1, <3>3, <3>5 DEF LineKept
  <2>3. CASE SendLast("user") /\ m_client
    <3>1. pc["user"] = "send" /\ SendOrCrash("user", p["user"], Return("user"))
      BY <2>3 DEF SendLast, At
    <3>2. /\ Hand = {} /\ Coming = UserOf(p["user"]) /\ p["user"] \in Packets
          /\ UsersIn(m_packet_queue) = {}
      BY <1>0, <3>1 DEF Hand, Coming, SendSteps, LineKept
    <3>3. /\ UsersIn(Posted(asio')) = UsersIn(Posted(asio)) \cup Coming
          /\ Ordered(Posted(asio')) /\ pc'["user"] = Return("user")
      BY <1>4, <2>0, <2>3, <3>1, <3>2
    <3>4. pc'["user"] \in {"idle", "close.timer"}
      BY <3>3, ReturnFacts
    <3>5. Hand' = {} /\ Coming' = {}
      BY <3>4 DEF Hand, Coming, SendSteps
    <3>6. UserInLine'
      BY <2>0, <3>2, <3>3, <3>5, LineMeans DEF LineKept, LinedUp, Below
    <3> QED BY <1>1, <3>4, <3>6 DEF LineKept
  <2> QED BY <1>5, <2>1, <2>2, <2>3
<1>6. CASE Push("user")
  <2>1. /\ pc["user"] = "push" /\ asio' = asio
        /\ m_packet_queue' = Append(m_packet_queue, p["user"])
        /\ pc'["user"] = Return("user")
    BY <1>0, <1>6 DEF Push, At, Goto
  <2>2. pc'["user"] \in {"idle", "close.timer"}
    BY <2>1, ReturnFacts
  <2>3. /\ Hand = {} /\ Coming = UserOf(p["user"]) /\ Hand' = {} /\ Coming' = {}
    BY <2>1, <2>2 DEF Hand, Coming, SendSteps
  <2>4. Ordered(m_packet_queue) /\ Below(UsersIn(m_packet_queue), UserOf(p["user"]))
    BY <2>3, LineMeans DEF LineKept, LinedUp
  <2>5. /\ UsersIn(m_packet_queue') = UsersIn(m_packet_queue) \cup Coming
        /\ Ordered(m_packet_queue')
    BY <1>0, <2>1, <2>3, <2>4, AppendUsers
  <2>6. UserInLine'
    BY <2>1, <2>3, <2>5, LineMeans DEF LineKept, LinedUp, Below
  <2> QED BY <1>1, <2>2, <2>6 DEF LineKept
<1> QED BY <1>2, <1>3, <1>5, <1>6 DEF SendPacket

(* The user's steps keep its line.                                         *)
LEMMA LineUser ==
  ASSUME TypeOK, InOnePlace, LineKept, UserStart \/ UserStep
  PROVE  LineKept'
<1>0. /\ pc \in [Threads -> PCs] /\ p \in [Threads -> Packets]
      /\ "user" \in Threads /\ asio \in Queues
  BY DEF TypeOK, Threads
<1>1. CASE UserEmit
  BY <1>1, LineUserEmit
<1>2. CASE SendPacket("user")
  BY <1>2, LineSendUser
<1>3. ASSUME asio' = asio \/ KeepsPosted(asio, asio'),
             UNCHANGED m_packet_queue, p'["net"] = p["net"],
             \/ UNCHANGED <<pc, p, front_pack>>
             \/ /\ pc'["user"] \in {"new.connect", "new.insert", "idle",
                                    "close.check", "guard"}
                /\ pc'["user"] = "guard" => p'["user"] = Disconnect
      PROVE  LineKept'
  <2>1. UserOf(Disconnect) = {}
    BY DEF UserOf, UsersEmit, Disconnect, Packet
  <2>2. Hand' \subseteq Hand /\ Coming' \subseteq Coming
    BY <1>3, <2>1 DEF Hand, Coming, SendSteps
  <2>3. /\ pc'["user"] \notin {"open.drain", "open.front"}
        /\ pc'["user"] = "send" => pc["user"] = "send"
    BY <1>3 DEF LineKept
  <2> QED BY <1>3, <2>2, <2>3, LineStays
<1>4. CASE NewSocket \/ NewInsert \/ CloseCheck
  <2>1. UNCHANGED <<asio, m_packet_queue>>
    BY <1>4 DEF NewSocket, NewInsert, CloseCheck, socketVars
  <2>2. CASE NewSocket \/ NewInsert
    <3>1. UNCHANGED p /\ pc'["user"] \in {"new.connect", "new.insert", "idle"}
      BY <1>0, <2>2 DEF NewSocket, NewInsert, Goto, sendVars
    <3> QED BY <1>3, <2>1, <3>1
  <2>3. CASE CloseCheck
    <3>1. CASE m_client /\ m_connected
      <4>1. /\ p' = [p EXCEPT !["user"] = Disconnect]
            /\ pc' = [pc EXCEPT !["user"] = "guard"]
        BY <2>3, <3>1 DEF CloseCheck, Goto
      <4>2. p'["net"] = p["net"] /\ p'["user"] = Disconnect
        BY <1>0, <4>1 DEF Threads
      <4>3. pc'["user"] = "guard"
        BY <1>0, <4>1
      <4> QED BY <1>3, <2>1, <4>2, <4>3
    <3>2. CASE ~(m_client /\ m_connected)
      <4>1. UNCHANGED p /\ pc' = [pc EXCEPT !["user"] = "idle"]
        BY <2>3, <3>2 DEF CloseCheck, Goto
      <4>2. pc'["user"] = "idle"
        BY <1>0, <4>1
      <4> QED BY <1>3, <2>1, <4>1, <4>2
    <3> QED BY <3>1, <3>2
  <2> QED BY <1>4, <2>2, <2>3
<1>5. ASSUME NEW call \in UserCalls, UserClose(call) PROVE LineKept'
  <2>1. /\ UNCHANGED <<asio, m_packet_queue, p>> /\ pc'["user"] = "close.check"
    BY <1>0, <1>5 DEF UserClose, Goto, sendVars, socketVars
  <2> QED BY <1>3, <2>1
<1>6. CASE CloseTimer
  <2>1. asio' = asio \/ KeepsPosted(asio, asio')
    BY <1>0, <1>6, CloseWaitFacts DEF CloseTimer, KeepsReady
  <2>2. /\ UNCHANGED <<m_packet_queue, p, front_pack>>
        /\ UNCHANGED pc \/ pc'["user"] = "idle"
    BY <1>0, <1>6 DEF CloseTimer, Goto, sendVars, socketVars
  <2> QED BY <1>3, <2>1, <2>2
<1>7. CASE NewConnect
  <2> DEFINE q == Post(asio, "send_impl", Connect)
             s == Posted(asio)
  <2>1. q \in Queues /\ Posted(q) = Append(s, Connect) /\ s \in Seq(Packets)
    <3>1. /\ Handler("send_impl", Connect) \in Handlers
          /\ PostedBy(Handler("send_impl", Connect)) = Connect
      BY PacketFacts DEF PostedBy, Handler
    <3> QED BY <1>0, <3>1, PostFacts, PostedType
  <2> HIDE DEF q, s
  <2>2. KeepsPosted(q, asio')
    BY <1>7, <2>1, AwaitConnectFacts DEF NewConnect, KeepsReady, q
  <2>3. UserOf(Connect) = {} /\ Connect \in Packets
    BY PacketFacts DEF UserOf, UsersEmit, Connect, Packet
  <2>4. /\ UsersIn(Posted(q)) = UsersIn(s)
        /\ Ordered(s) => Ordered(Posted(q))
    <3>1. Below(UsersIn(s), UserOf(Connect))
      BY <2>3 DEF Below
    <3>2. /\ UsersIn(Append(s, Connect)) = UsersIn(s) \cup UserOf(Connect)
          /\ Ordered(s) => Ordered(Append(s, Connect))
      BY <2>1, <2>3, <3>1, AppendUsers
    <3>3. Posted(q) = Append(s, Connect)
      BY <2>1
    <3> QED BY <2>3, <3>2, <3>3
  <2>5. /\ UsersIn(Posted(asio')) \subseteq UsersIn(s)
        /\ Ordered(s) => Ordered(Posted(asio'))
    BY <2>2, <2>4 DEF KeepsPosted
  <2>6. /\ UNCHANGED <<m_packet_queue, p>> /\ pc'["user"] = "new.insert"
    BY <1>0, <1>7 DEF NewConnect, Goto, sendVars, socketVars
  <2>7. Hand' = {} /\ Coming' = {}
    BY <2>6 DEF Hand, Coming, SendSteps
  <2>8. UserInLine'
    BY <2>5, <2>6, <2>7, LineMeans DEF LineKept, LinedUp, Below, s
  <2> QED BY <2>6, <2>8 DEF LineKept
<1> QED
  BY <1>1, <1>2, <1>4, <1>5, <1>6, <1>7 DEF UserStart, UserStep

(* The network thread's steps take from the line, and add nothing.         *)
LEMMA LineNet ==
  ASSUME TypeOK, LineKept, "net" \notin AckThreads, NetStep
  PROVE  LineKept'
<1>0. /\ pc \in [Threads -> PCs] /\ p \in [Threads -> Packets]
      /\ "net" \in Threads /\ "user" \in Threads /\ asio \in Queues
  BY DEF TypeOK, Threads
<1>1. CASE SendPacket("net")
  BY <1>1, LineSendNet
<1>2. ASSUME asio' = asio \/ KeepsPosted(asio, asio'),
             m_packet_queue' \in {m_packet_queue, <<>>},
             UNCHANGED front_pack, p'["user"] = p["user"],
             p'["net"] = p["net"] \/ ~UsersEmit(p'["net"]),
             UNCHANGED pc \/ \E label : Goto("net", label)
      PROVE  LineKept'
  <2>1. pc'["user"] = pc["user"]
    BY <1>0, <1>2 DEF Goto
  <2>2. Hand' = Hand /\ Coming' = Coming
    BY <1>2, <2>1 DEF Hand, Coming
  <2>3. /\ UsersIn(m_packet_queue') \subseteq UsersIn(m_packet_queue)
        /\ Ordered(m_packet_queue) => Ordered(m_packet_queue')
    BY <1>2, OneUser
  <2> QED BY <1>2, <2>1, <2>2, <2>3, LineStays DEF LineKept
<1>3. CASE SendImpl
  <2> DEFINE s == Posted(asio)
  <2>1. asio' = PopReady(asio) /\ asio.ready # <<>>
        /\ UNCHANGED <<pc, p, front_pack, m_packet_queue>>
    BY <1>3 DEF SendImpl, Runs, Popped, sendVars, socketVars
  <2>2. s \in Seq(Packets) /\ s # <<>> /\ Posted(asio') = Tail(s)
    BY <1>0, <2>1, PopFacts, PostedType
  <2> HIDE DEF s
  <2>3. /\ UsersIn(Posted(asio')) \subseteq UsersIn(s)
        /\ Ordered(s) => Ordered(Posted(asio'))
    BY <2>2, TailUsers
  <2>4. Hand' = Hand /\ Coming' = Coming
    BY <2>1 DEF Hand, Coming
  <2>5. UserInLine'
    BY <2>1, <2>3, <2>4, LineMeans DEF LineKept, LinedUp, Below, s
  <2> QED BY <2>1, <2>5 DEF LineKept
<1>4. CASE OnEvent
  <2>1. /\ asio' = PopReady(asio) /\ asio.ready # <<>>
        /\ Head(asio.ready).op # "send_impl"
        /\ UNCHANGED <<front_pack, m_packet_queue>>
        /\ Emit("net") \/ UNCHANGED <<p, pc>>
    BY <1>4 DEF OnEvent, Receives, Runs, Popped, socketVars
  <2>2. KeepsPosted(asio, asio')
    BY <2>1, PopKeeps DEF KeepsReady
  <2>3. /\ p'["user"] = p["user"]
        /\ p'["net"] = p["net"] \/ ~UsersEmit(p'["net"])
        /\ UNCHANGED pc \/ \E label : Goto("net", label)
    BY <1>0, <2>1 DEF Emit, Packet, UsersEmit
  <2> QED BY <1>2, <2>1, <2>2, <2>3
<1>5. CASE InvokeOnOpen
  <2>1. asio' = asio \/ KeepsPosted(asio, asio')
    BY <1>0, <1>5, AwaitConnectFacts DEF InvokeOnOpen, SendConnect, KeepsReady
  <2> QED BY <1>2, <1>5, <2>1 DEF InvokeOnOpen, sendVars
<1>6. CASE OnOpen \/ OnDisconnect \/ Ignored \/ OnDisconnectPacket \/ OnAck
           \/ WaitAborted \/ OnCloseWait
  <2>1. KeepsPosted(asio, asio')
    BY <1>6, PopKeeps
       DEF OnOpen, OnDisconnect, Ignored, OnDisconnectPacket, OnAck,
           WaitAborted, OnCloseWait, Receives, Runs, Popped, KeepsReady
  <2>2. /\ UNCHANGED <<p, front_pack, m_packet_queue>>
        /\ UNCHANGED pc \/ \E label : Goto("net", label)
    BY <1>6
       DEF OnOpen, OnDisconnect, Ignored, OnDisconnectPacket, OnAck,
           WaitAborted, OnCloseWait, socketVars, sendVars
  <2> QED BY <1>2, <2>1, <2>2
<1>7. CASE OnConnected \/ TimeoutConnection
  <2>1. KeepsPosted(asio, asio')
    BY <1>7, PopResetKeeps
       DEF OnConnected, TimeoutConnection, Receives, Runs, KeepsReady
  <2> QED
    BY <1>2, <1>7, <2>1 DEF OnConnected, TimeoutConnection, socketVars, sendVars
<1>8. CASE InvokeOnDisconnect \/ ClearQueue \/ CloseNull \/ CloseReset
           \/ CloseRest
  <2>1. asio' = asio \/ KeepsPosted(asio, asio')
    BY <1>0, <1>8, ResetTimerFacts
       DEF InvokeOnDisconnect, ClearQueue, CloseNull, CloseReset, CloseRest,
           KeepsReady
  <2>2. /\ UNCHANGED <<p, front_pack>>
        /\ m_packet_queue' \in {m_packet_queue, <<>>}
        /\ \E label : Goto("net", label)
    BY <1>8
       DEF InvokeOnDisconnect, ClearQueue, CloseNull, CloseReset, CloseRest,
           sendVars
  <2> QED BY <1>2, <2>1, <2>2
<1> QED
  BY <1>1, <1>3, <1>4, <1>5, <1>6, <1>7, <1>8 DEF NetStep, OnMessage

(* Every step keeps the user's line.                                       *)
LEMMA LineStep ==
  ASSUME TypeOK, InOnePlace, LineKept, "net" \notin AckThreads, [Next]_vars
  PROVE  LineKept'
<1>1. CASE UserStart \/ UserStep
  BY <1>1, LineUser
<1>2. CASE NetStep
  BY <1>2, LineNet
<1>3. CASE Surroundings
  BY <1>3, SurroundingsKeep, LineStays
     DEF sendVars, socketVars, Hand, Coming, LineKept
<1>4. CASE UNCHANGED vars
  BY <1>4, LineStays
     DEF vars, sendVars, socketVars, Hand, Coming, LineKept
<1> QED BY <1>1, <1>2, <1>3, <1>4 DEF Next

-----------------------------------------------------------------------------
(* The invariant and what it means.                                        *)

(* The invariant holds at the start.                                       *)
LEMMA InitIInv == Init => IInv
<1> SUFFICES ASSUME Init PROVE IInv
  OBVIOUS
<1>1. TypeOK
  <2>1. asio \in Queues
    BY DEF Init, Queues, TimerStatus
  <2>2. /\ p \in [Threads -> Packets] /\ front_pack \in [Threads -> Packets]
        /\ pc \in [Threads -> PCs]
    BY PacketFacts DEF Init, PCs
  <2>3. server \in [connects : Nat, joined : BOOLEAN,
                    events : SUBSET (Emits \X Emits)]
    BY DEF Init, NewServer
  <2>4. m_acks \in [Emits -> 0..MaxEmits]
    BY BoundsAssumption DEF Init, Emits
  <2>5. wire \in Seq(Packets \cup {Packet("session", 0, 0)})
    BY DEF Init
  <2>6. m_packet_queue \in Seq(Packets)
    BY DEF Init
  <2>7. /\ s_global_event_id \in 1..(MaxEmits + 1) /\ closes \in Nat
        /\ emits \in 0..MaxEmits /\ sessions \in 0..MaxSessions
        /\ close_calls \in 0..MaxCloses
    BY BoundsAssumption DEF Init
  <2>8. /\ m_con_state \in {"opened", "closing", "closed"}
        /\ m_sockets \in BOOLEAN /\ m_nsp \in Namespaces
        /\ m_client \in BOOLEAN /\ m_connected \in BOOLEAN
        /\ session \in Sessions /\ crashed \in BOOLEAN
        /\ acked \subseteq Emits \X Emits
    BY DEF Init, Sessions
  <2> QED
    BY <2>1, <2>2, <2>3, <2>4, <2>5, <2>6, <2>7, <2>8 DEF TypeOK
<1>2. IdsIssued /\ ClosesOnce /\ QueueDrained
  BY DEF Init, IdsIssued, ClosesOnce, QueueDrained, Threads
<1>3. Posted(asio) = <<>>
  BY DEF Init, Posted
<1>4. InOnePlace
  <2>1. /\ ToSend("user") = {} /\ ToSend("net") = {}
        /\ InHand("user") = {} /\ InHand("net") = {}
    BY DEF Init, ToSend, InHand, SendSteps, Threads
  <2>2. \A a \in PlaceNames : Places[a] = {}
    BY <1>3, <2>1, EmptyEmits, PlacesFacts DEF Init, PlaceNames
  <2> QED BY <1>3, <2>2, EmptyEmits, PlacesApart DEF Init
<1>5. IdsOwned
  <2>1. Traffic(asio) = {}
    BY DEF Init, Traffic
  <2> QED
    BY <2>1
       DEF Init, IdsOwned, Owns, AckIsOwn, NewServer, Connect, Packet, Threads
<1>6. ConnectAsked
  <2>1. /\ asio.ready = <<>> /\ wire = <<>> /\ Traffic(asio) = {}
        /\ "idle" \notin SendsNet
    BY DEF Init, Traffic, SendsNet, SendSteps
  <2>2. Written("event") = {} /\ Written("disconnect") = {}
    BY <2>1 DEF Written
  <2>3. Alive /\ Unborn
    BY <2>1 DEF Init, Alive, Unborn, SocketMutexFree, Threads
  <2>4. ~IsRoot => AskedBefore /\ AskedSoon
    BY <2>1
       DEF Init, AskedBefore, AskedSoon, Spoken, NewServer, Threads
  <2> QED
    BY <2>1, <2>2, <2>3, <2>4 DEF ConnectAsked, InLine, ConnectFirst
<1>7. LineKept
  <2>1. /\ Posted(asio) = <<>> /\ m_packet_queue = <<>>
        /\ pc["user"] = "idle" /\ p["net"] = Connect
    BY <1>3 DEF Init, Threads
  <2>2. Hand = {} /\ Coming = {} /\ ~UsersEmit(Connect)
    BY <2>1 DEF Hand, Coming, SendSteps, UsersEmit, Connect, Packet
  <2>3. UserInLine
    BY <2>1, <2>2, OneUser, LineMeans DEF LinedUp, Below
  <2> QED BY <2>1, <2>2, <2>3 DEF LineKept
<1> QED BY <1>1, <1>2, <1>4, <1>5, <1>6, <1>7 DEF IInv

(* Every step preserves it.                                                *)
LEMMA StepIInv == IInv /\ [Next]_vars => IInv'
<1> SUFFICES ASSUME IInv, [Next]_vars PROVE IInv'
  OBVIOUS
<1>1. TypeOK' /\ IdsIssued'
  BY TypeStep DEF IInv
<1>2. ClosesOnce' /\ QueueDrained' /\ InOnePlace'
  BY ClosesStep, DrainedStep, InOnePlaceStep DEF IInv
<1>3. AckThreads # Threads => IdsOwned'
  BY <1>1, OwnedStep DEF IInv
<1>4. ConnectAsked'
  BY ConnectAskedStep DEF IInv
<1>5. "net" \notin AckThreads => LineKept'
  BY LineStep DEF IInv
<1> QED BY <1>1, <1>2, <1>3, <1>4, <1>5 DEF IInv

(* The invariant holds in every state the socket can reach: emits and the  *)
(* queue's bounds have their types, on_close runs once, the queue stays    *)
(* drained, each emit is in one place, the namespace is asked for in time, *)
(* each id belongs to one emit.                                            *)
THEOREM Invariance == Spec => []IInv
<1>1. Init => IInv
  BY InitIInv
<1>2. IInv /\ [Next]_vars => IInv'
  BY StepIInv
<1> QED BY <1>1, <1>2, PTL DEF Spec

(* What emit() was given is written to the server at most once, though two *)
(* threads empty m_packet_queue and sessions come and go (send_packet,     *)
(* on_connected, client_impl::send_impl).                                  *)
THEOREM NothingSentTwice == Spec => []WrittenOnce
<1>1. IInv => WrittenOnce
  BY DEF IInv, InOnePlace, Once, WrittenOnce, Written
<1> QED BY <1>1, Invariance, PTL

(* The socket close listener is called at most once, whichever of the      *)
(* server's disconnect, the connection timeout and close()'s timer comes   *)
(* first (socket::impl::on_close).                                         *)
THEOREM ClosesAtMostOnce == Spec => []CloseListenerOnce
<1>1. IInv => CloseListenerOnce
  BY DEF IInv, ClosesOnce, CloseListenerOnce
<1> QED BY <1>1, Invariance, PTL

(* send_packet's unlocked test of m_connected leaves at most one packet    *)
(* behind in a queue that on_connected has emptied.                        *)
THEOREM StrandsAtMostOne == Spec => []StrandedAtMostOne
<1>1. IInv => StrandedAtMostOne
  BY DEF IInv, QueueDrained, StrandedAtMostOne, At
<1> QED BY <1>1, Invariance, PTL

(* When one thread asks for acknowledgements, on_socketio_ack runs the     *)
(* callback of the emit the server answers.  (When both do they race for   *)
(* s_global_event_id, and it does not.)                                    *)
THEOREM AnswersReachTheirEmit ==
  ASSUME AckThreads # Threads
  PROVE  Spec => []AckIsOwn
<1>1. IInv => AckIsOwn
  BY DEF IInv, IdsOwned
<1> QED BY <1>1, Invariance, PTL

(* Nothing is sent on a namespace, in any session, before the socket asked *)
(* for it, though packets are posted in one session and written in another *)
(* (send_impl, on_connected, send_connect).                                *)
THEOREM NamespaceFirst == Spec => []ConnectFirst
<1>1. IInv => ConnectFirst
  BY DEF IInv, ConnectAsked
<1> QED BY <1>1, Invariance, PTL

(* Wherever socket() and client_impl::on_open meet, one of them has sent   *)
(* the CONNECT of the socket's namespace when both are through.            *)
THEOREM SocketsRemembered == Spec => []NoSocketForgotten
<1>1. ASSUME IInv, ~IsRoot, m_sockets, m_client, m_con_state = "opened",
             session = "up", ~SendImplQueued, pc["net"] # "invoke.on_open"
      PROVE  Asked
  <2>1. closes = 0
    BY <1>1 DEF IInv, ClosesOnce
  <2>2. ~ConnectAhead(asio)
    BY <1>1 DEF SendImplQueued, ConnectAhead, Handler
  <2> QED BY <1>1, <2>1, <2>2 DEF IInv, ConnectAsked, AskedSoon
<1>2. IInv => NoSocketForgotten
  BY <1>1 DEF NoSocketForgotten, Asked
<1> QED BY <1>2, Invariance, PTL

(* What the user's thread emits is sent in its order, but for what the     *)
(* network thread takes off the queue meanwhile (send_packet): where only  *)
(* the user's thread asks for acknowledgements, its emits, which those     *)
(* with an id are, stay in line.                                           *)
THEOREM EmitsStayInLine ==
  ASSUME "net" \notin AckThreads
  PROVE  Spec => []UserInLine
<1>1. IInv => UserInLine
  BY DEF IInv, LineKept
<1> QED BY <1>1, Invariance, PTL
=============================================================================
