------------------------------ MODULE SioSocket ------------------------------
(***************************************************************************)
(* sio::socket::impl (src/sio_socket.cpp): one namespace of a client, from *)
(* client_impl::socket(nsp) to its on_close, over the sessions that the    *)
(* client opens and loses underneath it.                                   *)
(*                                                                         *)
(* The user's thread calls socket(), emit() and close(); the network       *)
(* thread runs the handlers, and the listeners, which emit too.  Both go   *)
(* through send_packet, whose test of m_connected holds no lock.  A step   *)
(* reads or writes the shared state once, or holds m_packet_mutex or       *)
(* m_event_mutex throughout; m_socket_mutex, held longer, is modelled.     *)
(*                                                                         *)
(* A packet the user's thread sends is posted to the network thread, one   *)
(* that the network thread sends is written at once (dispatch); either is  *)
(* dropped unless m_con_state is con_opened by then (send_impl).           *)
(***************************************************************************)
EXTENDS Naturals, FiniteSets, Asio

CONSTANTS
  Namespaces,  \* the socket's may be "/", which the server connects
  AckThreads,  \* the threads whose emits ask for an acknowledgement
  UserCalls,   \* what the user's thread may call once it has the socket
  MaxEmits,    \* bound: emits, by the user and by listeners
  MaxSessions, \* bound: sessions the client opens
  MaxCloses,   \* bound: calls of socket::close() and client::close()
  MaxCalls     \* bound: emits and closes together, in each namespace

ASSUME NamespacesAssumption == Namespaces \subseteq {"/", "/nsp"}
ASSUME AckThreadsAssumption == AckThreads \subseteq {"user", "net"}
ASSUME UserCallsAssumption ==
         UserCalls \subseteq {"emit", "socket.close", "client.close"}
ASSUME BoundsAssumption ==
         /\ MaxEmits \in Nat /\ MaxSessions \in Nat /\ MaxCloses \in Nat
         /\ MaxCalls \in [Namespaces -> Nat]

VARIABLES
  m_con_state,       \* the client's: "opened", "closing" or "closed"
  m_sockets,         \* TRUE iff the socket is in the client's map
  m_nsp,             \* the socket's namespace
  m_client,          \* TRUE iff the socket's pointer to its client is set
  m_connected,
  m_packet_queue,
  m_acks,            \* the emit whose callback each id has, 0 for none
  s_global_event_id,
  asio,              \* the io_service; m_connection_timer's waits, see Timers
  pc,                \* where each thread is
  p,                 \* send_packet's argument, in each thread
  front_pack,        \* the packet each thread took off the queue
  session,           \* the client's connection, see Sessions
  server,            \* what the server has yet to answer
  wire,              \* history: what was written, with the sessions' starts
  acked,             \* history: <<emit whose callback ran, emit it answers>>
  closes,            \* history: calls of the socket close listener
  crashed,           \* a null m_client was dereferenced
  emits, sessions, close_calls   \* history: counters for the bounds

clientVars == <<m_con_state, m_sockets, m_nsp>>
socketVars == <<m_client, m_connected, m_packet_queue>>
ackVars == <<m_acks, s_global_event_id, acked>>
sendVars == <<p, front_pack>>
peerVars == <<session, server, wire>>
endVars == <<closes, crashed>>
bounds == <<emits, sessions, close_calls>>
vars == <<clientVars, socketVars, ackVars, asio, pc, sendVars, peerVars,
          endVars, bounds>>

Threads == {"user", "net"}
IsRoot == m_nsp = "/"

(* m_connection_timer is one deadline_timer used for two waits, named here *)
(* by their handlers.  The pointer is null iff both are "null".            *)
Timers == {"timeout_connection", "on_close"}
NoTimer(q) == \A t \in Timers : q.timer[t] = "null"
ResetTimer(q) == Destroy(Destroy(q, "timeout_connection"), "on_close")

(* A packet: emit number n asked for an answer with pack_id id (0: none).  *)
Packet(type, n, id) == [type |-> type, n |-> n, id |-> id]
Connect == Packet("connect", 0, 0)
Disconnect == Packet("disconnect", 0, 0)
Emits == 1..MaxEmits
Ids == 0..MaxEmits
Packets ==
  {Connect, Disconnect} \cup [type : {"event"}, n : Emits, id : Ids]

(* What the server sends: a connect, a disconnect, an event, or the ack of *)
(* an id it was sent by emit n.                                            *)
Messages ==
  {Connect, Disconnect, Packet("event", 0, 0)}
    \cup [type : {"ack"}, n : Emits, id : Emits]

Sessions == {"none", "opening", "up", "ending"}

Handlers ==
  [op : Timers, arg : {"ok", "aborted"}]
    \cup [op : {"on_open", "on_disconnect"}, arg : {"-"}]
    \cup [op : {"send_impl"}, arg : Packets]
    \cup [op : {"on_message"}, arg : Messages]

Queues == [timer : [Timers -> TimerStatus], ready : Seq(Handlers)]

SendSteps == {"id", "guard", "check", "drain", "front", "send", "push"}
PCs ==
  {"idle"} \cup SendSteps
    \cup {"new.connect", "new.insert", "close.check", "close.timer"}
    \cup {"invoke.on_open", "invoke.on_disconnect", "clear",
          "open.drain", "open.front",
          "close.null", "close.reset", "close.rest"}

TypeOK ==
  /\ m_con_state \in {"opened", "closing", "closed"}
  /\ m_sockets \in BOOLEAN
  /\ m_nsp \in Namespaces
  /\ m_client \in BOOLEAN
  /\ m_connected \in BOOLEAN
  /\ m_packet_queue \in Seq(Packets)
  /\ m_acks \in [Emits -> 0..MaxEmits]
  /\ s_global_event_id \in 1..(MaxEmits + 1)
  /\ asio \in Queues
  /\ pc \in [Threads -> PCs]
  /\ p \in [Threads -> Packets]
  /\ front_pack \in [Threads -> Packets]
  /\ session \in Sessions
  /\ server \in
       [connects : Nat, joined : BOOLEAN, events : SUBSET (Emits \X Emits)]
  /\ wire \in Seq(Packets \cup {Packet("session", 0, 0)})
  /\ acked \subseteq Emits \X Emits
  /\ closes \in Nat
  /\ crashed \in BOOLEAN
  /\ emits \in 0..MaxEmits
  /\ sessions \in 0..MaxSessions
  /\ close_calls \in 0..MaxCloses

(* The server's side of a session: connects to answer, whether the socket  *)
(* has joined the namespace, and the events that want an acknowledgement.  *)
(* It connects "/" unasked.                                                *)
NewServer(root) ==
  [connects |-> IF root THEN 1 ELSE 0, joined |-> FALSE, events |-> {}]

(* The socket object is made by socket(); until then nothing can reach it. *)
Init ==
  /\ m_con_state = "closed"
  /\ m_sockets = FALSE
  /\ m_nsp \in Namespaces
  /\ m_client = FALSE
  /\ m_connected = FALSE
  /\ m_packet_queue = <<>>
  /\ m_acks = [i \in Emits |-> 0]
  /\ s_global_event_id = 1
  /\ asio = [timer |-> [t \in Timers |-> "null"], ready |-> <<>>]
  /\ pc = [th \in Threads |-> "idle"]
  /\ p = [th \in Threads |-> Connect]
  /\ front_pack = [th \in Threads |-> Connect]
  /\ session = "none"
  /\ server = NewServer(FALSE)
  /\ wire = <<>>
  /\ acked = {}
  /\ closes = 0
  /\ crashed = FALSE
  /\ emits = 0
  /\ sessions = 0
  /\ close_calls = 0

(* A process that has crashed is nowhere, and takes no step.               *)
At(th, label) == ~crashed /\ pc[th] = label
Goto(th, label) == pc' = [pc EXCEPT ![th] = label]

-----------------------------------------------------------------------------
(* Sending.                                                                *)

(* client_impl::send_impl, on the network thread.  The server takes note   *)
(* of a connect, and of an event that asks for an answer.                  *)
WriteOut(pkt) ==
  IF m_con_state = "opened" /\ session = "up"
  THEN /\ wire' = Append(wire, pkt)
       /\ server' =
            CASE pkt.type = "connect" ->
                   [server EXCEPT !.connects = @ + 1]
              [] pkt.type = "event" /\ pkt.id # 0 ->
                   [server EXCEPT !.events = @ \cup {<<pkt.n, pkt.id>>}]
              [] pkt.type = "disconnect" ->
                   [server EXCEPT !.joined = FALSE]
              [] OTHER -> server
  ELSE UNCHANGED <<wire, server>>

(* m_client->send(pkt): encoded and dispatched.  q is the io_service as    *)
(* the caller leaves it.                                                   *)
ClientSend(th, pkt, q) ==
  IF th = "user"
  THEN asio' = Post(q, "send_impl", pkt) /\ UNCHANGED <<wire, server>>
  ELSE asio' = q /\ WriteOut(pkt)

(* The same through a pointer that on_close may have cleared since it was  *)
(* tested: the process dies.                                               *)
SendOrCrash(th, pkt, next) ==
  IF m_client
  THEN /\ ClientSend(th, pkt, asio)
       /\ Goto(th, next)
       /\ UNCHANGED crashed
  ELSE /\ crashed' = TRUE
       /\ UNCHANGED <<asio, wire, server, pc>>

(* Where send_packet returns to.                                           *)
Return(th) == IF p[th] = Disconnect THEN "close.timer" ELSE "idle"

(* emit(): the guard, then the id if an acknowledgement is wanted.         *)
Emit(th) ==
  /\ emits < MaxEmits /\ emits + close_calls < MaxCalls[m_nsp]
  /\ emits' = emits + 1
  /\ IF m_client
     THEN /\ p' = [p EXCEPT ![th] =
               Packet("event", emits + 1,
                      IF th \in AckThreads THEN s_global_event_id ELSE 0)]
          /\ Goto(th, IF th \in AckThreads THEN "id" ELSE "guard")
     ELSE UNCHANGED <<p, pc>>

(* s_global_event_id++.  (Mutants: it skips an id; it stays.)              *)
NextIdSkips(id) == id + 2
NextIdStays(id) == id
NextId(id) == id + 1

(* The counter was read; this is its write, and the callback is entered    *)
(* under the id that was read.                                             *)
TakeId(th) ==
  /\ At(th, "id")
  /\ s_global_event_id' = NextId(p[th].id)
  /\ m_acks' = [m_acks EXCEPT ![p[th].id] = p[th].n]
  /\ Goto(th, "guard")
  /\ UNCHANGED <<clientVars, socketVars, acked, asio, sendVars, peerVars,
                 endVars, bounds>>

(* send_packet: the guard, then the test of m_connected.                   *)
SendGuard(th) ==
  /\ At(th, "guard")
  /\ Goto(th, IF m_client THEN "check" ELSE Return(th))
  /\ UNCHANGED <<clientVars, socketVars, ackVars, asio, sendVars, peerVars,
                 endVars, bounds>>

SendCheck(th) ==
  /\ At(th, "check")
  /\ Goto(th, IF m_connected THEN "drain" ELSE "push")
  /\ UNCHANGED <<clientVars, socketVars, ackVars, asio, sendVars, peerVars,
                 endVars, bounds>>

(* send_packet and on_connected: one turn of the loop under m_packet_mutex.*)
(* (A mutant: the packet stays in the queue.)                              *)
Peek(th, empty, popped) ==
  /\ IF m_packet_queue = <<>>
     THEN Goto(th, empty) /\ UNCHANGED front_pack
     ELSE /\ front_pack' = [front_pack EXCEPT ![th] = Head(m_packet_queue)]
          /\ Goto(th, popped)
  /\ UNCHANGED <<clientVars, socketVars, ackVars, asio, p, peerVars, endVars,
                 bounds>>
Pop(th, empty, popped) ==
  /\ IF m_packet_queue = <<>>
     THEN Goto(th, empty) /\ UNCHANGED <<m_packet_queue, front_pack>>
     ELSE /\ front_pack' = [front_pack EXCEPT ![th] = Head(m_packet_queue)]
          /\ m_packet_queue' = Tail(m_packet_queue)
          /\ Goto(th, popped)
  /\ UNCHANGED <<clientVars, m_client, m_connected, ackVars, asio, p, peerVars,
                 endVars, bounds>>

(* (A mutant: only on_connected empties the queue.)                        *)
DrainOnConnected(th) ==
  \/ /\ At(th, "drain") /\ Goto(th, "send")
     /\ UNCHANGED <<clientVars, socketVars, ackVars, asio, sendVars, peerVars,
                    endVars, bounds>>
  \/ At(th, "open.drain") /\ Pop(th, "idle", "open.front")
Drain(th) ==
  \/ At(th, "drain") /\ Pop(th, "send", "front")
  \/ At(th, "open.drain") /\ Pop(th, "idle", "open.front")

SendUnchanged ==
  UNCHANGED <<clientVars, socketVars, ackVars, sendVars, session, closes,
              bounds>>

SendFront(th) ==
  /\ \/ At(th, "front") /\ SendOrCrash(th, front_pack[th], "drain")
     \/ At(th, "open.front") /\ SendOrCrash(th, front_pack[th], "open.drain")
  /\ SendUnchanged

SendLast(th) ==
  /\ At(th, "send")
  /\ SendOrCrash(th, p[th], Return(th))
  /\ SendUnchanged

Push(th) ==
  /\ At(th, "push")
  /\ m_packet_queue' = Append(m_packet_queue, p[th])
  /\ Goto(th, Return(th))
  /\ UNCHANGED <<clientVars, m_client, m_connected, ackVars, asio, sendVars,
                 peerVars, endVars, bounds>>

SendPacket(th) ==
  \/ TakeId(th) \/ SendGuard(th) \/ SendCheck(th)
  \/ Drain(th) \/ SendFront(th) \/ SendLast(th) \/ Push(th)

-----------------------------------------------------------------------------
(* The user's thread.                                                      *)

(* client_impl::socket holds m_socket_mutex while it makes the socket.     *)
(* (A mutant: nobody locks it.)                                            *)
NobodyLocks == TRUE
SocketMutexFree == pc["user"] \notin {"new.connect", "new.insert"}

(* send_connect: the packet, then a wait for the answer on a new timer.    *)
AwaitConnect(q) == Arm(ResetTimer(q), "timeout_connection")

(* socket(): the constructor, which asks whether the client is opened.     *)
NewSocket ==
  /\ At("user", "idle")
  /\ ~m_sockets /\ ~m_client /\ closes = 0
  /\ m_client' = TRUE
  /\ Goto("user", IF m_con_state = "opened" /\ ~IsRoot
                  THEN "new.connect" ELSE "new.insert")
  /\ UNCHANGED <<clientVars, m_connected, m_packet_queue, ackVars, asio,
                 sendVars, peerVars, endVars, bounds>>

NewConnect ==
  /\ At("user", "new.connect")
  /\ asio' = AwaitConnect(Post(asio, "send_impl", Connect))
  /\ Goto("user", "new.insert")
  /\ UNCHANGED <<clientVars, socketVars, ackVars, sendVars, peerVars, endVars,
                 bounds>>

NewInsert ==
  /\ At("user", "new.insert")
  /\ m_sockets' = TRUE
  /\ Goto("user", "idle")
  /\ UNCHANGED <<m_con_state, m_nsp, socketVars, ackVars, asio, sendVars, peerVars,
                 endVars, bounds>>

(* The user keeps the pointer, so it may call a socket that has closed.    *)
HasSocket == m_sockets \/ closes > 0

UserEmit ==
  /\ At("user", "idle") /\ HasSocket /\ "emit" \in UserCalls
  /\ Emit("user")
  /\ UNCHANGED <<clientVars, socketVars, ackVars, asio, front_pack, peerVars,
                 endVars, sessions, close_calls>>

(* socket::close(), or client::close() which first changes the client's    *)
(* state and then closes the sockets in its map (sockets_invoke_void).     *)
UserClose(call) ==
  /\ At("user", "idle") /\ call \in UserCalls
  /\ close_calls < MaxCloses /\ emits + close_calls < MaxCalls[m_nsp]
  /\ close_calls' = close_calls + 1
  /\ \/ call = "socket.close" /\ HasSocket /\ UNCHANGED m_con_state
     \/ call = "client.close" /\ m_sockets /\ m_con_state' = "closing"
  /\ Goto("user", "close.check")
  /\ UNCHANGED <<m_sockets, m_nsp, socketVars, ackVars, asio, sendVars, peerVars,
                 endVars, emits, sessions>>

CloseCheck ==
  /\ At("user", "close.check")
  /\ IF m_client /\ m_connected
     THEN p' = [p EXCEPT !["user"] = Disconnect] /\ Goto("user", "guard")
     ELSE Goto("user", "idle") /\ UNCHANGED p
  /\ UNCHANGED <<clientVars, socketVars, ackVars, asio, front_pack, peerVars,
                 endVars, bounds>>

(* close(): three seconds for the server to answer.  A new timer needs the *)
(* client's io_service.                                                    *)
CloseTimer ==
  /\ At("user", "close.timer")
  /\ IF m_client \/ ~NoTimer(asio)
     THEN /\ asio' = Arm(Destroy(asio, "timeout_connection"), "on_close")
          /\ Goto("user", "idle")
          /\ UNCHANGED crashed
     ELSE crashed' = TRUE /\ UNCHANGED <<asio, pc>>
  /\ UNCHANGED <<clientVars, socketVars, ackVars, sendVars, peerVars, closes,
                 bounds>>

UserStart ==
  NewSocket \/ UserEmit \/ \E call \in UserCalls \ {"emit"} : UserClose(call)
UserStep ==
  NewConnect \/ NewInsert \/ SendPacket("user") \/ CloseCheck \/ CloseTimer

-----------------------------------------------------------------------------
(* The network thread.                                                     *)

Runs(op, args) ==
  /\ At("net", "idle")
  /\ asio.ready # <<>>
  /\ Head(asio.ready).op = op
  /\ Head(asio.ready).arg \in args

Arg == Head(asio.ready).arg
Popped == asio' = PopReady(asio)

SendImpl ==
  /\ Runs("send_impl", Packets)
  /\ Popped
  /\ WriteOut(Arg)
  /\ UNCHANGED <<clientVars, socketVars, ackVars, pc, sendVars, session,
                 endVars, bounds>>

(* client_impl::on_open: the state, then (sockets_invoke_void) on_open of  *)
(* the socket if it is in the map by then.                                 *)
OnOpen ==
  /\ Runs("on_open", {"-"})
  /\ Popped
  /\ m_con_state' = "opened"
  /\ session' = "up"
  /\ server' = NewServer(IsRoot)
  /\ wire' = Append(wire, Packet("session", 0, 0))
  /\ Goto("net", "invoke.on_open")
  /\ UNCHANGED <<m_sockets, m_nsp, socketVars, ackVars, sendVars, endVars, bounds>>

(* send_connect on the network thread, whose dispatch writes at once.      *)
(* (A mutant: it posts.)                                                   *)
SendConnectPosts ==
  /\ asio' = AwaitConnect(Post(asio, "send_impl", Connect))
  /\ UNCHANGED <<wire, server>>
SendConnect == asio' = AwaitConnect(asio) /\ WriteOut(Connect)

(* For "/", on_open makes the socket that is not there (one that is made   *)
(* again after its on_close is not followed), and no socket asks           *)
(* for a connection.                                                       *)
InvokeOnOpen ==
  /\ At("net", "invoke.on_open")
  /\ SocketMutexFree
  /\ Goto("net", "idle")
  /\ IF m_sockets /\ m_client /\ ~IsRoot
     THEN SendConnect
     ELSE UNCHANGED <<asio, wire, server>>
  /\ IF IsRoot /\ closes = 0
     THEN m_sockets' = TRUE /\ m_client' = TRUE
     ELSE UNCHANGED <<m_sockets, m_nsp, m_client>>
  /\ UNCHANGED <<m_con_state, m_nsp, m_connected, m_packet_queue, ackVars, sendVars,
                 session, endVars, bounds>>

(* client_impl::on_close, and on_disconnect of the socket.                 *)
OnDisconnect ==
  /\ Runs("on_disconnect", {"-"})
  /\ Popped
  /\ m_con_state' = "closed"
  /\ session' = "none"
  /\ server' = NewServer(FALSE)
  /\ Goto("net", "invoke.on_disconnect")
  /\ UNCHANGED <<m_sockets, m_nsp, socketVars, ackVars, sendVars, wire, endVars,
                 bounds>>

InvokeOnDisconnect ==
  /\ At("net", "invoke.on_disconnect")
  /\ SocketMutexFree
  /\ IF m_sockets /\ m_client /\ m_connected
     THEN m_connected' = FALSE /\ Goto("net", "clear")
     ELSE UNCHANGED m_connected /\ Goto("net", "idle")
  /\ UNCHANGED <<clientVars, m_client, m_packet_queue, ackVars, asio, sendVars,
                 peerVars, endVars, bounds>>

ClearQueue ==
  /\ At("net", "clear")
  /\ m_packet_queue' = <<>>
  /\ Goto("net", "idle")
  /\ UNCHANGED <<clientVars, m_client, m_connected, ackVars, asio, sendVars,
                 peerVars, endVars, bounds>>

(* on_decode: the socket in the map, if any, gets the packet.              *)
Receives(type) ==
  /\ Runs("on_message", Messages)
  /\ Arg.type = type
  /\ SocketMutexFree

Ignored ==
  /\ Runs("on_message", Messages)
  /\ SocketMutexFree
  /\ ~(m_sockets /\ m_client)
  /\ Popped
  /\ UNCHANGED <<clientVars, socketVars, ackVars, pc, sendVars, peerVars,
                 endVars, bounds>>

(* on_connected: only the first connect of a session empties the queue.    *)
(* (A mutant: none does.)                                                  *)
NoDrain == "idle"
DrainIfNew == IF m_connected THEN "idle" ELSE "open.drain"
OnConnected ==
  /\ Receives("connect") /\ m_sockets /\ m_client
  /\ asio' = ResetTimer(PopReady(asio))
  /\ m_connected' = TRUE
  /\ Goto("net", DrainIfNew)
  /\ UNCHANGED <<clientVars, m_client, m_packet_queue, ackVars, sendVars,
                 peerVars, endVars, bounds>>

OnDisconnectPacket ==
  /\ Receives("disconnect") /\ m_sockets /\ m_client
  /\ Popped
  /\ Goto("net", "close.null")
  /\ UNCHANGED <<clientVars, socketVars, ackVars, sendVars, peerVars, endVars,
                 bounds>>

(* An event: its listener, or ack() for it, sends a packet, or nothing.    *)
OnEvent ==
  /\ Receives("event") /\ m_sockets /\ m_client
  /\ Popped
  /\ Emit("net") \/ UNCHANGED <<emits, p, pc>>
  /\ UNCHANGED <<clientVars, socketVars, ackVars, front_pack, peerVars,
                 endVars, sessions, close_calls>>

(* on_socketio_ack: the callback under that id runs, and is gone.          *)
OnAck ==
  /\ Receives("ack") /\ m_sockets /\ m_client
  /\ Popped
  /\ IF m_acks[Arg.id] # 0
     THEN /\ acked' = acked \cup {<<m_acks[Arg.id], Arg.n>>}
          /\ m_acks' = [m_acks EXCEPT ![Arg.id] = 0]
     ELSE UNCHANGED <<m_acks, acked>>
  /\ UNCHANGED <<clientVars, socketVars, s_global_event_id, pc, sendVars,
                 peerVars, endVars, bounds>>

(* timeout_connection returns on an error; on_close, bound to the second   *)
(* wait without its error code, runs whatever became of the wait.          *)
(* (A mutant: it returns on an error too.)                                 *)
OnCloseRunsIfOk == {"ok"}
OnCloseRuns == {"ok", "aborted"}
WaitAborted ==
  /\ \/ Runs("timeout_connection", {"aborted"})
     \/ Runs("timeout_connection", {"ok"}) /\ ~m_client
     \/ /\ Runs("on_close", {"ok", "aborted"})
        /\ ~m_client \/ Arg \notin OnCloseRuns
  /\ Popped
  /\ UNCHANGED <<clientVars, socketVars, ackVars, pc, sendVars, peerVars,
                 endVars, bounds>>

TimeoutConnection ==
  /\ Runs("timeout_connection", {"ok"}) /\ m_client
  /\ asio' = ResetTimer(PopReady(asio))
  /\ Goto("net", "close.null")
  /\ UNCHANGED <<clientVars, socketVars, ackVars, sendVars, peerVars, endVars,
                 bounds>>

OnCloseWait ==
  /\ Runs("on_close", OnCloseRuns) /\ m_client
  /\ Popped
  /\ Goto("net", "close.null")
  /\ UNCHANGED <<clientVars, socketVars, ackVars, sendVars, peerVars, endVars,
                 bounds>>

(* socket::on_close: the pointer, the timer and m_connected, then the      *)
(* queue, the listener and the client's map.  (A mutant: the pointer is    *)
(* not cleared.)                                                           *)
CloseNullForgets ==
  /\ At("net", "close.null")
  /\ Goto("net", "close.reset")
  /\ UNCHANGED <<clientVars, socketVars, ackVars, asio, sendVars, peerVars,
                 endVars, bounds>>
CloseNull ==
  /\ At("net", "close.null")
  /\ m_client' = FALSE
  /\ Goto("net", "close.reset")
  /\ UNCHANGED <<clientVars, m_connected, m_packet_queue, ackVars, asio,
                 sendVars, peerVars, endVars, bounds>>

CloseReset ==
  /\ At("net", "close.reset")
  /\ asio' = ResetTimer(asio)
  /\ m_connected' = FALSE
  /\ Goto("net", "close.rest")
  /\ UNCHANGED <<clientVars, m_client, m_packet_queue, ackVars, sendVars,
                 peerVars, endVars, bounds>>

CloseRest ==
  /\ At("net", "close.rest")
  /\ SocketMutexFree
  /\ m_packet_queue' = <<>>
  /\ closes' = closes + 1
  /\ m_sockets' = FALSE
  /\ Goto("net", "idle")
  /\ UNCHANGED <<m_con_state, m_nsp, m_client, m_connected, ackVars, asio, sendVars,
                 peerVars, crashed, bounds>>

OnMessage ==
  Ignored \/ OnConnected \/ OnDisconnectPacket \/ OnEvent \/ OnAck
NetStep ==
  \/ SendImpl \/ OnOpen \/ InvokeOnOpen
  \/ OnDisconnect \/ InvokeOnDisconnect \/ ClearQueue
  \/ OnMessage \/ SendPacket("net")
  \/ WaitAborted \/ TimeoutConnection \/ OnCloseWait
  \/ CloseNull \/ CloseReset \/ CloseRest

-----------------------------------------------------------------------------
(* Time, the client's connection (module SioClient) and the server.        *)

Queued(q) ==
  /\ ~crashed
  /\ asio' = q
  /\ UNCHANGED <<clientVars, socketVars, ackVars, pc, sendVars, wire, endVars,
                 emits, close_calls>>

TimerExpires(t) ==
  /\ asio.timer[t] = "armed"
  /\ Queued(Expire(asio, t))
  /\ UNCHANGED <<peerVars, sessions>>

SessionOpens ==
  /\ session = "none" /\ sessions < MaxSessions
  /\ session' = "opening"
  /\ sessions' = sessions + 1
  /\ Queued(Post(asio, "on_open", "-"))
  /\ UNCHANGED server

SessionEnds ==
  /\ session = "up"
  /\ session' = "ending"
  /\ Queued(Post(asio, "on_disconnect", "-"))
  /\ UNCHANGED <<server, sessions>>

(* One read is outstanding at a time.                                      *)
ServerSends(msg) ==
  /\ session = "up"
  /\ \A i \in DOMAIN asio.ready : asio.ready[i].op # "on_message"
  /\ Queued(Post(asio, "on_message", msg))
  /\ UNCHANGED <<session, sessions>>

ServerConnects ==
  /\ server.connects > 0
  /\ ServerSends(Connect)
  /\ server' = [server EXCEPT !.connects = @ - 1, !.joined = TRUE]

(* Listeners have work to do up to the bound on emits.                     *)
ServerEmits ==
  /\ server.joined /\ emits < MaxEmits
  /\ ServerSends(Packet("event", 0, 0))
  /\ UNCHANGED server

ServerDisconnects ==
  /\ server.joined
  /\ ServerSends(Disconnect)
  /\ server' = [server EXCEPT !.joined = FALSE]

ServerAcks ==
  \E e \in server.events :
    /\ server.joined
    /\ ServerSends(Packet("ack", e[1], e[2]))
    /\ server' = [server EXCEPT !.events = @ \ {e}]

Surroundings ==
  \/ \E t \in Timers : TimerExpires(t)
  \/ SessionOpens \/ SessionEnds
  \/ ServerConnects \/ ServerEmits \/ ServerDisconnects \/ ServerAcks

Next == UserStart \/ UserStep \/ NetStep \/ Surroundings

Spec == Init /\ [][Next]_vars

(* Both threads are scheduled and deadlines pass.                          *)
Fairness ==
  /\ WF_vars(UserStep)
  /\ WF_vars(NetStep)
  /\ \A t \in Timers : WF_vars(TimerExpires(t))

FairSpec == Spec /\ Fairness

-----------------------------------------------------------------------------
(* Correctness.                                                            *)

(* What was written since the latest session began.                        *)
SessionStart(i) == wire[i].type = "session"
InSession(i, j) == i < j /\ \A k \in i..j : ~SessionStart(k)
Written(type) == {i \in DOMAIN wire : wire[i].type = type}

(* Nothing is emitted twice, whoever drains the queue, on whichever thread *)
(* and however often the session below is replaced.                        *)
WrittenOnce ==
  \A i, j \in Written("event") : wire[i].n = wire[j].n => i = j

(* In every session the namespace is asked for before anything is sent on  *)
(* it, though packets outlive the session they were meant for.  (Not once  *)
(* the socket has closed: a packet it had posted before may still be       *)
(* written, into a session that knows nothing of the namespace.)           *)
ConnectFirst ==
  ~IsRoot /\ closes = 0 =>
    \A j \in Written("event") \cup Written("disconnect") :
      \E i \in Written("connect") : InSession(i, j)

(* "connect will happen for existing sockets automatically when client     *)
(* have opened up the physical connection", "socket opened with connected  *)
(* client will connect to its namespace immediately" (API.md): whichever   *)
(* of socket() and on_open comes first, and wherever they meet, once both  *)
(* are through the namespace has been asked for in this session.           *)
SendImplQueued == \E i \in DOMAIN asio.ready : asio.ready[i].op = "send_impl"
InNewestSession(i) == \A j \in Written("session") : j < i
NoSocketForgotten ==
  /\ ~IsRoot /\ m_sockets /\ m_client
  /\ m_con_state = "opened" /\ session = "up"
  /\ ~SendImplQueued /\ pc["net"] # "invoke.on_open"
  => \E i \in Written("connect") : InNewestSession(i)

(* The socket close listener is called at most once for a socket: by the   *)
(* server's disconnect, by a timeout, or by close()'s timer, whose handler *)
(* runs even when the wait was cancelled.                                  *)
CloseListenerOnce == closes <= 1

(* A callback gets the answer to its own emit and to no other.             *)
AckIsOwn == \A a \in acked : a[1] = a[2]

(* send_packet tests m_connected before it takes the lock, so a packet may *)
(* enter the queue after on_connected has emptied it.  At most one can be  *)
(* left there: the user's next emit empties the queue again.               *)
StrandedAtMostOne ==
  m_connected /\ At("net", "idle") /\ At("user", "idle")
    => Len(m_packet_queue) <= 1

(* What the user's thread emits stays in line, wherever its packets are:   *)
(* those it has posted come before the one in its hand, that one before    *)
(* those in the queue, and those before the one it is about to send.  So   *)
(* one of its emits overtakes another only when the network thread, which  *)
(* empties the queue too, takes it out of the middle of that line.  (Its   *)
(* emits are those with an id, where only the user's thread asks for       *)
(* acknowledgements.)                                                      *)
Posted(q) ==
  [i \in DOMAIN q.ready |->
     IF q.ready[i].op = "send_impl" THEN q.ready[i].arg ELSE Connect]
UsersEmit(pkt) == pkt.type = "event" /\ pkt.id # 0
UsersIn(s) == {s[i].n : i \in {i \in DOMAIN s : UsersEmit(s[i])}}
Ordered(s) ==
  \A i, j \in DOMAIN s :
    i < j /\ UsersEmit(s[i]) /\ UsersEmit(s[j]) => s[i].n < s[j].n
UserLine ==
  <<Posted(asio),
    IF pc["user"] = "front" THEN <<front_pack["user"]>> ELSE <<>>,
    m_packet_queue,
    IF pc["user"] \in SendSteps THEN <<p["user"]>> ELSE <<>> >>
InLineOrder(line) ==
  /\ \A a \in DOMAIN line : Ordered(line[a])
  /\ \A a, b \in DOMAIN line :
       a < b => \A m \in UsersIn(line[a]), n \in UsersIn(line[b]) : m < n
UserInLine == InLineOrder(UserLine)

(* close(): "Positively disconnect from namespace" (API.md).  If it found  *)
(* the socket connected, the socket is closed and its listener called,     *)
(* whatever happens to the session and to the timer in between.            *)
CloseEnds == At("user", "close.timer") ~> closes = 1 \/ crashed

(* "Should close socket if no connected message arrive" (timeout_          *)
(* connection): it does not close one for which the message has arrived.   *)
TimeoutIsSilence ==
  [][Runs("timeout_connection", {"ok"}) /\ pc'["net"] = "close.null"
       => ~m_connected]_vars
-----------------------------------------------------------------------------
(* Why it holds: the invariant of the proofs (SioSocketProofs).            *)

(* An id is given to one emit at a time, and none is beyond the counter.   *)
IdsIssued ==
  /\ s_global_event_id <= emits + 1
  /\ \A th \in Threads : pc[th] = "id" => p[th].id \in 1..emits

(* on_close runs to its end once.  The socket has its client until then,   *)
(* and is in the map, or about to be, until the end.                       *)
ClosesOnce ==
  /\ closes \in {0, 1}
  /\ closes = 1 => ~m_client
  /\ m_client => m_sockets \/ ~SocketMutexFree
  /\ pc["net"] = "close.null" => m_client
  /\ pc["net"] \in {"close.reset", "close.rest"} =>
       closes = 0 /\ ~m_client /\ (m_sockets \/ ~SocketMutexFree)

(* Once on_connected has emptied the queue, only a packet whose thread had *)
(* tested m_connected before can enter it: the user's.                     *)
QueueDrained ==
  /\ pc["net"] = "push" => ~m_connected
  /\ m_connected /\ pc["net"] \notin {"open.drain", "open.front"} =>
       /\ Len(m_packet_queue) <= 1
       /\ pc["user"] = "push" => m_packet_queue = <<>>

(* An emit's packet is in one place: written, posted, in the queue, or     *)
(* with a thread, which is about to send it or took it off the queue.      *)
EmitsOf(pkt) == IF pkt.type = "event" THEN {pkt.n} ELSE {}
EmitsIn(s) == UNION {EmitsOf(s[i]) : i \in DOMAIN s}
Once(s) ==
  \A i, j \in DOMAIN s :
    s[i].type = "event" /\ s[j].type = "event" /\ s[i].n = s[j].n => i = j
ToSend(th) == IF pc[th] \in SendSteps THEN EmitsOf(p[th]) ELSE {}
InHand(th) ==
  IF pc[th] \in {"front", "open.front"} THEN EmitsOf(front_pack[th]) ELSE {}
Places ==
  [written |-> EmitsIn(wire), posted |-> EmitsIn(Posted(asio)),
   queued |-> EmitsIn(m_packet_queue),
   user |-> ToSend("user"), user_hand |-> InHand("user"),
   net |-> ToSend("net"), net_hand |-> InHand("net")]
InOnePlace ==
  /\ Once(wire) /\ Once(Posted(asio)) /\ Once(m_packet_queue)
  /\ LET held == Places IN
       /\ \A a \in DOMAIN held : held[a] \subseteq 1..emits
       /\ \A a, b \in DOMAIN held : a # b => held[a] \cap held[b] = {}

(* If one thread asks for acknowledgements, an id belongs to one emit: all *)
(* that carries it, packets and answers, finds that emit's callback or,    *)
(* when it has run, none.                                                  *)
Owns(n, id) ==
  id = 0 \/ (id < s_global_event_id /\ m_acks[id] \in {0, n})
Traffic(q) ==
  {h \in {q.ready[i] : i \in DOMAIN q.ready} :
     h.op \in {"send_impl", "on_message"}}
IdsOwned ==
  /\ \A id \in Emits : id >= s_global_event_id => m_acks[id] = 0
  /\ \A th \in Threads :
       /\ Owns(front_pack[th].n, front_pack[th].id)
       /\ IF pc[th] = "id"
          THEN p[th].id = s_global_event_id /\ th \in AckThreads
          ELSE Owns(p[th].n, p[th].id)
  /\ \A i \in DOMAIN m_packet_queue :
       Owns(m_packet_queue[i].n, m_packet_queue[i].id)
  /\ \A h \in Traffic(asio) : Owns(h.arg.n, h.arg.id)
  /\ \A e \in server.events : Owns(e[1], e[2])
  /\ AckIsOwn

(* The socket has its client from birth until on_close, and until it is in *)
(* the map nothing is sent but its CONNECT.                                *)
Alive ==
  closes = 0 /\ (m_sockets \/ ~SocketMutexFree) =>
    m_client \/ pc["net"] \in {"close.reset", "close.rest"}
SendsNet == SendSteps \cup {"open.drain", "open.front"}
Unborn ==
  closes = 0 /\ ~m_sockets =>
    /\ pc["user"] \in {"idle", "new.connect", "new.insert"}
    /\ pc["net"] \notin SendsNet
    /\ m_packet_queue = <<>>
    /\ \A h \in Traffic(asio) : h.op = "send_impl" => h.arg = Connect

(* Handlers of one session are gone before the next one opens.             *)
SessionHandlers == {"on_open", "on_message", "on_disconnect"}
InLine(q, ses) ==
  \A i \in DOMAIN q.ready :
    /\ q.ready[i].op = "on_open" =>
         /\ ses = "opening"
         /\ \A j \in DOMAIN q.ready :
              q.ready[j].op \in SessionHandlers => j = i
    /\ q.ready[i].op = "on_message" => ses \in {"up", "ending"}
    /\ q.ready[i].op = "on_disconnect" =>
         /\ ses = "ending"
         /\ \A j \in DOMAIN q.ready :
              q.ready[j].op \in SessionHandlers => j <= i

(* In the newest session the namespace has been asked for: before the      *)
(* server says anything of it and before the network thread sends anything *)
(* on it.  Otherwise the CONNECT is the first packet posted, or on_open is *)
(* about to write it, or socket() will: there is no socket yet.            *)
Asked == \E i \in Written("connect") : InNewestSession(i)
ConnectAhead(q) ==
  \E i \in DOMAIN q.ready :
    /\ q.ready[i] = Handler("send_impl", Connect)
    /\ \A j \in 1..(i - 1) :
         q.ready[j].op = "send_impl" => q.ready[j].arg = Connect
Spoken ==
  \/ server.connects > 0 \/ server.joined
  \/ \E h \in Traffic(asio) : h.op = "on_message"
  \/ pc["net"] \in SendsNet
AskedBefore == Spoken => Asked
AskedSoon ==
  closes = 0 /\ session = "up" /\ m_con_state = "opened" =>
    \/ Asked
    \/ pc["net"] = "invoke.on_open"
    \/ ConnectAhead(asio)
    \/ ~m_sockets /\ pc["user"] \in {"idle", "new.connect"}
ConnectAsked ==
  /\ Alive /\ Unborn
  /\ InLine(asio, session)
  /\ ~IsRoot => AskedBefore /\ AskedSoon
  /\ ConnectFirst

(* The network thread puts nothing of its own into the user's line, and    *)
(* when the user is about to send, nothing of the user's is left behind.   *)
LineKept ==
  /\ UserInLine
  /\ ~UsersEmit(p["net"])
  /\ pc["user"] \notin {"open.drain", "open.front"}
  /\ pc["user"] = "send" => UsersIn(m_packet_queue) = {}

IInv ==
  /\ TypeOK
  /\ IdsIssued
  /\ ClosesOnce
  /\ QueueDrained
  /\ InOnePlace
  /\ ConnectAsked
  /\ AckThreads # Threads => IdsOwned
  /\ "net" \notin AckThreads => LineKept
=============================================================================
