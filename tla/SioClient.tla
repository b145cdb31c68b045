------------------------------ MODULE SioClient ------------------------------
(***************************************************************************)
(* The connection life cycle of sio::client_impl                           *)
(* (src/internal/sio_client_impl.cpp): connect, close, sync_close, the     *)
(* websocketpp callbacks on_open, on_fail, on_close and on_message, the    *)
(* keep-alive timers and transparent reconnection.                         *)
(*                                                                         *)
(* Two threads share the object without a lock: the user's, which calls    *)
(* the API, and the network thread, which runs the handlers of the         *)
(* io_service one after the other.  A handler is one step, except where    *)
(* the user's thread can read or write m_con_state, m_reconn_timer or      *)
(* m_network_thread in its middle: there it is cut at that access.         *)
(*                                                                         *)
(* Sockets and packets are not here; the bytes exchanged are reduced to    *)
(* the kinds of frames that change this state.                             *)
(***************************************************************************)
EXTENDS Naturals, Asio

CONSTANTS
  ReconnAttempts,   \* m_reconn_attempts, the argument of set_reconnect_attempts
  ServerSends,      \* the kinds of frames the server may send
  MaxCalls,         \* bound: how many times the user calls the API
  MaxFrames         \* bound: how many frames the server sends

ASSUME ReconnAttemptsAssumption == ReconnAttempts \in Nat
ASSUME ServerSendsAssumption ==
         ServerSends \subseteq {"open_ok", "open_bad", "pong", "close", "message"}
ASSUME MaxCallsAssumption == MaxCalls \in Nat
ASSUME MaxFramesAssumption == MaxFrames \in Nat

VARIABLES
  m_con_state,      \* enum con_state
  m_con,            \* TRUE iff the weak handle m_con has not expired
  m_reconn_made,    \* reconnection attempts since the last open
  m_base_url,       \* whether the URI of the last connect() parses
  m_network_thread, \* "null", "running" (in run_loop) or "finished" (joinable)
  asio,             \* the io_service and the client's three timers
  link,             \* the websocketpp connection, see Links
  close_code,       \* its local close code
  net,              \* where the network thread is inside a handler
  m_con_state_was,  \* on_close's local variable
  user,             \* where the user's thread is inside an API call
  report,           \* the last terminal listener called since connect()
  tries,            \* history: transports started since connect() or on_open
  calls,            \* history: API calls made, up to MaxCalls
  frames,           \* history: frames the server sent, up to MaxFrames
  user_closed,      \* history: close() was called since the last connect()
  closed_live       \* history: "no", or m_con_state when that close reached
                    \* a session that was open

clientVars == <<m_con_state, m_con, m_reconn_made, m_base_url>>
history == <<report, tries, calls, frames, user_closed, closed_live>>
netVars == <<net, m_con_state_was>>
vars == <<clientVars, m_network_thread, asio, link, close_code, netVars, user,
          history>>

ConStates == {"opening", "opened", "closing", "closed"}
Timers == {"reconn", "ping", "pong"}

(* The life of a websocketpp connection.  "settling" and "dying": its      *)
(* fate is known and the handler that reports it is in asio.ready.         *)
Links == {"idle", "connecting", "settling", "open", "closing", "dying"}

(* Close codes, as far as the code tells them apart: websocketpp refuses   *)
(* to send "abnormal" (1006), which is also the code of a dropped link.    *)
CloseCodes == {"normal", "policy", "abnormal"}

(* Engine.IO frames that reach on_decode: an open packet with or without   *)
(* a session id, a pong, a close, and any other message.                   *)
Frames == {"open_ok", "open_bad", "pong", "close", "message"}

Reports == {"none", "fail", "normal", "drop"}

NetStates ==
  {"idle", "fail.rest", "reconn.go", "close.write", "close.rest"}

UserStates ==
  {"idle", "close.post", "sync.post", "sync.join",
   "connect.check", "connect.join", "connect.start"}

Handlers ==
  [op : Timers, arg : {"ok", "aborted"}]
    \cup [op : {"close_impl"}, arg : CloseCodes]
    \cup [op : {"on_message"}, arg : Frames]
    \cup [op : {"connect_impl", "on_open", "on_fail", "on_close"}, arg : {"-"}]

Queues == [timer : [Timers -> TimerStatus], ready : Seq(Handlers)]

TypeOK ==
  /\ m_con_state \in ConStates
  /\ m_con \in BOOLEAN
  /\ m_reconn_made \in Nat
  /\ m_base_url \in {"good", "bad"}
  /\ m_network_thread \in {"null", "running", "finished"}
  /\ asio \in Queues
  /\ link \in Links
  /\ close_code \in CloseCodes
  /\ net \in NetStates
  /\ m_con_state_was \in ConStates
  /\ user \in UserStates
  /\ report \in Reports
  /\ tries \in Nat
  /\ calls \in 0..MaxCalls
  /\ frames \in 0..MaxFrames
  /\ user_closed \in BOOLEAN
  /\ closed_live \in ConStates \cup {"no"}

Init ==
  /\ m_con_state = "closed"
  /\ m_con = FALSE
  /\ m_reconn_made = 0
  /\ m_base_url = "good"
  /\ m_network_thread = "null"
  /\ asio = [timer |-> [t \in Timers |-> "null"], ready |-> <<>>]
  /\ link = "idle"
  /\ close_code = "abnormal"
  /\ net = "idle"
  /\ m_con_state_was = "closed"
  /\ user = "idle"
  /\ report = "none"
  /\ tries = 0
  /\ calls = 0
  /\ frames = 0
  /\ user_closed = FALSE
  /\ closed_live = "no"

-----------------------------------------------------------------------------
(* The user's thread.                                                      *)

Call == user = "idle" /\ calls < MaxCalls /\ calls' = calls + 1

(* connect(): first, whatever the state, the reconnection timer goes.      *)
ConnectCall ==
  /\ Call
  /\ asio' = Destroy(asio, "reconn")
  /\ user' = "connect.check"
  /\ UNCHANGED <<clientVars, m_network_thread, link, close_code, netVars,
                 report, tries, frames, user_closed, closed_live>>

(* connect(): is there a thread, and does m_con_state say to wait for it?  *)
(* (A mutant: connect() does not wait for the old thread to end.)          *)
JoinFirst == m_con_state \in {"closing", "closed"}
ConnectNextNoJoin ==
  IF m_network_thread = "null" \/ JoinFirst THEN "connect.start" ELSE "idle"
ConnectNext ==
  IF m_network_thread = "null" THEN "connect.start"
  ELSE IF JoinFirst THEN "connect.join" ELSE "idle"
ConnectCheck ==
  /\ user = "connect.check"
  /\ user' = ConnectNext
  /\ UNCHANGED <<clientVars, m_network_thread, asio, link, close_code, netVars,
                 history>>

(* connect(): join() blocks until run_loop has returned.                   *)
ConnectJoin ==
  /\ user = "connect.join"
  /\ m_network_thread = "finished"
  /\ m_network_thread' = "null"
  /\ user' = "connect.start"
  /\ UNCHANGED <<clientVars, asio, link, close_code, netVars, history>>

(* connect(): the rest, which no other thread can see half done.           *)
ConnectStart(url) ==
  /\ user = "connect.start"
  /\ m_con_state' = "opening"
  /\ m_base_url' = url
  /\ m_reconn_made' = 0
  /\ asio' = Post(asio, "connect_impl", "-")
  /\ m_network_thread' = "running"
  /\ user' = "idle"
  /\ report' = "none"
  /\ tries' = 0
  /\ user_closed' = FALSE
  /\ closed_live' = "no"
  /\ UNCHANGED <<m_con, link, close_code, netVars, calls, frames>>

(* close() and sync_close(): the state first, then (after the sockets,     *)
(* which are another module's) close_impl is posted.                       *)
CloseCall(next) ==
  /\ Call
  /\ m_con_state' = "closing"
  /\ user' = next
  /\ user_closed' = TRUE
  /\ UNCHANGED <<m_con, m_reconn_made, m_base_url, m_network_thread, asio,
                 link, close_code, netVars, report, tries, frames, closed_live>>

ClosePost ==
  /\ user \in {"close.post", "sync.post"}
  /\ asio' = Post(asio, "close_impl", "normal")
  /\ user' = IF user = "sync.post" /\ m_network_thread # "null"
             THEN "sync.join" ELSE "idle"
  /\ UNCHANGED <<clientVars, m_network_thread, link, close_code, netVars, history>>

SyncJoin ==
  /\ user = "sync.join"
  /\ m_network_thread = "finished"
  /\ m_network_thread' = "null"
  /\ user' = "idle"
  /\ UNCHANGED <<clientVars, asio, link, close_code, netVars, history>>

UserCalls ==
  \/ ConnectCall
  \/ CloseCall("close.post")
  \/ CloseCall("sync.post")
UserSteps ==
  \/ ConnectCheck
  \/ ConnectJoin
  \/ \E url \in {"good", "bad"} : ConnectStart(url)
  \/ ClosePost
  \/ SyncJoin

-----------------------------------------------------------------------------
(* The network thread.                                                     *)

Runs(op, args) ==
  /\ m_network_thread = "running"
  /\ net = "idle"
  /\ asio.ready # <<>>
  /\ Head(asio.ready).op = op
  /\ Head(asio.ready).arg \in args

Arg == Head(asio.ready).arg

(* A wait that was aborted: the handlers return on a non-zero ec.          *)
Aborted(t) ==
  /\ Runs(t, {"aborted"})
  /\ asio' = PopReady(asio)
  /\ UNCHANGED <<clientVars, m_network_thread, link, close_code, netVars, user,
                 history>>

(* connect_impl: start a transport, or report that the URI is not one.     *)
StartTransport ==
  IF m_base_url = "good"
  THEN /\ link' = "connecting"
       /\ close_code' = "abnormal"
       /\ tries' = tries + 1
       /\ report' = report
  ELSE /\ report' = "fail"
       /\ UNCHANGED <<link, close_code, tries>>

ConnectImpl ==
  /\ Runs("connect_impl", {"-"})
  /\ StartTransport
  /\ asio' = PopReady(asio)
  /\ UNCHANGED <<clientVars, m_network_thread, netVars, user, calls, frames,
                 user_closed, closed_live>>

(* close_impl on the queue q: no reconnection any more; a session that is  *)
(* still open starts its closing handshake.                                *)
CloseImpl(code, q) ==
  /\ asio' = Destroy(q, "reconn")
  /\ IF m_con /\ link = "open" /\ code # "abnormal"
     THEN /\ link' = "closing"
          /\ close_code' = code
          /\ closed_live' = IF code = "normal" THEN m_con_state ELSE closed_live
     ELSE UNCHANGED <<link, close_code, closed_live>>

CloseImplHandler ==
  /\ Runs("close_impl", CloseCodes)
  /\ CloseImpl(Arg, PopReady(asio))
  /\ UNCHANGED <<clientVars, m_network_thread, netVars, user, report, tries, calls,
                 frames, user_closed>>

OnOpen ==
  /\ Runs("on_open", {"-"})
  /\ asio' = PopReady(asio)
  /\ link' = "open"
  /\ m_con_state' = "opened"
  /\ m_con' = TRUE
  /\ m_reconn_made' = 0
  /\ tries' = 0
  /\ UNCHANGED <<m_base_url, m_network_thread, close_code, netVars, user, report,
                 calls, frames, user_closed, closed_live>>

(* on_fail up to the assignment of m_con_state, then the rest.             *)
OnFail ==
  /\ Runs("on_fail", {"-"})
  /\ asio' = PopReady(asio)
  /\ link' = "idle"
  /\ m_con' = FALSE
  /\ m_con_state' = "closed"
  /\ net' = "fail.rest"
  /\ UNCHANGED <<m_reconn_made, m_base_url, m_network_thread, close_code,
                 m_con_state_was, user, history>>

(* (A mutant: one attempt more than m_reconn_attempts.)                    *)
ReconnectAllowedOnceMore == m_reconn_made <= ReconnAttempts
ReconnectAllowed == m_reconn_made < ReconnAttempts

(* (A mutant: every failure is reported, not only the last.)               *)
EveryFailure == "fail"
FailReport == IF ReconnectAllowed THEN report ELSE "fail"

OnFailRest ==
  /\ net = "fail.rest"
  /\ net' = "idle"
  /\ asio' = IF ReconnectAllowed THEN Arm(asio, "reconn") ELSE asio
  /\ report' = FailReport
  /\ UNCHANGED <<clientVars, m_network_thread, link, close_code,
                 m_con_state_was, user, tries, calls, frames, user_closed,
                 closed_live>>

(* on_close reads m_con_state into m_con_state_was, overwrites it, and     *)
(* then decides what the close was.                                        *)
OnClose ==
  /\ Runs("on_close", {"-"})
  /\ asio' = PopReady(asio)
  /\ link' = "idle"
  /\ net' = "close.write"
  /\ m_con_state_was' = m_con_state
  /\ UNCHANGED <<clientVars, m_network_thread, close_code, user, history>>

OnCloseWrite ==
  /\ net = "close.write"
  /\ m_con_state' = "closed"
  /\ net' = "close.rest"
  /\ UNCHANGED <<m_con, m_reconn_made, m_base_url, m_network_thread, asio, link,
                 close_code, m_con_state_was, user, history>>

(* (Mutants: on_close looks at the code alone; it forgets the ping timer,  *)
(* or the timeout's.)                                                      *)
ClosedByCode == close_code = "normal"
ClosedByUs == close_code = "normal" \/ m_con_state_was = "closing"
ClearPongOnly(q) == Destroy(q, "pong")
ClearPingOnly(q) == Destroy(q, "ping")
ClearTimers(q) == Destroy(Destroy(q, "pong"), "ping")

OnCloseRest ==
  /\ net = "close.rest"
  /\ net' = "idle"
  /\ m_con_state_was' = "closed"
  /\ m_con' = FALSE
  /\ IF ~ClosedByUs /\ ReconnectAllowed
     THEN /\ asio' = Arm(ClearTimers(asio), "reconn")
          /\ UNCHANGED report
     ELSE /\ asio' = ClearTimers(asio)
          /\ report' = IF ClosedByUs THEN "normal" ELSE "drop"
  /\ UNCHANGED <<m_con_state, m_reconn_made, m_base_url, m_network_thread, link,
                 close_code, user, tries, calls, frames, user_closed,
                 closed_live>>

(* timeout_reconnect: the test of m_con_state, then its assignment and the *)
(* new transport, which dispatch() starts inside this handler.             *)
TimeoutReconnect ==
  /\ Runs("reconn", {"ok"})
  /\ asio' = PopReady(asio)
  /\ net' = IF m_con_state = "closed" THEN "reconn.go" ELSE "idle"
  /\ UNCHANGED <<clientVars, m_network_thread, link, close_code,
                 m_con_state_was, user, history>>

TimeoutReconnectGo ==
  /\ net = "reconn.go"
  /\ net' = "idle"
  /\ m_con_state' = "opening"
  /\ m_reconn_made' = m_reconn_made + 1
  /\ StartTransport
  /\ UNCHANGED <<m_con, m_base_url, m_network_thread, asio,
                 m_con_state_was, user, calls, frames, user_closed, closed_live>>

(* ping: send one, wait for the next, and start to wait for an answer      *)
(* unless a wait for one exists already.                                   *)
PingOn(q) ==
  LET p == IF q.timer["ping"] = "null" THEN q ELSE Arm(q, "ping")
  IN  IF p.timer["pong"] = "null" THEN Arm(p, "pong") ELSE p

(* (A mutant: it does not look whether the session is still there.)        *)
PingNeverExits == FALSE
PingExits == ~m_con

Ping ==
  /\ Runs("ping", {"ok"})
  /\ asio' = IF PingExits THEN PopReady(asio) ELSE PingOn(PopReady(asio))
  /\ UNCHANGED <<clientVars, m_network_thread, link, close_code, netVars, user,
                 history>>

TimeoutPong ==
  /\ Runs("pong", {"ok"})
  /\ CloseImpl("policy", PopReady(asio))
  /\ UNCHANGED <<clientVars, m_network_thread, netVars, user, report, tries, calls,
                 frames, user_closed>>

(* on_message: any message renews the wait for an answer.  websocketpp     *)
(* drops what arrives after the closing handshake has begun.               *)
RenewPong(q) == IF q.timer["pong"] = "null" THEN q ELSE Arm(q, "pong")

OnMessage(frame) ==
  LET q == RenewPong(PopReady(asio)) IN
  \/ /\ frame = "open_ok"
     /\ asio' = Arm(q, "ping")
     /\ UNCHANGED <<link, close_code, closed_live>>
  \/ /\ frame = "open_bad"
     /\ CloseImpl("policy", q)
  \/ /\ frame = "close"
     /\ CloseImpl("abnormal", q)
  \/ /\ frame = "pong"
     /\ asio' = Destroy(q, "pong")
     /\ UNCHANGED <<link, close_code, closed_live>>
  \/ /\ frame = "message"
     /\ asio' = q
     /\ UNCHANGED <<link, close_code, closed_live>>

OnMessageHandler ==
  /\ Runs("on_message", Frames)
  /\ IF link = "open" THEN OnMessage(Arg)
     ELSE asio' = PopReady(asio) /\ UNCHANGED <<link, close_code, closed_live>>
  /\ UNCHANGED <<clientVars, m_network_thread, netVars, user, report, tries, calls,
                 frames, user_closed>>

(* run_loop: run() returns when there is nothing left to wait for.         *)
RunLoopEnd ==
  /\ m_network_thread = "running"
  /\ net = "idle"
  /\ NoWork(asio)
  /\ link = "idle"
  /\ m_network_thread' = "finished"
  /\ UNCHANGED <<clientVars, asio, link, close_code, netVars, user, history>>

NetSteps ==
  \/ \E t \in Timers : Aborted(t)
  \/ ConnectImpl \/ CloseImplHandler
  \/ OnOpen \/ OnFail \/ OnFailRest \/ OnClose \/ OnCloseWrite \/ OnCloseRest
  \/ TimeoutReconnect \/ TimeoutReconnectGo
  \/ Ping \/ TimeoutPong \/ OnMessageHandler
  \/ RunLoopEnd

-----------------------------------------------------------------------------
(* Time, and websocketpp with the server behind it.  A link goes to        *)
(* "settling" or "dying" when its fate is known; the handler that tells    *)
(* the client is queued at that moment.                                    *)

Outside(newlink, code, q) ==
  /\ link' = newlink
  /\ close_code' = code
  /\ asio' = q
  /\ UNCHANGED <<clientVars, m_network_thread, netVars, user, report, tries, calls,
                 user_closed, closed_live>>

TimerExpires(t) ==
  /\ asio.timer[t] = "armed"
  /\ Outside(link, close_code, Expire(asio, t))
  /\ UNCHANGED frames

(* The handshake succeeds, or fails: refused, or out of time.              *)
TransportSettles(outcome) ==
  /\ link = "connecting"
  /\ Outside("settling", close_code, Post(asio, outcome, "-"))
  /\ UNCHANGED frames

(* One read is outstanding at a time.                                      *)
PeerSends(frame) ==
  /\ link = "open"
  /\ \A i \in DOMAIN asio.ready : asio.ready[i].op # "on_message"
  /\ frames < MaxFrames
  /\ frames' = frames + 1
  /\ Outside(link, close_code, Post(asio, "on_message", frame))

(* The server starts a closing handshake, with a code of its own.          *)
PeerCloses(code) ==
  /\ link = "open"
  /\ Outside("closing", code, asio)
  /\ UNCHANGED frames

(* The connection breaks: terminate() with an error.                       *)
LinkBreaks ==
  /\ link \in {"open", "closing"}
  /\ Outside("dying", "abnormal", Post(asio, "on_close", "-"))
  /\ UNCHANGED frames

(* The closing handshake ends: terminate() without an error.               *)
HandshakeEnds ==
  /\ link = "closing"
  /\ Outside("dying", close_code, Post(asio, "on_close", "-"))
  /\ UNCHANGED frames

Surroundings ==
  \/ \E t \in Timers : TimerExpires(t)
  \/ \E outcome \in {"on_open", "on_fail"} : TransportSettles(outcome)
  \/ \E frame \in ServerSends : PeerSends(frame)
  \/ \E code \in {"normal", "policy"} : PeerCloses(code)
  \/ LinkBreaks
  \/ HandshakeEnds

Next == UserCalls \/ UserSteps \/ NetSteps \/ Surroundings

Spec == Init /\ [][Next]_vars

(* The threads are scheduled, deadlines pass, and websocketpp bounds both  *)
(* handshakes by timers of its own.  Nothing obliges the user to call, nor *)
(* the server to send or to close.                                         *)
Fairness ==
  /\ WF_vars(UserSteps)
  /\ WF_vars(NetSteps)
  /\ \A t \in Timers : WF_vars(TimerExpires(t))
  /\ WF_vars(\E outcome \in {"on_open", "on_fail"} : TransportSettles(outcome))
  /\ WF_vars(link = "closing" /\ (LinkBreaks \/ HandshakeEnds))

FairSpec == Spec /\ Fairness

-----------------------------------------------------------------------------
(* Correctness.                                                            *)

(* Between two handlers.                                                   *)
Quiet == net = "idle"

(* One client, one physical connection (API.md): whenever connect_impl     *)
(* starts a transport, for the user or for a reconnection, the previous    *)
(* one is gone.  Nothing in connect_impl tests it; it rests on m_con_state *)
(* and on the join in connect().                                           *)
OneTransport == [][tries' > tries => link = "idle"]_vars

(* Between two successful opens at most one transport is started by        *)
(* connect() and ReconnAttempts by the timer, whatever on_fail, on_close,  *)
(* connect() and close() do to the timer and to the counter in between.    *)
ReconnectBudget == tries <= ReconnAttempts + 1

(* The keep-alive timers do not outlive their session: none is left for    *)
(* the next session's pings, or to close it for a pong it never asked for. *)
KeepAliveHasSession ==
  Quiet /\ ~m_con => asio.timer["ping"] = "null" /\ asio.timer["pong"] = "null"

(* A wait that has expired cannot be taken back: its handler is queued.    *)
(* on_message may even renew such a wait, so that two timeouts of one      *)
(* session are under way, and the first closes it though it has answered.  *)
(* No ping or timeout reaches the session after it: when on_open runs,     *)
(* none is queued that would ping for it, or close it for a pong that only *)
(* the old session was asked for, however the old one ended.               *)
KeepAliveDue(h) == h.op \in {"ping", "pong"} /\ h.arg = "ok"
SessionsStartFresh ==
  [][~m_con /\ m_con' =>
       \A i \in DOMAIN asio'.ready : ~KeepAliveDue(asio'.ready[i])]_vars

(* "If we initiated the close, no matter what the close status was, we'll  *)
(* consider it a normal close" (on_close): once close() has closed an open *)
(* session, nothing reconnects until the next connect().                   *)
NoReconnection ==
  /\ asio.timer["reconn"] # "armed"
  /\ link \notin {"connecting", "settling", "open"}

CloseIsOurs == closed_live # "no" => NoReconnection

(* What holds of it: it is so when m_con_state still said con_closing as   *)
(* close_impl ran, however the link ends and whatever the timers do.       *)
UserCloseIsFinal == closed_live = "closing" => NoReconnection

(* sync_close() "returns when it is really closed" in that case: the close *)
(* is reported as the user's, the timers go, run_loop ends, join returns.  *)
SyncCloseReturns ==
  (user = "sync.join" /\ closed_live = "closing")
    ~> (user = "idle" /\ report = "normal")

(* close(): "Close the client" (API.md).  When the call has returned and   *)
(* the handler it posted has run, the client is not left with a session.   *)
CloseCloses ==
  user_closed /\ user = "idle" /\ Quiet /\ asio.ready = <<>> => link # "open"

(* set_close_listener: "Call when closed or drop" (API.md).  If the user   *)
(* has not closed it, the client does not stop for good (run_loop ended,   *)
(* nothing armed) without a close or fail listener having been called.     *)
EndIsReported ==
  m_network_thread = "finished" /\ ~user_closed => report # "none"

(* "in closed case, join will return immediately" (connect): the thread    *)
(* that connect() found closed, and now waits for, starts no connection.    *)
JoinIsImmediate ==
  user = "connect.join" /\ ~user_closed
    => m_con_state = "closed" \/ m_network_thread = "finished"

(* "if we are connected, do nothing" (connect): it returns without doing   *)
(* anything only if there is a thread to run the connection it relies on.  *)
DoesNothingIfConnected ==
  [][user = "connect.check" /\ user' = "idle" => m_network_thread = "running"]_vars

-----------------------------------------------------------------------------
(* Why the safety properties hold: an inductive invariant.                 *)

(* What can lead to a transport: the handlers that start one or end one.   *)
Starter(h) ==
  \/ h.op \in {"connect_impl", "on_open", "on_fail", "on_close"}
  \/ h.op = "reconn" /\ h.arg = "ok"

StarterAt(q) == {i \in DOMAIN q.ready : Starter(q.ready[i])}
Starters(q) == {q.ready[i] : i \in StarterAt(q)}
AtMostOneStarter(q) == \A i, j \in StarterAt(q) : i = j

(* There is one token, and it is in one place: a queued starter, ...       *)
QueuedToken ==
  /\ AtMostOneStarter(asio)
  /\ \A h \in Starters(asio) :
       /\ net = "idle"
       /\ asio.timer["reconn"] # "armed"
       /\ link = CASE h.op \in {"on_open", "on_fail"} -> "settling"
                   [] h.op = "on_close" -> "dying"
                   [] OTHER -> "idle"

(* ... a handler half way, an armed timer, or a link in progress.          *)
HeldToken ==
  /\ net # "idle" => link = "idle" /\ asio.timer["reconn"] # "armed"
  /\ asio.timer["reconn"] = "armed" => link = "idle"

(* A thread that is not running has left nothing behind.                   *)
ThreadGone ==
  /\ m_network_thread # "running" =>
       /\ net = "idle"
       /\ link = "idle"
       /\ Starters(asio) = {}
       /\ \A t \in Timers : asio.timer[t] # "armed"
  /\ user = "connect.start" => m_network_thread = "null"

(* The session handle is set exactly while there is a session to report.   *)
SessionHandle ==
  /\ m_con <=> \/ link \in {"open", "closing", "dying"}
               \/ net \in {"close.write", "close.rest"}
  /\ ~m_con => asio.timer["ping"] = "null" /\ asio.timer["pong"] = "null"

(* A reconnection is on its way.                                           *)
ReconnectPending ==
  \/ asio.timer["reconn"] = "armed"
  \/ Handler("reconn", "ok") \in Starters(asio)
  \/ net = "reconn.go"

(* Each reconnection was counted before its transport is.                  *)
ReconnectCount ==
  /\ m_reconn_made <= ReconnAttempts
  /\ tries <= m_reconn_made + 1
  /\ ReconnectPending => m_reconn_made < ReconnAttempts
  /\ Handler("connect_impl", "-") \in Starters(asio) => tries = 0

(* A session that close() closed stays closed by us until it is reported.  *)
ClosedByUser ==
  closed_live = "closing" =>
    /\ asio.timer["reconn"] # "armed"
    /\ link \in {"closing", "dying", "idle"}
    /\ link \in {"closing", "dying"} => m_con_state = "closing"
    /\ net \in {"idle", "close.write", "close.rest"}
    /\ net \in {"close.write", "close.rest"} => m_con_state_was = "closing"
    /\ \A h \in Starters(asio) : h.op = "on_close"

IInv ==
  /\ TypeOK
  /\ QueuedToken
  /\ HeldToken
  /\ ThreadGone
  /\ SessionHandle
  /\ ReconnectCount
  /\ ClosedByUser

-----------------------------------------------------------------------------
(* What all of it is for: the client is a SioConnection.                   *)

Trying ==
  \/ ReconnectPending
  \/ Handler("connect_impl", "-") \in Starters(asio)
  \/ link \in {"connecting", "settling"}
  \/ net = "fail.rest"

Phase == IF m_con THEN "up" ELSE IF Trying THEN "trying" ELSE "off"

(* The user sees one connection at a time, tried within its budget, that   *)
(* ends once: after a close or fail listener has been called there is no   *)
(* transport, timer or handler left that could bring it back, and one that *)
(* the user has closed ends as the user's.                                 *)
Connection ==
  INSTANCE SioConnection WITH
    Attempts <- ReconnAttempts, phase <- Phase, closed <- closed_live = "closing"
IsConnection == Connection!Spec
=============================================================================
