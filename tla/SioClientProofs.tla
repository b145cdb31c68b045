--------------------------- MODULE SioClientProofs ---------------------------
(***************************************************************************)
(* Proofs that the safety properties of SioClient hold for any number of   *)
(* reconnection attempts, any frames the server may send, and any number   *)
(* of calls.  The argument is the token of SioClient: at any time at most  *)
(* one thing (a queued handler, a handler half way, an armed timer or a    *)
(* link in progress) can lead to a transport.  It is also what the mapping *)
(* of SioClient to the abstract SioConnection looks at (last part).        *)
(***************************************************************************)
EXTENDS SioClient, TLAPS

-----------------------------------------------------------------------------
(* The queue operations: what each does to the type, to the timers and to  *)
(* the starters.                                                           *)

(* Posting keeps the queue's type, and adds the handler to the starters    *)
(* exactly when it is one.                                                 *)
LEMMA PostFacts ==
  ASSUME NEW q \in Queues, NEW op, NEW arg, Handler(op, arg) \in Handlers
  PROVE  /\ Post(q, op, arg) \in Queues
         /\ Post(q, op, arg).timer = q.timer
         /\ ~Starter(Handler(op, arg)) =>
              /\ Starters(Post(q, op, arg)) = Starters(q)
              /\ AtMostOneStarter(q) => AtMostOneStarter(Post(q, op, arg))
         /\ Starter(Handler(op, arg)) /\ Starters(q) = {} =>
              /\ Starters(Post(q, op, arg)) = {Handler(op, arg)}
              /\ AtMostOneStarter(Post(q, op, arg))
<1> DEFINE h == Handler(op, arg)
           p == Post(q, op, arg)
           n == Len(q.ready)
<1>1. /\ p = [q EXCEPT !.ready = Append(q.ready, h)]
      /\ q.ready \in Seq(Handlers)
      /\ h \in Handlers
  BY DEF Post, Queues
<1>2. p \in Queues /\ p.timer = q.timer /\ p.ready = Append(q.ready, h)
  BY <1>1 DEF Queues
<1> HIDE DEF h, p
<1>3. /\ n \in Nat
      /\ DOMAIN q.ready = 1..n
      /\ DOMAIN p.ready = 1..(n + 1)
      /\ p.ready[n + 1] = h
      /\ \A i \in 1..n : p.ready[i] = q.ready[i]
  BY <1>1, <1>2
<1> HIDE DEF n
<1>4. StarterAt(p) = StarterAt(q) \cup {i \in {n + 1} : Starter(h)}
  BY <1>3 DEF StarterAt
<1>5. StarterAt(q) \subseteq 1..n
  BY <1>3 DEF StarterAt
<1>6. Starters(q) = {} => StarterAt(q) = {}
  BY DEF Starters
<1>7. ASSUME ~Starter(h)
      PROVE  Starters(p) = Starters(q)
             /\ (AtMostOneStarter(q) => AtMostOneStarter(p))
  <2>1. StarterAt(p) = StarterAt(q)
    BY <1>4, <1>7
  <2>2. \A i \in StarterAt(q) : p.ready[i] = q.ready[i]
    BY <1>3, <1>5
  <2> QED BY <2>1, <2>2 DEF Starters, AtMostOneStarter
<1>8. ASSUME Starter(h), Starters(q) = {}
      PROVE  Starters(p) = {h} /\ AtMostOneStarter(p)
  <2>1. StarterAt(p) = {n + 1}
    BY <1>4, <1>6, <1>8
  <2> QED BY <2>1, <1>3 DEF Starters, AtMostOneStarter
<1> QED BY <1>2, <1>7, <1>8 DEF h, p

(* Taking the first handler takes it from the starters, if it is one.      *)
LEMMA PopFacts ==
  ASSUME NEW q \in Queues, q.ready # <<>>
  PROVE  /\ PopReady(q) \in Queues
         /\ PopReady(q).timer = q.timer
         /\ Head(q.ready) \in Handlers
         /\ Starter(Head(q.ready)) => Head(q.ready) \in Starters(q)
         /\ AtMostOneStarter(q) => AtMostOneStarter(PopReady(q))
         /\ ~Starter(Head(q.ready)) => Starters(PopReady(q)) = Starters(q)
         /\ AtMostOneStarter(q) /\ Starter(Head(q.ready)) =>
              Starters(PopReady(q)) = {}
<1> DEFINE h == Head(q.ready)
           p == PopReady(q)
           n == Len(q.ready)
<1>1. /\ p = [q EXCEPT !.ready = Tail(q.ready)]
      /\ q.ready \in Seq(Handlers)
  BY DEF PopReady, Queues
<1>2. p \in Queues /\ p.timer = q.timer /\ p.ready = Tail(q.ready)
  <2>1. Tail(q.ready) \in Seq(Handlers)
    BY <1>1
  <2> QED BY <1>1, <2>1 DEF Queues
<1> HIDE DEF p
<1>3. /\ n \in Nat \ {0}
      /\ DOMAIN q.ready = 1..n
      /\ DOMAIN p.ready = 1..(n - 1)
      /\ h = q.ready[1]
      /\ h \in Handlers
      /\ \A i \in 1..(n - 1) : p.ready[i] = q.ready[i + 1]
  BY <1>1, <1>2
<1> HIDE DEF n, h
<1>4. StarterAt(q) \subseteq 1..n /\ StarterAt(p) \subseteq 1..(n - 1)
  BY <1>3 DEF StarterAt
<1>5. \A i \in StarterAt(p) : i + 1 \in StarterAt(q)
  BY <1>3 DEF StarterAt
<1>6. \A i \in StarterAt(q) : i = 1 \/ i - 1 \in StarterAt(p)
  BY <1>3 DEF StarterAt
<1>7. Starter(h) => 1 \in StarterAt(q) /\ h \in Starters(q)
  BY <1>3 DEF StarterAt, Starters
<1>8. AtMostOneStarter(q) => AtMostOneStarter(p)
  <2> SUFFICES ASSUME AtMostOneStarter(q),
                      NEW i \in StarterAt(p), NEW j \in StarterAt(p)
               PROVE  i = j
    BY DEF AtMostOneStarter
  <2>1. i + 1 = j + 1
    BY <1>5 DEF AtMostOneStarter
  <2> QED BY <2>1, <1>3, <1>4
<1>9. ~Starter(h) => Starters(p) = Starters(q)
  <2> SUFFICES ASSUME ~Starter(h) PROVE Starters(p) = Starters(q)
    OBVIOUS
  <2>1. 1 \notin StarterAt(q)
    BY <1>3 DEF StarterAt
  <2>2. \A i \in StarterAt(p) : p.ready[i] = q.ready[i + 1]
    BY <1>3, <1>4
  <2>3. \A i \in StarterAt(q) :
          i - 1 \in StarterAt(p) /\ p.ready[i - 1] = q.ready[i]
    BY <1>3, <1>4, <1>6, <2>1
  <2>4. Starters(p) \subseteq Starters(q)
    BY <1>5, <2>2 DEF Starters
  <2>5. Starters(q) \subseteq Starters(p)
    BY <2>3 DEF Starters
  <2> QED BY <2>4, <2>5
<1>10. AtMostOneStarter(q) /\ Starter(h) => Starters(p) = {}
  <2> SUFFICES ASSUME AtMostOneStarter(q), Starter(h),
                      NEW i \in StarterAt(p)
               PROVE  FALSE
    BY DEF Starters
  <2>1. i + 1 = 1
    BY <1>5, <1>7 DEF AtMostOneStarter
  <2> QED BY <2>1, <1>3, <1>4
<1> QED BY <1>2, <1>3, <1>7, <1>8, <1>9, <1>10 DEF h, p

(* r is a queue with the starters of q.                                    *)
KeepsStarters(q, r) ==
  /\ r \in Queues
  /\ Starters(r) = Starters(q)
  /\ AtMostOneStarter(q) => AtMostOneStarter(r)

(* Starters are in "ready": the timers do not matter to them.              *)
LEMMA ReadyFacts ==
  ASSUME NEW q \in Queues, NEW r \in Queues, r.ready = q.ready
  PROVE  KeepsStarters(q, r)
BY DEF KeepsStarters, Starters, StarterAt, AtMostOneStarter

(* Cancelling, destroying and arming a timer only add aborted handlers,    *)
(* which are not starters.                                                 *)
LEMMA CancelFacts ==
  ASSUME NEW q \in Queues, NEW t \in Timers
  PROVE  /\ KeepsStarters(q, Cancel(q, t))
         /\ Cancel(q, t).timer \in [Timers -> TimerStatus]
         /\ \A u \in Timers \ {t} : Cancel(q, t).timer[u] = q.timer[u]
<1> DEFINE h == Handler(t, "aborted")
           c == [timer |-> [q.timer EXCEPT ![t] = "idle"],
                 ready |-> q.ready]
           p == [timer |-> [q.timer EXCEPT ![t] = "idle"],
                 ready |-> Append(q.ready, h)]
<1>1. CASE q.timer[t] # "armed"
  <2>1. Cancel(q, t) = q
    BY <1>1 DEF Cancel
  <2> QED BY <2>1 DEF KeepsStarters, Queues
<1>2. CASE q.timer[t] = "armed"
  <2>1. h \in Handlers /\ ~Starter(h)
    BY DEF Handler, Handlers, Timers, Starter
  <2>2. /\ c \in Queues /\ c.ready = q.ready
        /\ c.timer = [q.timer EXCEPT ![t] = "idle"]
    BY DEF Queues, TimerStatus
  <2>3. KeepsStarters(q, c)
    BY <2>2, ReadyFacts
  <2>4. Post(c, t, "aborted") = p
    BY DEF Post, Queues
  <2>5. KeepsStarters(c, p)
    BY <2>1, <2>2, <2>4, PostFacts DEF KeepsStarters
  <2>6. Cancel(q, t) = p
    BY <1>2 DEF Cancel
  <2>7. p.timer = [q.timer EXCEPT ![t] = "idle"]
    OBVIOUS
  <2> HIDE DEF c, p
  <2>8. KeepsStarters(q, Cancel(q, t))
    BY <2>3, <2>5, <2>6 DEF KeepsStarters
  <2>9. /\ Cancel(q, t).timer \in [Timers -> TimerStatus]
        /\ \A u \in Timers \ {t} : Cancel(q, t).timer[u] = q.timer[u]
    BY <2>6, <2>7 DEF Queues, TimerStatus
  <2> QED BY <2>8, <2>9
<1> QED BY <1>1, <1>2

(* Cancelling a wait and then setting the timer's status adds no starter.  *)
LEMMA SetTimerFacts ==
  ASSUME NEW q \in Queues, NEW t \in Timers, NEW s \in TimerStatus
  PROVE  LET c == Cancel(q, t)
             r == [c EXCEPT !.timer = [@ EXCEPT ![t] = s]]
         IN  /\ KeepsStarters(q, r)
             /\ r.timer = [q.timer EXCEPT ![t] = s]
<1> DEFINE c == Cancel(q, t)
           r == [c EXCEPT !.timer = [@ EXCEPT ![t] = s]]
<1>1. KeepsStarters(q, c)
  BY CancelFacts
<1>2. /\ c.timer \in [Timers -> TimerStatus]
      /\ \A u \in Timers \ {t} : c.timer[u] = q.timer[u]
  BY CancelFacts
<1>3. c \in Queues
  BY <1>1 DEF KeepsStarters
<1> HIDE DEF c
<1>4. /\ r \in Queues
      /\ r.ready = c.ready
      /\ r.timer = [c.timer EXCEPT ![t] = s]
  BY <1>3 DEF Queues
<1>5. r.timer = [q.timer EXCEPT ![t] = s]
  BY <1>2, <1>4 DEF Queues
<1> HIDE DEF r
<1>6. KeepsStarters(q, r)
  BY <1>1, <1>3, <1>4, ReadyFacts DEF KeepsStarters
<1> QED BY <1>5, <1>6 DEF c, r

(* Destroying a timer adds no starter and leaves the other timers alone.   *)
LEMMA DestroyFacts ==
  ASSUME NEW q \in Queues, NEW t \in Timers
  PROVE  /\ KeepsStarters(q, Destroy(q, t))
         /\ Destroy(q, t).timer = [q.timer EXCEPT ![t] = "null"]
BY SetTimerFacts DEF Destroy, TimerStatus

(* Arming a timer adds no starter and leaves the other timers alone.       *)
LEMMA ArmFacts ==
  ASSUME NEW q \in Queues, NEW t \in Timers
  PROVE  /\ KeepsStarters(q, Arm(q, t))
         /\ Arm(q, t).timer = [q.timer EXCEPT ![t] = "armed"]
BY SetTimerFacts DEF Arm, TimerStatus

(* An expired wait adds a starter only if it is the reconnection timer's.  *)
LEMMA ExpireFacts ==
  ASSUME NEW q \in Queues, NEW t \in Timers
  PROVE  /\ Expire(q, t) \in Queues
         /\ Expire(q, t).timer = [q.timer EXCEPT ![t] = "idle"]
         /\ t # "reconn" => KeepsStarters(q, Expire(q, t))
         /\ t = "reconn" /\ Starters(q) = {} =>
              /\ Starters(Expire(q, t)) = {Handler("reconn", "ok")}
              /\ AtMostOneStarter(Expire(q, t))
<1> DEFINE h == Handler(t, "ok")
           c == [timer |-> [q.timer EXCEPT ![t] = "idle"],
                 ready |-> q.ready]
<1>1. h \in Handlers /\ (Starter(h) <=> t = "reconn")
  BY DEF Handler, Handlers, Timers, Starter
<1>2. c \in Queues /\ c.ready = q.ready
  BY DEF Queues, TimerStatus
<1>3. KeepsStarters(q, c)
  BY <1>2, ReadyFacts
<1>4. Expire(q, t) = Post(c, t, "ok")
  BY DEF Post, Queues, Expire
<1>5. Expire(q, t).timer = [q.timer EXCEPT ![t] = "idle"]
  BY DEF Expire
<1> HIDE DEF c
<1>6. Expire(q, t) \in Queues
  BY <1>1, <1>2, <1>4, PostFacts
<1>7. t # "reconn" => KeepsStarters(q, Expire(q, t))
  BY <1>1, <1>2, <1>3, <1>4, PostFacts DEF KeepsStarters
<1>8. t = "reconn" /\ Starters(q) = {} =>
        /\ Starters(Expire(q, t)) = {Handler("reconn", "ok")}
        /\ AtMostOneStarter(Expire(q, t))
  BY <1>1, <1>2, <1>3, <1>4, PostFacts DEF KeepsStarters
<1> QED BY <1>5, <1>6, <1>7, <1>8

-----------------------------------------------------------------------------
(* Initially there is no token at all.                                     *)
LEMMA InitIInv == Init => IInv
<1> SUFFICES ASSUME Init PROVE IInv
  OBVIOUS
<1>1. asio \in Queues
  BY DEF Init, Queues, TimerStatus
<1>2. StarterAt(asio) = {} /\ Starters(asio) = {}
  BY DEF Init, StarterAt, Starters
<1>3. TypeOK
  <2>1. calls \in 0..MaxCalls /\ frames \in 0..MaxFrames
    BY MaxCallsAssumption, MaxFramesAssumption DEF Init
  <2>2. m_reconn_made \in Nat /\ tries \in Nat
    BY DEF Init
  <2>3. m_con \in BOOLEAN /\ user_closed \in BOOLEAN
    BY DEF Init
  <2> QED BY <1>1, <2>1, <2>2, <2>3
     DEF Init, TypeOK, ConStates, Links, CloseCodes, NetStates, UserStates,
         Reports
<1>4. QueuedToken
  BY <1>2 DEF QueuedToken, AtMostOneStarter
<1> QED
  BY <1>2, <1>3, <1>4, ReconnAttemptsAssumption
     DEF Init, IInv, HeldToken, ThreadGone, SessionHandle, ReconnectCount,
         ReconnectPending, ClosedByUser, Timers

-----------------------------------------------------------------------------
(* Steps that move no token: the starters stay, no reconnection timer is   *)
(* armed, no keep-alive timer is made without a session, and of the state  *)
(* of the connection only m_con_state may change, to con_closing.          *)
LEMMA TokenStays ==
  ASSUME IInv, TypeOK', KeepsStarters(asio, asio'),
         \A t \in Timers : asio'.timer[t] = "armed" =>
           \/ asio.timer[t] = "armed"
           \/ t # "reconn" /\ m_network_thread = "running",
         \A t \in {"ping", "pong"} :
           ~m_con /\ asio.timer[t] = "null" => asio'.timer[t] = "null",
         m_network_thread' = "running" <=> m_network_thread = "running",
         user' = "connect.start" => m_network_thread' = "null",
         m_con_state' \in {m_con_state, "closing"},
         UNCHANGED <<m_con, m_reconn_made, link, netVars, tries, closed_live>>
  PROVE  IInv'
<1>1. /\ Starters(asio') = Starters(asio)
      /\ AtMostOneStarter(asio) => AtMostOneStarter(asio')
  BY DEF KeepsStarters
<1>2. asio'.timer["reconn"] = "armed" => asio.timer["reconn"] = "armed"
  BY DEF Timers
<1>3. QueuedToken' /\ HeldToken'
  BY <1>1, <1>2 DEF IInv, QueuedToken, HeldToken, netVars
<1>4. ThreadGone'
  BY <1>1 DEF IInv, ThreadGone, netVars
<1>5. SessionHandle'
  BY DEF IInv, SessionHandle, netVars
<1>6. ReconnectCount'
  BY <1>1, <1>2 DEF IInv, ReconnectCount, ReconnectPending, netVars
<1>7. ClosedByUser'
  BY <1>1, <1>2 DEF IInv, ClosedByUser, netVars
<1> QED BY <1>3, <1>4, <1>5, <1>6, <1>7 DEF IInv

-----------------------------------------------------------------------------
(* The user's thread.                                                      *)
LEMMA ConnectCallStep == ASSUME IInv, ConnectCall PROVE IInv'
<1>1. asio \in Queues /\ asio.timer \in [Timers -> TimerStatus]
  BY DEF IInv, TypeOK, Queues
<1>2. /\ KeepsStarters(asio, asio')
      /\ asio'.timer = [asio.timer EXCEPT !["reconn"] = "null"]
  BY <1>1, DestroyFacts DEF ConnectCall, Timers
<1>3. TypeOK'
  BY <1>2, MaxCallsAssumption
     DEF IInv, TypeOK, ConnectCall, Call, clientVars, netVars, UserStates,
         KeepsStarters
<1> QED
  BY <1>1, <1>2, <1>3, TokenStays
     DEF ConnectCall, clientVars, netVars, Timers

(* A step that leaves the queue alone keeps its starters.                  *)
LEMMA SameQueue == ASSUME IInv, asio' = asio PROVE KeepsStarters(asio, asio')
BY DEF IInv, TypeOK, KeepsStarters

(* connect() deciding whether to join moves no token.                      *)
LEMMA ConnectCheckStep == ASSUME IInv, ConnectCheck PROVE IInv'
<1>1. KeepsStarters(asio, asio')
  BY SameQueue DEF ConnectCheck
<1>2. TypeOK'
  BY DEF IInv, TypeOK, ConnectCheck, ConnectNext, clientVars, netVars, history,
         UserStates
<1> QED
  BY <1>1, <1>2, TokenStays
     DEF ConnectCheck, ConnectNext, clientVars, netVars, history

(* A thread that connect() has joined had left no token behind.            *)
LEMMA ConnectJoinStep == ASSUME IInv, ConnectJoin PROVE IInv'
<1>1. KeepsStarters(asio, asio')
  BY SameQueue DEF ConnectJoin
<1>2. TypeOK'
  BY DEF IInv, TypeOK, ConnectJoin, clientVars, netVars, history, UserStates
<1> QED
  BY <1>1, <1>2, TokenStays DEF ConnectJoin, clientVars, netVars, history

(* close() writes con_closing, which moves no token.                       *)
LEMMA CloseCallStep ==
  ASSUME IInv, NEW next \in {"close.post", "sync.post"}, CloseCall(next)
  PROVE  IInv'
<1>1. KeepsStarters(asio, asio')
  BY SameQueue DEF CloseCall
<1>2. TypeOK'
  BY MaxCallsAssumption
     DEF IInv, TypeOK, CloseCall, Call, netVars, UserStates, ConStates
<1> QED
  BY <1>1, <1>2, TokenStays DEF CloseCall, netVars

(* The handler that close() posts is not a starter.                        *)
LEMMA ClosePostStep == ASSUME IInv, ClosePost PROVE IInv'
<1>1. /\ Handler("close_impl", "normal") \in Handlers
      /\ ~Starter(Handler("close_impl", "normal"))
  BY DEF Handler, Handlers, CloseCodes, Starter
<1>2. KeepsStarters(asio, asio') /\ asio'.timer = asio.timer
  BY <1>1, PostFacts DEF IInv, TypeOK, ClosePost, KeepsStarters
<1>3. TypeOK'
  BY <1>2
     DEF IInv, TypeOK, ClosePost, clientVars, netVars, history, UserStates,
         KeepsStarters
<1> QED
  BY <1>2, <1>3, TokenStays DEF ClosePost, clientVars, netVars, history

(* A thread that sync_close() has joined had left no token behind.         *)
LEMMA SyncJoinStep == ASSUME IInv, SyncJoin PROVE IInv'
<1>1. KeepsStarters(asio, asio')
  BY SameQueue DEF SyncJoin
<1>2. TypeOK'
  BY DEF IInv, TypeOK, SyncJoin, clientVars, netVars, history, UserStates
<1> QED
  BY <1>1, <1>2, TokenStays DEF SyncJoin, clientVars, netVars, history

(* connect() makes the token of a new thread: the old one has ended.       *)
LEMMA ConnectStartStep ==
  ASSUME IInv, NEW url \in {"good", "bad"}, ConnectStart(url) PROVE IInv'
<1>1. /\ asio \in Queues
      /\ Starters(asio) = {}
      /\ link = "idle" /\ net = "idle"
      /\ \A t \in Timers : asio.timer[t] # "armed"
  BY DEF IInv, TypeOK, ThreadGone, ConnectStart
<1>2. /\ asio' \in Queues
      /\ asio'.timer = asio.timer
      /\ Starters(asio') = {Handler("connect_impl", "-")}
      /\ AtMostOneStarter(asio')
  <2>1. /\ Handler("connect_impl", "-") \in Handlers
        /\ Starter(Handler("connect_impl", "-"))
    BY DEF Handler, Handlers, Starter
  <2> QED BY <1>1, <2>1, PostFacts DEF ConnectStart
<1>4. TypeOK'
  BY <1>2
     DEF IInv, TypeOK, ConnectStart, clientVars, netVars, UserStates,
         ConStates, Reports
<1>5. QueuedToken' /\ HeldToken' /\ ThreadGone'
  BY <1>1, <1>2
     DEF IInv, ConnectStart, clientVars, netVars, Handler,
         QueuedToken, HeldToken, ThreadGone, Timers
<1>6. SessionHandle' /\ ReconnectCount' /\ ClosedByUser'
  BY <1>1, <1>2, ReconnAttemptsAssumption
     DEF IInv, ConnectStart, clientVars, netVars, Handler,
         SessionHandle, ReconnectCount, ReconnectPending, ClosedByUser, Timers
<1> QED BY <1>4, <1>5, <1>6 DEF IInv
-----------------------------------------------------------------------------
(* The network thread.  What running the first handler gives.              *)
LEMMA RunsFacts ==
  ASSUME IInv, NEW op, NEW args, Runs(op, args)
  PROVE  /\ m_network_thread = "running" /\ net = "idle"
         /\ asio \in Queues /\ asio.timer \in [Timers -> TimerStatus]
         /\ PopReady(asio) \in Queues
         /\ PopReady(asio).timer = asio.timer
         /\ Arg \in args
         /\ ~Starter(Head(asio.ready)) => KeepsStarters(asio, PopReady(asio))
         /\ Starter(Head(asio.ready)) =>
              /\ Head(asio.ready) \in Starters(asio)
              /\ Starters(asio) = {Head(asio.ready)}
              /\ Starters(PopReady(asio)) = {}
              /\ AtMostOneStarter(PopReady(asio))
<1>1. /\ m_network_thread = "running" /\ net = "idle" /\ Arg \in args
      /\ asio \in Queues /\ asio.ready # <<>> /\ AtMostOneStarter(asio)
      /\ asio.timer \in [Timers -> TimerStatus]
  BY DEF IInv, TypeOK, Runs, QueuedToken, Queues, Arg
<1>2. /\ PopReady(asio) \in Queues
      /\ PopReady(asio).timer = asio.timer
      /\ AtMostOneStarter(PopReady(asio))
      /\ Starter(Head(asio.ready)) => /\ Head(asio.ready) \in Starters(asio)
                                      /\ Starters(PopReady(asio)) = {}
      /\ ~Starter(Head(asio.ready)) => Starters(PopReady(asio)) = Starters(asio)
  BY <1>1, PopFacts
<1>3. Starter(Head(asio.ready)) => Starters(asio) = {Head(asio.ready)}
  BY <1>1, <1>2 DEF Starters, AtMostOneStarter
<1> QED BY <1>1, <1>2, <1>3 DEF KeepsStarters

(* An aborted wait was not a token.                                        *)
LEMMA AbortedStep == ASSUME IInv, NEW t \in Timers, Aborted(t) PROVE IInv'
<1>1. ~Starter(Head(asio.ready))
  BY DEF Aborted, Runs, Starter, Timers
<1>2. /\ KeepsStarters(asio, asio') /\ asio'.timer = asio.timer
  BY <1>1, RunsFacts DEF Aborted
<1>3. TypeOK'
  BY <1>2
     DEF IInv, TypeOK, Aborted, clientVars, netVars, history, KeepsStarters
<1> QED
  BY <1>2, <1>3, TokenStays
     DEF IInv, ThreadGone, Aborted, clientVars, netVars, history

(* connect_impl hands its token to the link it starts, or drops it.        *)
LEMMA ConnectImplStep == ASSUME IInv, ConnectImpl PROVE IInv'
<1> DEFINE h == Handler("connect_impl", "-")
<1>1. Head(asio.ready) \in Handlers
  BY PopFacts DEF IInv, TypeOK, ConnectImpl, Runs
<1>2. Head(asio.ready) = h /\ Starter(h)
  BY <1>1 DEF ConnectImpl, Runs, Handler, Handlers, Starter, Timers
<1>3. /\ asio' \in Queues /\ asio'.timer = asio.timer
      /\ Starters(asio') = {} /\ AtMostOneStarter(asio')
      /\ h \in Starters(asio)
      /\ net = "idle" /\ m_network_thread = "running"
  BY <1>2, RunsFacts DEF ConnectImpl
<1>4. link = "idle" /\ asio.timer["reconn"] # "armed" /\ tries = 0
  BY <1>3 DEF IInv, QueuedToken, ReconnectCount, Handler
<1>5. ClosedByUser => closed_live # "closing"
  BY <1>3 DEF ClosedByUser, Handler
<1>6. TypeOK'
  BY <1>3
     DEF IInv, TypeOK, ConnectImpl, StartTransport, clientVars, netVars, Links,
         CloseCodes, Reports
<1>7. QueuedToken' /\ HeldToken' /\ ThreadGone'
  BY <1>3, <1>4
     DEF IInv, QueuedToken, HeldToken, ThreadGone, ConnectImpl, StartTransport,
         clientVars, netVars
<1>8. SessionHandle' /\ ReconnectCount' /\ ClosedByUser'
  BY <1>3, <1>4, <1>5
     DEF IInv, TypeOK, SessionHandle, ReconnectCount, ReconnectPending,
         ClosedByUser, ConnectImpl, StartTransport, clientVars, netVars
<1> QED BY <1>6, <1>7, <1>8 DEF IInv

(* close_impl moves no token unless it starts the closing handshake of an  *)
(* open session, which then is the token.                                  *)
LEMMA CloseImplFacts ==
  ASSUME IInv, TypeOK', NEW q \in Queues, NEW code \in CloseCodes,
         m_network_thread = "running", net = "idle",
         KeepsStarters(asio, q),
         \A t \in {"ping", "pong"} :
           ~m_con /\ asio.timer[t] = "null" => q.timer[t] = "null",
         CloseImpl(code, q),
         UNCHANGED <<clientVars, m_network_thread, netVars, user, tries>>
  PROVE  IInv'
<1>1. /\ KeepsStarters(q, asio')
      /\ asio'.timer = [q.timer EXCEPT !["reconn"] = "null"]
      /\ q.timer \in [Timers -> TimerStatus]
  BY DestroyFacts DEF CloseImpl, Timers, Queues
<1>2. /\ KeepsStarters(asio, asio')
      /\ asio'.timer["reconn"] # "armed"
      /\ \A t \in {"ping", "pong"} :
           ~m_con /\ asio.timer[t] = "null" => asio'.timer[t] = "null"
  BY <1>1 DEF KeepsStarters, Timers
<1>3. CASE UNCHANGED <<link, close_code, closed_live>>
  BY <1>2, <1>3, TokenStays DEF Timers, IInv, ThreadGone, clientVars, netVars
<1>4. CASE /\ m_con /\ link = "open" /\ link' = "closing"
           /\ closed_live' = IF code = "normal" THEN m_con_state ELSE closed_live
  <2>1. Starters(asio) = {} /\ closed_live # "closing"
    BY <1>4 DEF IInv, QueuedToken, ClosedByUser
  <2>2. Starters(asio') = {} /\ AtMostOneStarter(asio')
    BY <1>2, <2>1 DEF KeepsStarters, AtMostOneStarter, IInv, QueuedToken
  <2>3. QueuedToken' /\ HeldToken' /\ ThreadGone'
    BY <1>2, <2>2
       DEF IInv, QueuedToken, HeldToken, ThreadGone, clientVars, netVars
  <2>4. SessionHandle'
    BY <1>2, <1>4 DEF IInv, SessionHandle, clientVars, netVars
  <2>5. ReconnectCount'
    BY <1>2, <2>2
       DEF IInv, ReconnectCount, ReconnectPending, clientVars, netVars
  <2>6. ClosedByUser'
    BY <1>2, <1>4, <2>1, <2>2 DEF ClosedByUser, clientVars, netVars
  <2> QED BY <2>3, <2>4, <2>5, <2>6 DEF IInv
<1> QED BY <1>3, <1>4 DEF CloseImpl

(* The posted close_impl keeps the invariant.                              *)
LEMMA CloseImplHandlerStep == ASSUME IInv, CloseImplHandler PROVE IInv'
<1>1. ~Starter(Head(asio.ready))
  BY DEF CloseImplHandler, Runs, Starter
<1>2. /\ KeepsStarters(asio, PopReady(asio))
      /\ PopReady(asio) \in Queues /\ PopReady(asio).timer = asio.timer
      /\ m_network_thread = "running" /\ net = "idle" /\ Arg \in CloseCodes
  BY <1>1, RunsFacts DEF CloseImplHandler
<1>3. asio' \in Queues
  BY <1>2, DestroyFacts
     DEF CloseImplHandler, CloseImpl, Timers, KeepsStarters
<1>4. TypeOK'
  BY <1>2, <1>3
     DEF IInv, TypeOK, CloseImplHandler, CloseImpl, clientVars, netVars, Links
<1> QED BY <1>2, <1>4, CloseImplFacts DEF CloseImplHandler

(* A pong timeout closes the session as close_impl does.                   *)
LEMMA TimeoutPongStep == ASSUME IInv, TimeoutPong PROVE IInv'
<1>1. ~Starter(Head(asio.ready))
  BY DEF TimeoutPong, Runs, Starter
<1>2. /\ KeepsStarters(asio, PopReady(asio))
      /\ PopReady(asio) \in Queues /\ PopReady(asio).timer = asio.timer
      /\ m_network_thread = "running" /\ net = "idle"
      /\ "policy" \in CloseCodes
  BY <1>1, RunsFacts DEF TimeoutPong, CloseCodes
<1>3. asio' \in Queues
  BY <1>2, DestroyFacts DEF TimeoutPong, CloseImpl, Timers, KeepsStarters
<1>4. TypeOK'
  BY <1>2, <1>3
     DEF IInv, TypeOK, TimeoutPong, CloseImpl, clientVars, netVars, Links
<1> QED BY <1>2, <1>4, CloseImplFacts DEF TimeoutPong

(* on_open hands its token to the open link.                               *)
LEMMA OnOpenStep == ASSUME IInv, OnOpen PROVE IInv'
<1> DEFINE h == Handler("on_open", "-")
<1>1. Head(asio.ready) \in Handlers
  BY PopFacts DEF IInv, TypeOK, OnOpen, Runs
<1>2. Head(asio.ready) = h /\ Starter(h)
  BY <1>1 DEF OnOpen, Runs, Handler, Handlers, Starter, Timers
<1>3. /\ asio' \in Queues /\ asio'.timer = asio.timer
      /\ Starters(asio') = {} /\ AtMostOneStarter(asio')
      /\ h \in Starters(asio)
      /\ net = "idle" /\ m_network_thread = "running"
  BY <1>2, RunsFacts DEF OnOpen
<1>4. link = "settling" /\ asio.timer["reconn"] # "armed"
  BY <1>3 DEF IInv, QueuedToken, Handler
<1>5. closed_live # "closing"
  BY <1>3 DEF IInv, ClosedByUser, Handler
<1>6. TypeOK'
  BY <1>3
     DEF IInv, TypeOK, OnOpen, netVars, Links, ConStates
<1>7. QueuedToken' /\ HeldToken' /\ ThreadGone'
  BY <1>3, <1>4
     DEF IInv, QueuedToken, HeldToken, ThreadGone, OnOpen, netVars
<1>8. SessionHandle' /\ ClosedByUser'
  BY <1>4, <1>5 DEF IInv, SessionHandle, ClosedByUser, OnOpen, netVars
<1>9. ReconnectCount'
  BY <1>3, <1>4, ReconnAttemptsAssumption
     DEF ReconnectCount, ReconnectPending, OnOpen, netVars
<1> QED BY <1>6, <1>7, <1>8, <1>9 DEF IInv

(* on_fail holds the token of the link that failed.                        *)
LEMMA OnFailStep == ASSUME IInv, OnFail PROVE IInv'
<1> DEFINE h == Handler("on_fail", "-")
<1>1. Head(asio.ready) \in Handlers
  BY PopFacts DEF IInv, TypeOK, OnFail, Runs
<1>2. Head(asio.ready) = h /\ Starter(h)
  BY <1>1 DEF OnFail, Runs, Handler, Handlers, Starter, Timers
<1>3. /\ asio' \in Queues /\ asio'.timer = asio.timer
      /\ Starters(asio') = {} /\ AtMostOneStarter(asio')
      /\ h \in Starters(asio)
      /\ net = "idle" /\ m_network_thread = "running"
  BY <1>2, RunsFacts DEF OnFail
<1>4. link = "settling" /\ asio.timer["reconn"] # "armed"
  BY <1>3 DEF IInv, QueuedToken, Handler
<1>5. closed_live # "closing"
  BY <1>3 DEF IInv, ClosedByUser, Handler
<1>6. TypeOK'
  BY <1>3
     DEF IInv, TypeOK, OnFail, history, Links, ConStates, NetStates
<1>7. QueuedToken' /\ HeldToken' /\ ThreadGone'
  BY <1>3, <1>4
     DEF IInv, QueuedToken, HeldToken, ThreadGone, OnFail
<1>8. SessionHandle' /\ ClosedByUser'
  BY <1>3, <1>4, <1>5
     DEF IInv, SessionHandle, ClosedByUser, OnFail, history
<1>9. ReconnectCount'
  BY <1>3, <1>4
     DEF IInv, ReconnectCount, ReconnectPending, OnFail, history
<1> QED BY <1>6, <1>7, <1>8, <1>9 DEF IInv

(* on_close holds the token of the link that ended.                        *)
LEMMA OnCloseStep == ASSUME IInv, OnClose PROVE IInv'
<1> DEFINE h == Handler("on_close", "-")
<1>1. Head(asio.ready) \in Handlers
  BY PopFacts DEF IInv, TypeOK, OnClose, Runs
<1>2. Head(asio.ready) = h /\ Starter(h)
  BY <1>1 DEF OnClose, Runs, Handler, Handlers, Starter, Timers
<1>3. /\ asio' \in Queues /\ asio'.timer = asio.timer
      /\ Starters(asio') = {} /\ AtMostOneStarter(asio')
      /\ h \in Starters(asio)
      /\ net = "idle" /\ m_network_thread = "running"
  BY <1>2, RunsFacts DEF OnClose
<1>4. link = "dying" /\ asio.timer["reconn"] # "armed"
  BY <1>3 DEF IInv, QueuedToken, Handler
<1>6. TypeOK'
  BY <1>3
     DEF IInv, TypeOK, OnClose, clientVars, history, Links, NetStates
<1>7. QueuedToken' /\ HeldToken' /\ ThreadGone'
  BY <1>3, <1>4
     DEF IInv, QueuedToken, HeldToken, ThreadGone, OnClose
<1>8. SessionHandle' /\ ClosedByUser'
  BY <1>3, <1>4
     DEF IInv, SessionHandle, ClosedByUser, OnClose, clientVars, history
<1>9. ReconnectCount'
  BY <1>3, <1>4
     DEF IInv, ReconnectCount, ReconnectPending, OnClose, clientVars, history
<1> QED BY <1>6, <1>7, <1>8, <1>9 DEF IInv

(* timeout_reconnect holds its timer's token, or drops it.                 *)
LEMMA TimeoutReconnectStep == ASSUME IInv, TimeoutReconnect PROVE IInv'
<1> DEFINE h == Handler("reconn", "ok")
<1>1. Head(asio.ready) \in Handlers
  BY PopFacts DEF IInv, TypeOK, TimeoutReconnect, Runs
<1>2. Head(asio.ready) = h /\ Starter(h)
  BY <1>1 DEF TimeoutReconnect, Runs, Handler, Handlers, Starter, Timers
<1>3. /\ asio' \in Queues /\ asio'.timer = asio.timer
      /\ Starters(asio') = {} /\ AtMostOneStarter(asio')
      /\ h \in Starters(asio)
      /\ net = "idle" /\ m_network_thread = "running"
  BY <1>2, RunsFacts DEF TimeoutReconnect
<1>4. link = "idle" /\ asio.timer["reconn"] # "armed"
  BY <1>3 DEF IInv, QueuedToken, Handler
<1>5. closed_live # "closing" /\ m_reconn_made < ReconnAttempts
  BY <1>3
     DEF IInv, ClosedByUser, ReconnectCount, ReconnectPending, Handler
<1>6. TypeOK'
  BY <1>3
     DEF IInv, TypeOK, TimeoutReconnect, clientVars, history, NetStates
<1>7. QueuedToken' /\ HeldToken' /\ ThreadGone'
  BY <1>3, <1>4
     DEF IInv, QueuedToken, HeldToken, ThreadGone, TimeoutReconnect
<1>8. SessionHandle' /\ ClosedByUser'
  BY <1>3, <1>4, <1>5
     DEF IInv, SessionHandle, ClosedByUser, TimeoutReconnect, clientVars,
         history
<1>9. ReconnectCount'
  BY <1>3, <1>5
     DEF IInv, ReconnectCount, ReconnectPending, TimeoutReconnect, clientVars,
         history
<1> QED BY <1>6, <1>7, <1>8, <1>9 DEF IInv

(* In the middle of a handler the token is the network thread's.           *)
LEMMA HalfWayFacts ==
  ASSUME IInv, net # "idle"
  PROVE  /\ asio \in Queues /\ asio.timer \in [Timers -> TimerStatus]
         /\ Starters(asio) = {} /\ AtMostOneStarter(asio)
         /\ link = "idle" /\ asio.timer["reconn"] # "armed"
         /\ m_network_thread = "running"
BY DEF IInv, TypeOK, Queues, QueuedToken, HeldToken, ThreadGone

(* on_fail hands its token to the reconnection timer, or drops it.         *)
LEMMA OnFailRestStep == ASSUME IInv, OnFailRest PROVE IInv'
<1>1. /\ asio \in Queues /\ asio.timer \in [Timers -> TimerStatus]
      /\ Starters(asio) = {} /\ AtMostOneStarter(asio)
      /\ link = "idle" /\ asio.timer["reconn"] # "armed"
      /\ m_network_thread = "running" /\ net = "fail.rest"
  BY HalfWayFacts DEF OnFailRest
<1>2. /\ asio' \in Queues /\ Starters(asio') = {} /\ AtMostOneStarter(asio')
      /\ \A t \in {"ping", "pong"} : asio'.timer[t] = asio.timer[t]
      /\ asio'.timer["reconn"] = "armed" => ReconnectAllowed
  <2>1. /\ KeepsStarters(asio, Arm(asio, "reconn"))
        /\ Arm(asio, "reconn").timer
             = [asio.timer EXCEPT !["reconn"] = "armed"]
    BY <1>1, ArmFacts DEF Timers
  <2>2. CASE ReconnectAllowed
    BY <1>1, <2>1, <2>2 DEF OnFailRest, KeepsStarters, Timers
  <2>3. CASE ~ReconnectAllowed
    BY <1>1, <2>3 DEF OnFailRest
  <2> QED BY <2>2, <2>3
<1>3. closed_live # "closing"
  BY <1>1 DEF IInv, ClosedByUser
<1>4. TypeOK'
  BY <1>2
     DEF IInv, TypeOK, OnFailRest, clientVars, NetStates, Reports, FailReport
<1>5. QueuedToken' /\ HeldToken' /\ ThreadGone'
  BY <1>1, <1>2
     DEF IInv, QueuedToken, HeldToken, ThreadGone, OnFailRest, clientVars
<1>6. SessionHandle' /\ ClosedByUser'
  BY <1>1, <1>2, <1>3
     DEF IInv, SessionHandle, ClosedByUser, OnFailRest, clientVars
<1>7. ReconnectCount'
  BY <1>2
     DEF IInv, ReconnectCount, ReconnectPending, ReconnectAllowed, OnFailRest,
         clientVars
<1> QED BY <1>4, <1>5, <1>6, <1>7 DEF IInv

(* on_close still holds its token after writing con_closed.                *)
LEMMA OnCloseWriteStep == ASSUME IInv, OnCloseWrite PROVE IInv'
<1>1. /\ Starters(asio) = {} /\ link = "idle"
      /\ asio.timer["reconn"] # "armed"
      /\ m_network_thread = "running" /\ net = "close.write"
  BY HalfWayFacts DEF OnCloseWrite
<1>2. Starters(asio') = {} /\ AtMostOneStarter(asio')
  BY <1>1 DEF IInv, QueuedToken, OnCloseWrite
<1>3. TypeOK'
  BY DEF IInv, TypeOK, OnCloseWrite, history, NetStates, ConStates
<1>4. QueuedToken' /\ HeldToken' /\ ThreadGone'
  BY <1>1, <1>2
     DEF IInv, QueuedToken, HeldToken, ThreadGone, OnCloseWrite
<1>5. SessionHandle' /\ ClosedByUser'
  BY <1>1, <1>2 DEF IInv, SessionHandle, ClosedByUser, OnCloseWrite, history
<1>6. ReconnectCount'
  BY <1>1, <1>2
     DEF IInv, ReconnectCount, ReconnectPending, OnCloseWrite, history
<1> QED BY <1>3, <1>4, <1>5, <1>6 DEF IInv

(* clear_timers empties both keep-alive slots and adds no starter.         *)
LEMMA ClearTimersFacts ==
  ASSUME NEW q \in Queues
  PROVE  /\ KeepsStarters(q, ClearTimers(q))
         /\ ClearTimers(q).timer["reconn"] = q.timer["reconn"]
         /\ ClearTimers(q).timer["ping"] = "null"
         /\ ClearTimers(q).timer["pong"] = "null"
<1> DEFINE d == Destroy(q, "pong")
<1>1. /\ KeepsStarters(q, d)
      /\ d.timer = [q.timer EXCEPT !["pong"] = "null"]
      /\ q.timer \in [Timers -> TimerStatus]
  BY DestroyFacts DEF Timers, Queues
<1>2. /\ KeepsStarters(d, Destroy(d, "ping"))
      /\ Destroy(d, "ping").timer = [d.timer EXCEPT !["ping"] = "null"]
  BY <1>1, DestroyFacts DEF Timers, KeepsStarters
<1> HIDE DEF d
<1>3. ClearTimers(q) = Destroy(d, "ping")
  BY DEF ClearTimers, d
<1> QED BY <1>1, <1>2, <1>3 DEF KeepsStarters, Timers

(* on_close hands its token to the reconnection timer, or drops it.        *)
LEMMA OnCloseRestStep == ASSUME IInv, OnCloseRest PROVE IInv'
<1> DEFINE q == ClearTimers(asio)
<1>1. /\ asio \in Queues
      /\ Starters(asio) = {} /\ AtMostOneStarter(asio)
      /\ link = "idle" /\ asio.timer["reconn"] # "armed"
      /\ m_network_thread = "running" /\ net = "close.rest"
  BY HalfWayFacts DEF OnCloseRest
<1>2. /\ q \in Queues /\ Starters(q) = {} /\ AtMostOneStarter(q)
      /\ q.timer \in [Timers -> TimerStatus]
      /\ q.timer["reconn"] # "armed"
      /\ q.timer["ping"] = "null" /\ q.timer["pong"] = "null"
  BY <1>1, ClearTimersFacts DEF KeepsStarters, Queues
<1> HIDE DEF q
<1>3. CASE ~ClosedByUs /\ ReconnectAllowed
  <2>1. asio' = Arm(q, "reconn")
    BY <1>3 DEF OnCloseRest, q
  <2>2. /\ asio' \in Queues /\ Starters(asio') = {} /\ AtMostOneStarter(asio')
        /\ asio'.timer["ping"] = "null" /\ asio'.timer["pong"] = "null"
    BY <1>2, <2>1, ArmFacts DEF KeepsStarters, Timers
  <2>3. closed_live # "closing"
    BY <1>1, <1>3 DEF IInv, ClosedByUser, ClosedByUs
  <2>4. TypeOK'
    BY <2>2
       DEF IInv, TypeOK, OnCloseRest, NetStates, ConStates, Reports
  <2>5. QueuedToken' /\ HeldToken' /\ ThreadGone'
    BY <1>1, <2>2
       DEF IInv, QueuedToken, HeldToken, ThreadGone, OnCloseRest
  <2>6. SessionHandle' /\ ClosedByUser'
    BY <1>1, <2>2, <2>3 DEF SessionHandle, ClosedByUser, OnCloseRest
  <2>7. ReconnectCount'
    BY <1>3, <2>2
       DEF IInv, ReconnectCount, ReconnectAllowed, OnCloseRest
  <2> QED BY <2>4, <2>5, <2>6, <2>7 DEF IInv
<1>4. CASE ~(~ClosedByUs /\ ReconnectAllowed)
  <2>1. asio' = q
    BY <1>4 DEF OnCloseRest, q
  <2>2. TypeOK'
    BY <1>2, <2>1
       DEF IInv, TypeOK, OnCloseRest, NetStates, ConStates, Reports
  <2>3. QueuedToken' /\ HeldToken' /\ ThreadGone'
    BY <1>1, <1>2, <2>1
       DEF IInv, QueuedToken, HeldToken, ThreadGone, OnCloseRest
  <2>4. SessionHandle' /\ ClosedByUser'
    BY <1>1, <1>2, <2>1 DEF SessionHandle, ClosedByUser, OnCloseRest
  <2>5. ReconnectCount'
    BY <1>2, <2>1
       DEF IInv, ReconnectCount, ReconnectPending, OnCloseRest
  <2> QED BY <2>2, <2>3, <2>4, <2>5 DEF IInv
<1> QED BY <1>3, <1>4

(* timeout_reconnect counts the attempt and hands over its token.          *)
LEMMA TimeoutReconnectGoStep == ASSUME IInv, TimeoutReconnectGo PROVE IInv'
<1>1. /\ Starters(asio) = {} /\ link = "idle"
      /\ asio.timer["reconn"] # "armed"
      /\ m_network_thread = "running" /\ net = "reconn.go"
  BY HalfWayFacts DEF TimeoutReconnectGo
<1>2. m_reconn_made < ReconnAttempts /\ closed_live # "closing"
  BY <1>1 DEF IInv, ReconnectCount, ReconnectPending, ClosedByUser
<1>3. Starters(asio') = {} /\ AtMostOneStarter(asio')
  BY <1>1 DEF IInv, QueuedToken, TimeoutReconnectGo
<1>4. TypeOK'
  BY DEF IInv, TypeOK, TimeoutReconnectGo, StartTransport, NetStates,
         ConStates, Links, CloseCodes, Reports
<1>5. QueuedToken' /\ HeldToken' /\ ThreadGone'
  BY <1>1, <1>3
     DEF IInv, QueuedToken, HeldToken, ThreadGone, TimeoutReconnectGo
<1>6. SessionHandle' /\ ClosedByUser'
  BY <1>1, <1>2
     DEF IInv, SessionHandle, ClosedByUser, TimeoutReconnectGo, StartTransport
<1>7. ReconnectCount'
  BY <1>1, <1>2, <1>3, ReconnAttemptsAssumption
     DEF IInv, TypeOK, ReconnectCount, ReconnectPending, TimeoutReconnectGo,
         StartTransport
<1> QED BY <1>4, <1>5, <1>6, <1>7 DEF IInv

(* The keep-alive touches neither the reconnection timer nor a timer that  *)
(* has no session.                                                         *)
KeepAliveOnly(q, r) ==
  /\ KeepsStarters(q, r)
  /\ r.timer \in [Timers -> TimerStatus]
  /\ r.timer["reconn"] = q.timer["reconn"]

(* A ping touches the keep-alive timers alone.                             *)
LEMMA PingOnFacts ==
  ASSUME NEW q \in Queues PROVE KeepAliveOnly(q, PingOn(q))
<1> DEFINE p == IF q.timer["ping"] = "null" THEN q ELSE Arm(q, "ping")
           r == IF p.timer["pong"] = "null" THEN Arm(p, "pong") ELSE p
<1>1. KeepAliveOnly(q, p)
  <2>1. /\ KeepsStarters(q, Arm(q, "ping"))
        /\ Arm(q, "ping").timer = [q.timer EXCEPT !["ping"] = "armed"]
        /\ q.timer \in [Timers -> TimerStatus]
    BY ArmFacts DEF Timers, Queues
  <2> QED BY <2>1 DEF KeepAliveOnly, KeepsStarters, Timers, TimerStatus
<1>2. p \in Queues
  BY <1>1 DEF KeepAliveOnly, KeepsStarters
<1> HIDE DEF p
<1>3. KeepAliveOnly(p, r)
  <2>1. /\ KeepsStarters(p, Arm(p, "pong"))
        /\ Arm(p, "pong").timer = [p.timer EXCEPT !["pong"] = "armed"]
        /\ p.timer \in [Timers -> TimerStatus]
    BY <1>2, ArmFacts DEF Timers, Queues
  <2> QED BY <1>2, <2>1 DEF KeepAliveOnly, KeepsStarters, Timers, TimerStatus
<1>4. PingOn(q) = r
  BY DEF PingOn, p
<1> HIDE DEF r
<1> QED BY <1>1, <1>3, <1>4 DEF KeepAliveOnly, KeepsStarters

(* A ping moves no token and makes no timer without a session.             *)
LEMMA PingStep == ASSUME IInv, Ping PROVE IInv'
<1>1. ~Starter(Head(asio.ready))
  BY DEF Ping, Runs, Starter
<1>2. /\ KeepsStarters(asio, PopReady(asio))
      /\ PopReady(asio) \in Queues /\ PopReady(asio).timer = asio.timer
      /\ m_network_thread = "running"
      /\ asio.timer \in [Timers -> TimerStatus]
  BY <1>1, RunsFacts DEF Ping
<1>3. /\ KeepsStarters(asio, asio')
      /\ asio'.timer["reconn"] = asio.timer["reconn"]
      /\ ~m_con => asio'.timer = asio.timer
  BY <1>2, PingOnFacts DEF Ping, PingExits, KeepAliveOnly, KeepsStarters
<1>4. TypeOK'
  BY <1>3 DEF IInv, TypeOK, Ping, clientVars, netVars, history, KeepsStarters
<1> QED
  BY <1>2, <1>3, <1>4, TokenStays
     DEF IInv, ThreadGone, Ping, clientVars, netVars, history, Timers

(* Renewing the pong timeout touches the keep-alive timers alone.          *)
LEMMA RenewPongFacts ==
  ASSUME NEW q \in Queues
  PROVE  /\ KeepAliveOnly(q, RenewPong(q))
         /\ \A t \in {"ping", "pong"} :
              q.timer[t] = "null" => RenewPong(q).timer[t] = "null"
<1>1. /\ KeepsStarters(q, Arm(q, "pong"))
      /\ Arm(q, "pong").timer = [q.timer EXCEPT !["pong"] = "armed"]
      /\ q.timer \in [Timers -> TimerStatus]
  BY ArmFacts DEF Timers, Queues
<1> QED
  BY <1>1 DEF RenewPong, KeepAliveOnly, KeepsStarters, Timers, TimerStatus

(* No frame moves a token, except into the closing handshake.              *)
LEMMA OnMessageHandlerStep == ASSUME IInv, OnMessageHandler PROVE IInv'
<1> DEFINE p == PopReady(asio)
           q == RenewPong(p)
<1>1. ~Starter(Head(asio.ready))
  BY DEF OnMessageHandler, Runs, Starter
<1>2. /\ KeepsStarters(asio, p) /\ p \in Queues /\ p.timer = asio.timer
      /\ m_network_thread = "running" /\ net = "idle" /\ Arg \in Frames
      /\ asio.timer \in [Timers -> TimerStatus]
  BY <1>1, RunsFacts DEF OnMessageHandler
<1> HIDE DEF p
<1>3. /\ KeepsStarters(asio, q) /\ q \in Queues
      /\ q.timer \in [Timers -> TimerStatus]
      /\ q.timer["reconn"] = asio.timer["reconn"]
      /\ \A t \in {"ping", "pong"} :
           asio.timer[t] = "null" => q.timer[t] = "null"
  BY <1>2, RenewPongFacts DEF KeepAliveOnly, KeepsStarters
<1> HIDE DEF q
<1>4. link = "open" => m_con
  BY DEF IInv, SessionHandle
<1>5. UNCHANGED <<clientVars, m_network_thread, netVars, user, report, tries,
                  calls, frames, user_closed>>
  BY DEF OnMessageHandler
<1>6. CASE link # "open"
  <2>1. asio' = p /\ UNCHANGED <<link, close_code, closed_live>>
    BY <1>6 DEF OnMessageHandler, p
  <2>2. TypeOK'
    BY <1>2, <1>5, <2>1 DEF IInv, TypeOK, clientVars, netVars
  <2> QED
    BY <1>2, <1>5, <2>1, <2>2, TokenStays
       DEF IInv, ThreadGone, clientVars, netVars
<1>7. CASE link = "open" /\ asio' = q /\ UNCHANGED <<link, close_code, closed_live>>
  <2>1. TypeOK'
    BY <1>3, <1>5, <1>7 DEF IInv, TypeOK, clientVars, netVars
  <2> QED
    BY <1>2, <1>3, <1>4, <1>5, <1>7, <2>1, TokenStays
       DEF IInv, ThreadGone, clientVars, netVars, Timers
<1>8. CASE /\ link = "open" /\ asio' = Arm(q, "ping")
           /\ UNCHANGED <<link, close_code, closed_live>>
  <2>1. /\ KeepsStarters(q, asio')
        /\ asio'.timer = [q.timer EXCEPT !["ping"] = "armed"]
    BY <1>3, <1>8, ArmFacts DEF Timers
  <2>2. KeepsStarters(asio, asio') /\ asio' \in Queues
    BY <1>3, <2>1 DEF KeepsStarters
  <2>3. TypeOK'
    BY <2>2, <1>5, <1>8 DEF IInv, TypeOK, clientVars, netVars
  <2> QED
    BY <1>2, <1>3, <1>4, <1>5, <1>8, <2>1, <2>2, <2>3, TokenStays
       DEF IInv, ThreadGone, clientVars, netVars, Timers
<1>9. CASE /\ link = "open" /\ asio' = Destroy(q, "pong")
           /\ UNCHANGED <<link, close_code, closed_live>>
  <2>1. /\ KeepsStarters(q, asio')
        /\ asio'.timer = [q.timer EXCEPT !["pong"] = "null"]
    BY <1>3, <1>9, DestroyFacts DEF Timers
  <2>2. KeepsStarters(asio, asio') /\ asio' \in Queues
    BY <1>3, <2>1 DEF KeepsStarters
  <2>3. TypeOK'
    BY <2>2, <1>5, <1>9 DEF IInv, TypeOK, clientVars, netVars
  <2> QED
    BY <1>2, <1>3, <1>4, <1>5, <1>9, <2>1, <2>2, <2>3, TokenStays
       DEF IInv, ThreadGone, clientVars, netVars, Timers
<1>10. ASSUME NEW code \in CloseCodes, CloseImpl(code, q)
       PROVE  IInv'
  <2>1. asio' \in Queues
    BY <1>3, <1>10, DestroyFacts DEF CloseImpl, Timers, KeepsStarters
  <2>2. TypeOK'
    BY <1>5, <1>10, <2>1
       DEF IInv, TypeOK, CloseImpl, clientVars, netVars, Links
  <2> QED BY <1>2, <1>3, <1>5, <1>10, <2>2, CloseImplFacts
<1> QED
  BY <1>6, <1>7, <1>8, <1>9, <1>10
     DEF OnMessageHandler, OnMessage, CloseCodes, p, q

(* run_loop returns only when there is no token.                           *)
LEMMA RunLoopEndStep == ASSUME IInv, RunLoopEnd PROVE IInv'
<1>1. /\ Starters(asio') = {} /\ AtMostOneStarter(asio')
      /\ \A t \in Timers : asio'.timer[t] # "armed"
  BY DEF IInv, TypeOK, Queues, RunLoopEnd, NoWork, Starters, StarterAt,
         AtMostOneStarter
<1>2. TypeOK'
  BY DEF IInv, TypeOK, RunLoopEnd, clientVars, netVars, history
<1>3. QueuedToken' /\ HeldToken' /\ ThreadGone'
  BY <1>1
     DEF IInv, QueuedToken, HeldToken, ThreadGone, RunLoopEnd, netVars, Timers
<1>4. SessionHandle' /\ ReconnectCount' /\ ClosedByUser'
  BY <1>1
     DEF IInv, SessionHandle, ReconnectCount, ReconnectPending, ClosedByUser,
         RunLoopEnd, clientVars, netVars, history, Timers
<1> QED BY <1>2, <1>3, <1>4 DEF IInv
-----------------------------------------------------------------------------
(* Time and the peer.  A deadline that passes either makes a keep-alive    *)
(* handler ready or passes the reconnection timer's token to the queue.    *)
LEMMA TimerExpiresStep ==
  ASSUME IInv, NEW t \in Timers, TimerExpires(t) PROVE IInv'
<1>1. /\ asio \in Queues /\ asio.timer \in [Timers -> TimerStatus]
      /\ asio' = Expire(asio, t) /\ asio.timer[t] = "armed"
      /\ m_network_thread = "running"
      /\ AtMostOneStarter(asio)
  BY DEF IInv, TypeOK, Queues, ThreadGone, QueuedToken, TimerExpires, Outside
<1>2. /\ asio' \in Queues
      /\ asio'.timer = [asio.timer EXCEPT ![t] = "idle"]
      /\ t # "reconn" => KeepsStarters(asio, asio')
      /\ t = "reconn" /\ Starters(asio) = {} =>
           /\ Starters(asio') = {Handler("reconn", "ok")}
           /\ AtMostOneStarter(asio')
  BY <1>1, ExpireFacts
<1>3. TypeOK'
  BY <1>2
     DEF IInv, TypeOK, TimerExpires, Outside, clientVars, netVars, Links,
         CloseCodes
<1>4. UNCHANGED <<clientVars, m_network_thread, link, netVars, user, tries,
                  closed_live>>
  BY DEF TimerExpires, Outside
<1>5. CASE t # "reconn"
  BY <1>1, <1>2, <1>3, <1>4, <1>5, TokenStays
     DEF IInv, ThreadGone, clientVars, netVars, Timers
<1>6. CASE t = "reconn"
  <2>1. Starters(asio) = {} /\ link = "idle" /\ net = "idle"
    BY <1>1, <1>6 DEF IInv, QueuedToken, HeldToken
  <2>2. /\ Starters(asio') = {Handler("reconn", "ok")}
        /\ AtMostOneStarter(asio')
        /\ asio'.timer["reconn"] # "armed"
        /\ \A k \in {"ping", "pong"} : asio'.timer[k] = asio.timer[k]
    BY <1>1, <1>2, <1>6, <2>1 DEF Timers
  <2>3. closed_live # "closing" /\ m_reconn_made < ReconnAttempts
    BY <1>1, <1>6 DEF IInv, ClosedByUser, ReconnectCount, ReconnectPending
  <2>4. QueuedToken' /\ HeldToken' /\ ThreadGone'
    BY <1>1, <1>4, <2>1, <2>2
       DEF IInv, QueuedToken, HeldToken, ThreadGone, Handler, clientVars,
           netVars
  <2>5. SessionHandle' /\ ClosedByUser'
    BY <1>4, <2>1, <2>2, <2>3
       DEF IInv, SessionHandle, ClosedByUser, clientVars, netVars
  <2>6. ReconnectCount'
    BY <1>4, <2>2, <2>3
       DEF IInv, ReconnectCount, ReconnectPending, Handler, clientVars, netVars
  <2> QED BY <1>3, <2>4, <2>5, <2>6 DEF IInv
<1> QED BY <1>5, <1>6

(* The token goes from the link to the handler that reports its fate.      *)
LEMMA LinkToQueue ==
  ASSUME IInv, TypeOK', NEW op, NEW q \in Queues, asio' = q,
         m_network_thread = "running",
         q = Post(asio, op, "-"),
         \/ link = "connecting" /\ link' = "settling"
              /\ op \in {"on_open", "on_fail"}
         \/ link \in {"open", "closing"} /\ link' = "dying"
              /\ op = "on_close",
         UNCHANGED <<clientVars, m_network_thread, netVars, user, tries,
                     closed_live>>
  PROVE  IInv'
<1>1. Starters(asio) = {} /\ asio.timer["reconn"] # "armed" /\ net = "idle"
  BY DEF IInv, QueuedToken, HeldToken
<1>2. /\ Handler(op, "-") \in Handlers
      /\ Starter(Handler(op, "-"))
  BY DEF Handler, Handlers, Starter
<1>3. /\ asio'.timer = asio.timer
      /\ Starters(asio') = {Handler(op, "-")}
      /\ AtMostOneStarter(asio')
  BY <1>1, <1>2, PostFacts DEF IInv, TypeOK
<1>4. QueuedToken' /\ HeldToken' /\ ThreadGone'
  BY <1>1, <1>3
     DEF IInv, QueuedToken, HeldToken, ThreadGone, Handler, clientVars, netVars
<1>5. SessionHandle'
  BY <1>3 DEF IInv, SessionHandle, clientVars, netVars
<1>6. ReconnectCount'
  BY <1>1, <1>3
     DEF IInv, ReconnectCount, ReconnectPending, Handler, clientVars, netVars
<1>7. ClosedByUser'
  BY <1>1, <1>3 DEF IInv, ClosedByUser, Handler, clientVars, netVars
<1> QED BY <1>4, <1>5, <1>6, <1>7 DEF IInv

(* A settled transport's token is its on_open or its on_fail.              *)
LEMMA TransportSettlesStep ==
  ASSUME IInv, NEW outcome \in {"on_open", "on_fail"},
         TransportSettles(outcome)
  PROVE  IInv'
<1>1. /\ Handler(outcome, "-") \in Handlers
      /\ m_network_thread = "running"
  BY DEF Handler, Handlers, IInv, ThreadGone, TransportSettles
<1>2. asio' \in Queues /\ asio' = Post(asio, outcome, "-")
  BY <1>1, PostFacts DEF IInv, TypeOK, TransportSettles, Outside
<1>3. TypeOK'
  BY <1>2
     DEF IInv, TypeOK, TransportSettles, Outside, clientVars, netVars, Links
<1> QED BY <1>1, <1>2, <1>3, LinkToQueue DEF TransportSettles, Outside

(* An ended link's token is its on_close.                                  *)
LEMMA LinkEndsStep ==
  ASSUME IInv, LinkBreaks \/ HandshakeEnds PROVE IInv'
<1>1. /\ Handler("on_close", "-") \in Handlers
      /\ m_network_thread = "running"
  BY DEF Handler, Handlers, IInv, ThreadGone, LinkBreaks, HandshakeEnds
<1>2. asio' \in Queues /\ asio' = Post(asio, "on_close", "-")
  BY <1>1, PostFacts
     DEF IInv, TypeOK, LinkBreaks, HandshakeEnds, Outside
<1>3. TypeOK'
  BY <1>2
     DEF IInv, TypeOK, LinkBreaks, HandshakeEnds, Outside, clientVars, netVars,
         Links, CloseCodes
<1> QED
  BY <1>1, <1>2, <1>3, LinkToQueue DEF LinkBreaks, HandshakeEnds, Outside

(* A frame from the server is not a starter.                               *)
LEMMA PeerSendsStep ==
  ASSUME IInv, NEW frame \in ServerSends, PeerSends(frame) PROVE IInv'
<1>1. /\ Handler("on_message", frame) \in Handlers
      /\ ~Starter(Handler("on_message", frame))
      /\ m_network_thread = "running"
  BY ServerSendsAssumption
     DEF Handler, Handlers, Frames, Starter, IInv, ThreadGone, PeerSends
<1>2. KeepsStarters(asio, asio') /\ asio'.timer = asio.timer
  BY <1>1, PostFacts DEF IInv, TypeOK, PeerSends, Outside, KeepsStarters
<1>3. TypeOK'
  BY <1>2, MaxFramesAssumption
     DEF IInv, TypeOK, PeerSends, Outside, clientVars, netVars, KeepsStarters
<1> QED
  BY <1>1, <1>2, <1>3, TokenStays
     DEF IInv, ThreadGone, PeerSends, Outside, clientVars, netVars

(* The server's closing handshake keeps the link's token.                  *)
LEMMA PeerClosesStep ==
  ASSUME IInv, NEW code \in {"normal", "policy"}, PeerCloses(code) PROVE IInv'
<1>1. /\ Starters(asio) = {} /\ asio.timer["reconn"] # "armed"
      /\ net = "idle" /\ m_network_thread = "running"
      /\ closed_live # "closing"
  BY DEF IInv, QueuedToken, HeldToken, ThreadGone, ClosedByUser, PeerCloses
<1>2. asio' = asio /\ link = "open" /\ link' = "closing"
  BY DEF PeerCloses, Outside
<1>3. UNCHANGED <<clientVars, m_network_thread, netVars, user, tries,
                  closed_live>>
  BY DEF PeerCloses, Outside
<1>4. Starters(asio') = Starters(asio)
  BY <1>2
<1>5. TypeOK'
  BY DEF IInv, TypeOK, PeerCloses, Outside, clientVars, netVars, Links,
         CloseCodes
<1>6. QueuedToken' /\ HeldToken' /\ ThreadGone'
  BY <1>1, <1>2, <1>3, <1>4
     DEF IInv, QueuedToken, HeldToken, ThreadGone, clientVars, netVars
<1>7. SessionHandle' /\ ReconnectCount' /\ ClosedByUser'
  BY <1>1, <1>2, <1>3, <1>4
     DEF IInv, SessionHandle, ReconnectCount, ReconnectPending, ClosedByUser,
         clientVars, netVars
<1> QED BY <1>5, <1>6, <1>7 DEF IInv

(* A stuttering step keeps the invariant.                                  *)
LEMMA StutterStep == ASSUME IInv, UNCHANGED vars PROVE IInv'
BY SMTT(30) DEF IInv, TypeOK, QueuedToken, HeldToken, ThreadGone, SessionHandle,
       ReconnectCount, ReconnectPending, ClosedByUser, vars, clientVars,
       netVars, history

-----------------------------------------------------------------------------
(* Every step keeps the invariant.                                         *)
LEMMA NextIInv == IInv /\ [Next]_vars => IInv'
<1> SUFFICES ASSUME IInv, [Next]_vars PROVE IInv'
  OBVIOUS
<1>1. CASE UserCalls
  BY <1>1, ConnectCallStep, CloseCallStep DEF UserCalls
<1>2. CASE UserSteps
  BY <1>2, ConnectCheckStep, ConnectJoinStep, ConnectStartStep, ClosePostStep,
     SyncJoinStep DEF UserSteps
<1>3. CASE NetSteps
  BY <1>3, AbortedStep, ConnectImplStep, CloseImplHandlerStep, OnOpenStep,
     OnFailStep, OnFailRestStep, OnCloseStep, OnCloseWriteStep,
     OnCloseRestStep, TimeoutReconnectStep, TimeoutReconnectGoStep, PingStep,
     TimeoutPongStep, OnMessageHandlerStep, RunLoopEndStep DEF NetSteps
<1>4. CASE Surroundings
  BY <1>4, TimerExpiresStep, TransportSettlesStep, PeerSendsStep,
     PeerClosesStep, LinkEndsStep DEF Surroundings
<1> QED BY <1>1, <1>2, <1>3, <1>4, StutterStep DEF Next

(* The variables keep their types, and the token invariant holds in every  *)
(* reachable state, whatever the constants.                                *)
THEOREM Invariance == Spec => []IInv
BY InitIInv, NextIInv, PTL DEF Spec

(* Every variable keeps its type.                                          *)
THEOREM TypeCorrect == Spec => []TypeOK
<1>1. IInv => TypeOK
  BY DEF IInv
<1> QED BY <1>1, Invariance, PTL

(* Between two successful opens the client starts at most ReconnAttempts   *)
(* + 1 transports.                                                         *)
THEOREM BudgetKept == Spec => []ReconnectBudget
<1>1. IInv => ReconnectBudget
  BY ReconnAttemptsAssumption
     DEF IInv, TypeOK, ReconnectCount, ReconnectBudget
<1> QED BY <1>1, Invariance, PTL

(* No keep-alive timer is left without a session.                          *)
THEOREM KeepAliveBounded == Spec => []KeepAliveHasSession
<1>1. IInv => KeepAliveHasSession
  BY DEF IInv, SessionHandle, KeepAliveHasSession
<1> QED BY <1>1, Invariance, PTL

(* A session that close() closed is not followed by a reconnection.        *)
THEOREM UserCloseStays == Spec => []UserCloseIsFinal
<1>1. IInv => UserCloseIsFinal
  BY DEF IInv, ClosedByUser, UserCloseIsFinal, NoReconnection
<1> QED BY <1>1, Invariance, PTL

(* A transport is started only when the previous one is gone.              *)
THEOREM TransportsAreSerial == Spec => OneTransport
<1>1. IInv /\ [Next]_vars => [tries' > tries => link = "idle"]_vars
  <2> SUFFICES ASSUME IInv, Next, tries' > tries PROVE link = "idle"
    OBVIOUS
  <2>1. tries \in Nat
    BY DEF IInv, TypeOK
  <2>2. tries' # tries /\ tries' # 0
    BY <2>1
  <2>3. ~UserCalls /\ ~UserSteps /\ ~Surroundings
    BY <2>2
       DEF UserCalls, UserSteps, ConnectCall, CloseCall, ConnectCheck,
           ConnectJoin, ConnectStart, ClosePost, SyncJoin, Surroundings,
           TimerExpires, TransportSettles, PeerSends, PeerCloses, LinkBreaks,
           HandshakeEnds, Outside, history
  <2>4. CASE ConnectImpl
    <3> DEFINE h == Handler("connect_impl", "-")
    <3>1. Head(asio.ready) \in Handlers
      BY <2>4, PopFacts DEF IInv, TypeOK, ConnectImpl, Runs
    <3>2. Head(asio.ready) = h /\ Starter(h)
      BY <2>4, <3>1
         DEF ConnectImpl, Runs, Handler, Handlers, Starter, Timers
    <3>3. h \in Starters(asio)
      BY <2>4, <3>2, RunsFacts DEF ConnectImpl
    <3> QED BY <3>3 DEF IInv, QueuedToken, Handler
  <2>5. CASE TimeoutReconnectGo
    BY <2>5, HalfWayFacts DEF TimeoutReconnectGo
  <2>6. CASE NetSteps /\ ~ConnectImpl /\ ~TimeoutReconnectGo
    BY <2>2, <2>6
       DEF NetSteps, Aborted, CloseImplHandler, OnOpen, OnFail, OnFailRest,
           OnClose, OnCloseWrite, OnCloseRest, TimeoutReconnect, Ping,
           TimeoutPong, OnMessageHandler, RunLoopEnd, history
  <2> QED BY <2>3, <2>4, <2>5, <2>6 DEF Next
<1> QED BY <1>1, Invariance, PTL DEF Spec, OneTransport

-----------------------------------------------------------------------------
(* A session starts fresh.  The invariant is about the order of the queue: *)
(* behind an on_open there is no ping and no timeout, for the timers that  *)
(* could have put one there do not exist until it has run.                 *)

Fresh(q) ==
  \A i, j \in DOMAIN q.ready :
    i < j /\ q.ready[i].op = "on_open" => ~KeepAliveDue(q.ready[j])

(* r is a queue, and as fresh as q.                                        *)
KeepsFresh(q, r) == r \in Queues /\ (Fresh(q) => Fresh(r))

(* Only the handlers' order matters.                                       *)
LEMMA SameReadyFresh ==
  ASSUME NEW q, NEW r \in Queues, r.ready = q.ready
  PROVE  KeepsFresh(q, r)
BY DEF KeepsFresh, Fresh

(* A handler may be posted if it is not a ping or a timeout, or if no      *)
(* on_open is queued.                                                      *)
LEMMA PostFresh ==
  ASSUME NEW q \in Queues, NEW op, NEW arg, Handler(op, arg) \in Handlers,
         \/ ~KeepAliveDue(Handler(op, arg))
         \/ \A i \in DOMAIN q.ready : q.ready[i].op # "on_open"
  PROVE  KeepsFresh(q, Post(q, op, arg))
<1> DEFINE h == Handler(op, arg)
           r == Post(q, op, arg)
           n == Len(q.ready)
<1>1. r \in Queues /\ r.ready = Append(q.ready, h) /\ q.ready \in Seq(Handlers)
  <2>1. /\ r = [q EXCEPT !.ready = Append(q.ready, h)]
        /\ q.ready \in Seq(Handlers)
        /\ h \in Handlers
    BY DEF Post, Queues
  <2> HIDE DEF h, r
  <2>2. Append(q.ready, h) \in Seq(Handlers)
    BY <2>1
  <2> QED BY <2>1, <2>2 DEF Queues
<1> HIDE DEF h, r
<1>2. /\ n \in Nat
      /\ DOMAIN q.ready = 1..n /\ DOMAIN r.ready = 1..(n + 1)
      /\ r.ready[n + 1] = h
      /\ \A i \in 1..n : r.ready[i] = q.ready[i]
  BY <1>1 DEF h
<1> HIDE DEF n
<1>0. ~KeepAliveDue(h) \/ \A i \in DOMAIN q.ready : q.ready[i].op # "on_open"
  BY DEF h
<1>3. ASSUME Fresh(q), NEW i \in DOMAIN r.ready, NEW j \in DOMAIN r.ready,
             i < j, r.ready[i].op = "on_open"
      PROVE  ~KeepAliveDue(r.ready[j])
  <2>1. i \in 1..n /\ q.ready[i].op = "on_open"
    BY <1>2, <1>3
  <2>2. CASE j = n + 1
    BY <1>0, <1>2, <2>1, <2>2
  <2>3. CASE j # n + 1
    <3>1. j \in 1..n /\ r.ready[j] = q.ready[j]
      BY <1>2, <2>3
    <3> QED BY <1>2, <1>3, <2>1, <3>1 DEF Fresh
  <2> QED BY <2>2, <2>3
<1> QED BY <1>1, <1>3 DEF KeepsFresh, Fresh, r

(* Taking the first handler leaves the order of the others.  If it is an   *)
(* on_open, no ping and no timeout is left.                                *)
LEMMA PopFresh ==
  ASSUME NEW q \in Queues, q.ready # <<>>
  PROVE  /\ KeepsFresh(q, PopReady(q))
         /\ Fresh(q) /\ Head(q.ready).op = "on_open" =>
              \A i \in DOMAIN PopReady(q).ready :
                ~KeepAliveDue(PopReady(q).ready[i])
<1> PICK r : r = PopReady(q)
  OBVIOUS
<1>1. r \in Queues /\ r.ready = Tail(q.ready) /\ q.ready \in Seq(Handlers)
  <2>1. r = [q EXCEPT !.ready = Tail(q.ready)]
    BY DEF PopReady
  <2> QED BY <2>1, PopFacts DEF Queues
<1>2. PICK n \in Nat :
        /\ DOMAIN q.ready = 1..(n + 1) /\ DOMAIN r.ready = 1..n
        /\ q.ready[1] = Head(q.ready)
        /\ \A i \in 1..n : r.ready[i] = q.ready[i + 1]
  <2>1. Len(q.ready) - 1 \in Nat
    BY <1>1
  <2> QED BY <1>1, <2>1
<1>3. ASSUME NEW i \in 1..n
      PROVE  i + 1 \in 1..(n + 1) /\ r.ready[i] = q.ready[i + 1] /\ 1 < i + 1
  BY <1>2
<1>4. Fresh(q) => Fresh(r)
  <2> SUFFICES ASSUME Fresh(q), NEW i \in 1..n, NEW j \in 1..n, i < j,
                      r.ready[i].op = "on_open"
               PROVE  ~KeepAliveDue(r.ready[j])
    BY <1>2 DEF Fresh
  <2>1. i + 1 < j + 1
    OBVIOUS
  <2> QED BY <1>2, <1>3, <2>1 DEF Fresh
<1>5. ASSUME Fresh(q), Head(q.ready).op = "on_open", NEW i \in DOMAIN r.ready
      PROVE  ~KeepAliveDue(r.ready[i])
  <2>1. 1 \in 1..(n + 1) /\ i \in 1..n
    BY <1>2
  <2> QED BY <1>2, <1>3, <1>5, <2>1 DEF Fresh
<1> QED BY <1>1, <1>4, <1>5 DEF KeepsFresh

(* Cancelling, destroying and arming a timer only add aborted handlers.    *)
LEMMA CancelFresh ==
  ASSUME NEW q \in Queues, NEW t \in Timers
  PROVE  KeepsFresh(q, Cancel(q, t))
<1> DEFINE h == Handler(t, "aborted")
           c == [timer |-> [q.timer EXCEPT ![t] = "idle"],
                 ready |-> q.ready]
           p == [timer |-> [q.timer EXCEPT ![t] = "idle"],
                 ready |-> Append(q.ready, h)]
<1>1. CASE q.timer[t] # "armed"
  BY <1>1 DEF Cancel, KeepsFresh
<1>2. CASE q.timer[t] = "armed"
  <2>1. h \in Handlers /\ ~KeepAliveDue(h)
    BY DEF Handler, Handlers, Timers, KeepAliveDue
  <2>2. c \in Queues /\ c.ready = q.ready
    BY DEF Queues, TimerStatus
  <2>3. KeepsFresh(q, c)
    BY <2>2, SameReadyFresh
  <2>4. Post(c, t, "aborted") = p
    BY DEF Post, Queues
  <2>5. KeepsFresh(c, p)
    BY <2>1, <2>2, <2>4, PostFresh
  <2>6. Cancel(q, t) = p
    BY <1>2 DEF Cancel
  <2> QED BY <2>3, <2>5, <2>6 DEF KeepsFresh
<1> QED BY <1>1, <1>2

(* The same of what is made of a cancelled timer.                          *)
LEMMA SetTimerFresh ==
  ASSUME NEW q \in Queues, NEW t \in Timers, NEW s \in TimerStatus
  PROVE  LET c == Cancel(q, t)
         IN  KeepsFresh(q, [c EXCEPT !.timer = [@ EXCEPT ![t] = s]])
<1> PICK c : c = Cancel(q, t)
  OBVIOUS
<1> PICK r : r = [c EXCEPT !.timer = [@ EXCEPT ![t] = s]]
  OBVIOUS
<1>1. KeepsFresh(q, c)
  BY CancelFresh
<1>2. r \in Queues /\ r.ready = c.ready
  BY <1>1 DEF KeepsFresh, Queues
<1>3. KeepsFresh(c, r)
  BY <1>2, SameReadyFresh
<1> QED BY <1>1, <1>3 DEF KeepsFresh

(* Destroying and arming a timer.                                          *)
LEMMA TimersFresh ==
  ASSUME NEW q \in Queues, NEW t \in Timers
  PROVE  KeepsFresh(q, Destroy(q, t)) /\ KeepsFresh(q, Arm(q, t))
BY SetTimerFresh DEF Destroy, Arm, TimerStatus

(* A deadline that passes posts a ping or a timeout.  No on_open may be    *)
(* queued then.                                                            *)
LEMMA ExpireFresh ==
  ASSUME NEW q \in Queues, NEW t \in Timers
  PROVE  (\/ t = "reconn"
          \/ \A i \in DOMAIN q.ready : q.ready[i].op # "on_open")
           => KeepsFresh(q, Expire(q, t))
<1> DEFINE h == Handler(t, "ok")
           c == [timer |-> [q.timer EXCEPT ![t] = "idle"],
                 ready |-> q.ready]
<1>1. h \in Handlers /\ (t = "reconn" => ~KeepAliveDue(h))
  BY DEF Handler, Handlers, Timers, KeepAliveDue
<1>2. c \in Queues /\ c.ready = q.ready
  BY DEF Queues, TimerStatus
<1>3. KeepsFresh(q, c)
  BY <1>2, SameReadyFresh
<1>4. Expire(q, t) = Post(c, t, "ok")
  BY DEF Post, Queues, Expire
<1> HIDE DEF c, h
<1>5. (\/ t = "reconn"
       \/ \A i \in DOMAIN q.ready : q.ready[i].op # "on_open")
        => KeepsFresh(c, Expire(q, t))
  BY <1>1, <1>2, <1>4, PostFresh DEF h
<1> QED BY <1>3, <1>5 DEF KeepsFresh

(* What the handlers make of the queue, step by step.                      *)
LEMMA FreshTrans ==
  ASSUME NEW q, NEW r, NEW s, KeepsFresh(q, r), KeepsFresh(r, s)
  PROVE  KeepsFresh(q, s)
BY DEF KeepsFresh

LEMMA HandlersFresh ==
  ASSUME NEW q \in Queues
  PROVE  /\ KeepsFresh(q, ClearTimers(q))
         /\ KeepsFresh(q, PingOn(q))
         /\ KeepsFresh(q, RenewPong(q))
<1>0. KeepsFresh(q, q)
  BY DEF KeepsFresh
<1>1. KeepsFresh(q, ClearTimers(q))
  <2> DEFINE r == Destroy(q, "pong")
  <2>1. KeepsFresh(q, r) /\ r \in Queues
    BY TimersFresh DEF Timers, KeepsFresh
  <2> HIDE DEF r
  <2>2. KeepsFresh(r, Destroy(r, "ping"))
    BY <2>1, TimersFresh DEF Timers
  <2>3. KeepsFresh(q, Destroy(r, "ping"))
    BY <2>1, <2>2, FreshTrans
  <2> QED BY <2>3 DEF ClearTimers, r
<1>2. KeepsFresh(q, PingOn(q))
  <2> DEFINE p == IF q.timer["ping"] = "null" THEN q ELSE Arm(q, "ping")
  <2>1. KeepsFresh(q, p) /\ p \in Queues
    BY <1>0, TimersFresh DEF Timers, KeepsFresh
  <2>2. PingOn(q) = IF p.timer["pong"] = "null" THEN Arm(p, "pong") ELSE p
    BY DEF PingOn
  <2> HIDE DEF p
  <2>3. KeepsFresh(p, Arm(p, "pong"))
    BY <2>1, TimersFresh DEF Timers
  <2>4. KeepsFresh(q, Arm(p, "pong"))
    BY <2>1, <2>3, FreshTrans
  <2> QED BY <2>1, <2>2, <2>4
<1>3. KeepsFresh(q, RenewPong(q))
  BY <1>0, TimersFresh DEF Timers, RenewPong
<1> QED BY <1>1, <1>2, <1>3

(* While there is a session no on_open is queued.                          *)
LEMMA NoOpenQueued ==
  ASSUME IInv, m_con
  PROVE  \A i \in DOMAIN asio.ready : asio.ready[i].op # "on_open"
<1> SUFFICES ASSUME NEW i \in DOMAIN asio.ready, asio.ready[i].op = "on_open"
             PROVE  FALSE
  OBVIOUS
<1>1. asio.ready[i] \in Starters(asio)
  BY DEF Starters, StarterAt, Starter
<1>2. link = "settling" /\ net = "idle"
  BY <1>1 DEF IInv, QueuedToken
<1> QED BY <1>2 DEF IInv, SessionHandle

(* A handler that has run.                                                 *)
LEMMA RunsFresh ==
  ASSUME IInv, NEW op, NEW args, Runs(op, args)
  PROVE  /\ PopReady(asio) \in Queues
         /\ KeepsFresh(asio, PopReady(asio))
         /\ op = "on_open" /\ Fresh(asio) =>
              \A i \in DOMAIN PopReady(asio).ready :
                ~KeepAliveDue(PopReady(asio).ready[i])
<1>1. asio \in Queues /\ asio.ready # <<>> /\ Head(asio.ready).op = op
  BY DEF IInv, TypeOK, Runs
<1> QED BY <1>1, PopFresh DEF KeepsFresh

LEMMA CloseImplFresh ==
  ASSUME NEW code, NEW q \in Queues, CloseImpl(code, q)
  PROVE  KeepsFresh(q, asio')
BY TimersFresh DEF CloseImpl, Timers

LEMMA OnMessageFresh ==
  ASSUME IInv, OnMessageHandler PROVE KeepsFresh(asio, asio')
<1> DEFINE p == PopReady(asio)
           q == RenewPong(p)
<1>1. p \in Queues /\ KeepsFresh(asio, p)
  BY RunsFresh DEF OnMessageHandler
<1>2. OnMessage(Arg) \/ asio' = p
  BY DEF OnMessageHandler
<1>3. q \in Queues /\ KeepsFresh(p, q)
  BY <1>1, HandlersFresh DEF KeepsFresh
<1>4. OnMessage(Arg) =>
        \/ asio' = Arm(q, "ping") \/ asio' = Destroy(q, "pong") \/ asio' = q
        \/ \E code \in CloseCodes : CloseImpl(code, q)
  BY DEF OnMessage, CloseCodes
<1> HIDE DEF q
<1>5. OnMessage(Arg) => KeepsFresh(q, asio')
  <2>1. KeepsFresh(q, q)
    BY <1>3 DEF KeepsFresh
  <2> QED BY <1>3, <1>4, <2>1, TimersFresh, CloseImplFresh DEF Timers
<1> HIDE DEF p
<1> QED BY <1>1, <1>2, <1>3, <1>5, FreshTrans

(* Every step keeps the queue fresh: a deadline of the keep-alive timers   *)
(* passes only in a session, when no on_open is queued.                    *)
LEMMA UserCallsFresh ==
  ASSUME IInv, UserCalls \/ UserSteps PROVE KeepsFresh(asio, asio')
<1>1. asio \in Queues /\ KeepsFresh(asio, asio)
  BY DEF IInv, TypeOK, KeepsFresh
<1>2. \A h \in {Handler("connect_impl", "-"), Handler("close_impl", "normal")} :
        h \in Handlers /\ ~KeepAliveDue(h)
  BY DEF Handler, Handlers, KeepAliveDue, CloseCodes
<1>3. CASE ConnectCall
  BY <1>1, <1>3, TimersFresh DEF ConnectCall, Timers
<1>4. CASE \E url \in {"good", "bad"} : ConnectStart(url)
  <2>1. asio' = Post(asio, "connect_impl", "-")
    BY <1>4 DEF ConnectStart
  <2> QED BY <1>1, <1>2, <2>1, PostFresh
<1>5. CASE ClosePost
  <2>1. asio' = Post(asio, "close_impl", "normal")
    BY <1>5 DEF ClosePost
  <2> QED BY <1>1, <1>2, <2>1, PostFresh
<1>6. CASE \/ CloseCall("close.post") \/ CloseCall("sync.post")
           \/ ConnectCheck \/ ConnectJoin \/ SyncJoin
  <2>1. asio' = asio
    BY <1>6 DEF CloseCall, ConnectCheck, ConnectJoin, SyncJoin
  <2> QED BY <1>1, <2>1
<1> QED BY <1>3, <1>4, <1>5, <1>6 DEF UserCalls, UserSteps

LEMMA NetStepsFresh ==
  ASSUME IInv, NetSteps PROVE KeepsFresh(asio, asio')
<1>1. asio \in Queues /\ KeepsFresh(asio, asio)
  BY DEF IInv, TypeOK, KeepsFresh
<1>2. CASE \/ ConnectImpl \/ OnOpen \/ OnFail \/ OnClose \/ TimeoutReconnect
           \/ \E t \in Timers : Aborted(t)
  BY <1>2, RunsFresh
     DEF Aborted, ConnectImpl, OnOpen, OnFail, OnClose, TimeoutReconnect
<1>3. CASE CloseImplHandler \/ TimeoutPong
  <2>1. /\ PopReady(asio) \in Queues /\ KeepsFresh(asio, PopReady(asio))
        /\ \E code \in CloseCodes \cup {Arg} : CloseImpl(code, PopReady(asio))
    BY <1>3, RunsFresh DEF CloseImplHandler, TimeoutPong, CloseCodes
  <2>2. KeepsFresh(PopReady(asio), asio')
    BY <2>1, CloseImplFresh
  <2> QED BY <2>1, <2>2, FreshTrans
<1>4. CASE OnFailRest
  BY <1>1, <1>4, TimersFresh DEF OnFailRest, Timers
<1>5. CASE OnCloseRest
  <2> DEFINE q == ClearTimers(asio)
  <2>1. KeepsFresh(asio, q) /\ q \in Queues
    BY <1>1, HandlersFresh DEF KeepsFresh
  <2>2. asio' = q \/ asio' = Arm(q, "reconn")
    BY <1>5 DEF OnCloseRest
  <2> HIDE DEF q
  <2>3. KeepsFresh(q, Arm(q, "reconn"))
    BY <2>1, TimersFresh DEF Timers
  <2> QED BY <2>1, <2>2, <2>3, FreshTrans
<1>6. CASE Ping
  <2> DEFINE q == PopReady(asio)
  <2>1. q \in Queues /\ KeepsFresh(asio, q)
    BY <1>6, RunsFresh DEF Ping
  <2>2. asio' = q \/ asio' = PingOn(q)
    BY <1>6 DEF Ping
  <2> HIDE DEF q
  <2>3. KeepsFresh(q, PingOn(q))
    BY <2>1, HandlersFresh
  <2> QED BY <2>1, <2>2, <2>3, FreshTrans
<1>7. CASE OnCloseWrite \/ TimeoutReconnectGo \/ RunLoopEnd
  <2>1. asio' = asio
    BY <1>7 DEF OnCloseWrite, TimeoutReconnectGo, RunLoopEnd
  <2> QED BY <1>1, <2>1
<1>8. CASE OnMessageHandler
  BY <1>8, OnMessageFresh
<1> QED BY <1>2, <1>3, <1>4, <1>5, <1>6, <1>7, <1>8 DEF NetSteps

LEMMA SurroundingsFresh ==
  ASSUME IInv, Surroundings PROVE KeepsFresh(asio, asio')
<1>1. asio \in Queues /\ KeepsFresh(asio, asio)
  BY DEF IInv, TypeOK, KeepsFresh
<1>2. ASSUME NEW t \in Timers, TimerExpires(t) PROVE KeepsFresh(asio, asio')
  <2>1. asio' = Expire(asio, t) /\ asio.timer[t] = "armed"
    BY <1>2 DEF TimerExpires, Outside
  <2>2. t = "reconn" \/ m_con
    BY <1>2, <2>1 DEF IInv, TypeOK, SessionHandle, Timers
  <2> QED BY <1>1, <2>1, <2>2, ExpireFresh, NoOpenQueued
<1>3. ASSUME NEW op \in {"on_open", "on_fail", "on_close"},
             asio' = Post(asio, op, "-")
      PROVE  KeepsFresh(asio, asio')
  <2>1. /\ Handler(op, "-") \in Handlers
        /\ ~KeepAliveDue(Handler(op, "-"))
    BY DEF Handler, Handlers, KeepAliveDue
  <2> QED BY <1>1, <1>3, <2>1, PostFresh
<1>4. ASSUME NEW frame \in ServerSends, PeerSends(frame)
      PROVE  KeepsFresh(asio, asio')
  <2>1. /\ Handler("on_message", frame) \in Handlers
        /\ ~KeepAliveDue(Handler("on_message", frame))
    BY ServerSendsAssumption DEF Handler, Handlers, Frames, KeepAliveDue
  <2>2. asio' = Post(asio, "on_message", frame)
    BY <1>4 DEF PeerSends, Outside
  <2> QED BY <1>1, <2>1, <2>2, PostFresh
<1>5. ASSUME NEW code, PeerCloses(code) PROVE KeepsFresh(asio, asio')
  BY <1>1, <1>5 DEF PeerCloses, Outside
<1>6. CASE LinkBreaks \/ HandshakeEnds
  BY <1>3, <1>6 DEF LinkBreaks, HandshakeEnds, Outside
<1>7. ASSUME NEW op \in {"on_open", "on_fail"}, TransportSettles(op)
      PROVE  KeepsFresh(asio, asio')
  BY <1>3, <1>7 DEF TransportSettles, Outside
<1> QED BY <1>2, <1>4, <1>5, <1>6, <1>7 DEF Surroundings

LEMMA QueueStaysFresh ==
  IInv /\ Fresh(asio) /\ [Next]_vars => Fresh(asio)'
<1> SUFFICES ASSUME IInv, Fresh(asio), [Next]_vars PROVE Fresh(asio')
  OBVIOUS
<1>1. CASE UNCHANGED vars
  BY <1>1 DEF vars
<1>2. CASE Next
  <2>1. KeepsFresh(asio, asio')
    BY <1>2, UserCallsFresh, NetStepsFresh, SurroundingsFresh DEF Next
  <2> QED BY <2>1 DEF KeepsFresh
<1> QED BY <1>1, <1>2

(* A session starts fresh: only on_open makes the handle, and behind it    *)
(* the queue holds no ping and no timeout of an earlier session.           *)
THEOREM NewSessionsAreFresh == Spec => SessionsStartFresh
<1>1. Init => Fresh(asio)
  BY DEF Init, Fresh
<1>2. IInv /\ Fresh(asio) /\ [Next]_vars =>
        [~m_con /\ m_con' =>
           \A i \in DOMAIN asio'.ready : ~KeepAliveDue(asio'.ready[i])]_vars
  <2> SUFFICES ASSUME IInv, Fresh(asio), Next, ~m_con, m_con'
               PROVE  \A i \in DOMAIN asio'.ready :
                        ~KeepAliveDue(asio'.ready[i])
    OBVIOUS
  <2>1. ~UserCalls /\ ~UserSteps /\ ~Surroundings
    BY DEF UserCalls, UserSteps, ConnectCall, CloseCall, ConnectCheck,
           ConnectJoin, ConnectStart, ClosePost, SyncJoin, Surroundings,
           TimerExpires, TransportSettles, PeerSends, PeerCloses, LinkBreaks,
           HandshakeEnds, Outside, clientVars
  <2>2. NetSteps => OnOpen
    BY DEF NetSteps, Aborted, ConnectImpl, CloseImplHandler, OnFail,
           OnFailRest, OnClose, OnCloseWrite, OnCloseRest, TimeoutReconnect,
           TimeoutReconnectGo, Ping, TimeoutPong, OnMessageHandler, RunLoopEnd,
           clientVars
  <2>3. Runs("on_open", {"-"}) /\ asio' = PopReady(asio)
    BY <2>1, <2>2 DEF Next, OnOpen
  <2> QED BY <2>3, RunsFresh
<1> QED
  BY <1>1, <1>2, QueueStaysFresh, Invariance, PTL DEF Spec, SessionsStartFresh

-----------------------------------------------------------------------------
(* SioClient implements SioConnection.  The token is what the mapping      *)
(* looks at: the connection is up while the session handle is set, and is  *)
(* being tried while the token is anywhere on its way to a session.  As    *)
(* the token is in one place, a step that takes it from there ends the     *)
(* attempts, and a step elsewhere is seen by nobody.                       *)

View == <<Phase, tries, closed_live = "closing", report>>

(* A step that tells the user nothing, and does not begin to try, is no    *)
(* step of the connection, or calls its attempts off.                      *)
LEMMA Quiets ==
  ASSUME m_con' = m_con, m_con \/ (Trying' => Trying),
         UNCHANGED <<tries, closed_live, report>>
  PROVE  [Connection!Next]_View
<1>1. CASE m_con \/ (Trying' <=> Trying)
  <2>1. Phase' = Phase
    BY <1>1 DEF Phase
  <2>. QED
    BY <2>1 DEF View
<1>2. CASE ~m_con /\ Trying /\ ~Trying'
  <2>1. Phase = "trying" /\ Phase' = "off"
    BY <1>2 DEF Phase
  <2>. QED
    BY <2>1 DEF Connection!Next, Connection!CallOff
<1>. QED
  BY <1>1, <1>2

(* So is one that keeps the starters and arms no reconnection timer.       *)
LEMMA QueueQuiets ==
  ASSUME m_con \/ Starters(asio') = Starters(asio),
         m_con \/ (asio'.timer["reconn"] = "armed"
                     => asio.timer["reconn"] = "armed"),
         UNCHANGED <<m_con, link, net, tries, closed_live, report>>
  PROVE  [Connection!Next]_View
<1>1. m_con \/ (Trying' => Trying)
  BY DEF Trying, ReconnectPending
<1>. QED
  BY <1>1, Quiets

(* While the token is away from a session, the handle is not set.          *)
LEMMA NoHandle ==
  ASSUME IInv, link \in {"idle", "connecting", "settling"},
         net \notin {"close.write", "close.rest"}
  PROVE  m_con = FALSE
BY DEF IInv, TypeOK, SessionHandle

-----------------------------------------------------------------------------
(* The user's thread.                                                      *)

(* connect() finds the connection off: it has joined the old thread.       *)
LEMMA ConnectStartConnects ==
  ASSUME IInv, NEW url \in {"good", "bad"}, ConnectStart(url)
  PROVE  Connection!Connect
<1>1. /\ asio \in Queues /\ Starters(asio) = {}
      /\ link = "idle" /\ net = "idle"
      /\ \A t \in Timers : asio.timer[t] # "armed"
  BY DEF IInv, TypeOK, ThreadGone, ConnectStart
<1>2. m_con = FALSE /\ m_con' = m_con
  BY <1>1, NoHandle DEF ConnectStart
<1>3. ~Trying
  BY <1>1 DEF Trying, ReconnectPending, Timers
<1>4. Starters(asio') = {Handler("connect_impl", "-")}
  <2>1. /\ Handler("connect_impl", "-") \in Handlers
        /\ Starter(Handler("connect_impl", "-"))
    BY DEF Handler, Handlers, Starter
  <2>. QED
    BY <1>1, <2>1, PostFacts DEF ConnectStart
<1>5. Trying'
  BY <1>4 DEF Trying
<1>6. Phase = "off" /\ Phase' = "trying"
  BY <1>2, <1>3, <1>5 DEF Phase
<1>. QED
  BY <1>6 DEF ConnectStart, Connection!Connect

(* Every other step of the user's thread is quiet.                         *)
LEMMA UserQuiets ==
  ASSUME IInv,
         \/ UserCalls
         \/ ConnectCheck \/ ConnectJoin \/ ClosePost \/ SyncJoin
  PROVE  [Connection!Next]_View
<1>1. asio \in Queues
  BY DEF IInv, TypeOK
<1>2. CASE ConnectCall
  <2>1. /\ KeepsStarters(asio, asio')
        /\ asio'.timer = [asio.timer EXCEPT !["reconn"] = "null"]
    BY <1>1, <1>2, DestroyFacts DEF ConnectCall, Timers
  <2>2. asio'.timer["reconn"] # "armed"
    BY <1>1, <2>1 DEF Queues, Timers
  <2>. QED
    BY <1>2, <2>1, <2>2, QueueQuiets
       DEF ConnectCall, clientVars, netVars, KeepsStarters
<1>3. CASE ClosePost
  <2>1. /\ Handler("close_impl", "normal") \in Handlers
        /\ ~Starter(Handler("close_impl", "normal"))
    BY DEF Handler, Handlers, CloseCodes, Starter
  <2>2. Starters(asio') = Starters(asio) /\ asio'.timer = asio.timer
    BY <1>1, <1>3, <2>1, PostFacts DEF ClosePost
  <2>. QED
    BY <1>3, <2>2, QueueQuiets DEF ClosePost, clientVars, netVars, history
<1>4. CASE CloseCall("close.post") \/ CloseCall("sync.post")
  BY <1>4, QueueQuiets DEF CloseCall, netVars
<1>5. CASE ConnectCheck \/ ConnectJoin \/ SyncJoin
  BY <1>5, QueueQuiets
     DEF ConnectCheck, ConnectJoin, SyncJoin, clientVars, netVars, history
<1>. QED
  BY <1>2, <1>3, <1>4, <1>5 DEF UserCalls

-----------------------------------------------------------------------------
(* The network thread.                                                     *)

(* What running a starter finds: its token, which is then nowhere else.    *)
LEMMA StarterRuns ==
  ASSUME IInv, NEW op, NEW arg, Runs(op, {arg}), Starter(Handler(op, arg))
  PROVE  /\ Handler(op, arg) \in Starters(asio)
         /\ Starters(PopReady(asio)) = {}
         /\ PopReady(asio).timer = asio.timer
         /\ net = "idle" /\ asio.timer["reconn"] # "armed"
<1>1. Head(asio.ready) \in Handlers
  BY PopFacts DEF IInv, TypeOK, Runs
<1>2. Head(asio.ready) = Handler(op, arg)
  BY <1>1 DEF Runs, Handler, Handlers
<1>3. /\ Handler(op, arg) \in Starters(asio)
      /\ Starters(PopReady(asio)) = {} /\ PopReady(asio).timer = asio.timer
  BY <1>2, RunsFacts
<1>. QED
  BY <1>3 DEF IInv, QueuedToken

(* The first transport: from the token of connect_impl.                    *)
LEMMA ConnectImplTries ==
  ASSUME IInv, ConnectImpl PROVE Connection!Try \/ Connection!Fail
<1>1. Starter(Handler("connect_impl", "-"))
  BY DEF Starter, Handler
<1>2. /\ Handler("connect_impl", "-") \in Starters(asio)
      /\ Starters(asio') = {} /\ asio'.timer["reconn"] # "armed"
      /\ net = "idle"
  BY <1>1, StarterRuns DEF ConnectImpl
<1>3. link = "idle" /\ tries = 0
  BY <1>2 DEF IInv, QueuedToken, ReconnectCount, Handler
<1>4. m_con = FALSE /\ m_con' = m_con /\ net' = net
  BY <1>2, <1>3, NoHandle DEF ConnectImpl, clientVars, netVars
<1>5. Phase = "trying"
  BY <1>2, <1>4 DEF Phase, Trying
<1>6. CASE m_base_url = "good"
  <2>1. Phase' = "trying"
    BY <1>4, <1>6 DEF Phase, Trying, ConnectImpl, StartTransport
  <2>. QED
    BY <1>3, <1>5, <1>6, <2>1, ReconnAttemptsAssumption
       DEF ConnectImpl, StartTransport, Connection!Try
<1>7. CASE m_base_url # "good"
  <2>1. ~Trying'
    BY <1>2, <1>3, <1>4, <1>7
       DEF Trying, ReconnectPending, ConnectImpl, StartTransport
  <2>2. Phase' = "off"
    BY <1>4, <2>1 DEF Phase
  <2>. QED
    BY <1>5, <1>7, <2>2 DEF ConnectImpl, StartTransport, Connection!Fail
<1>. QED
  BY <1>6, <1>7

(* A transport that opens was being tried.                                 *)
LEMMA OnOpenOpens ==
  ASSUME IInv, OnOpen PROVE Connection!Open
<1>1. Starter(Handler("on_open", "-"))
  BY DEF Starter, Handler
<1>2. Handler("on_open", "-") \in Starters(asio) /\ net = "idle"
  BY <1>1, StarterRuns DEF OnOpen
<1>3. link = "settling"
  BY <1>2 DEF IInv, QueuedToken, Handler
<1>4. Phase = "trying"
  BY <1>2, <1>3, NoHandle DEF Phase, Trying
<1>5. Phase' = "up"
  BY DEF Phase, OnOpen
<1>. QED
  BY <1>4, <1>5 DEF OnOpen, Connection!Open

(* A transport that fails is still being tried ...                         *)
LEMMA OnFailQuiets ==
  ASSUME IInv, OnFail PROVE [Connection!Next]_View
<1>1. Starter(Handler("on_fail", "-"))
  BY DEF Starter, Handler
<1>2. Handler("on_fail", "-") \in Starters(asio) /\ net = "idle"
  BY <1>1, StarterRuns DEF OnFail
<1>3. link = "settling"
  BY <1>2 DEF IInv, QueuedToken, Handler
<1>4. m_con = FALSE /\ m_con' = FALSE /\ Trying
  BY <1>2, <1>3, NoHandle DEF OnFail, Trying
<1>. QED
  BY <1>4, Quiets DEF OnFail, history

(* ... until on_fail arms the timer or gives up.                           *)
LEMMA OnFailRestFails ==
  ASSUME IInv, OnFailRest PROVE [Connection!Next]_View
<1>1. /\ Starters(asio) = {} /\ link = "idle"
      /\ asio.timer["reconn"] # "armed" /\ net = "fail.rest"
  BY HalfWayFacts DEF OnFailRest
<1>2. m_con = FALSE /\ m_con' = m_con /\ link' = link /\ net' = "idle"
  BY <1>1, NoHandle DEF OnFailRest, clientVars
<1>3. CASE ReconnectAllowed
  <2>1. Trying
    BY <1>1 DEF Trying
  <2>. QED
    BY <1>2, <1>3, <2>1, Quiets DEF OnFailRest, FailReport
<1>4. CASE ~ReconnectAllowed
  <2>1. asio' = asio /\ report' = "fail"
    BY <1>4 DEF OnFailRest, FailReport
  <2>2. Trying /\ ~Trying'
    BY <1>1, <1>2, <2>1 DEF Trying, ReconnectPending
  <2>3. Phase = "trying" /\ Phase' = "off"
    BY <1>2, <2>2 DEF Phase
  <2>. QED
    BY <2>1, <2>3 DEF OnFailRest, Connection!Next, Connection!Fail
<1>. QED
  BY <1>3, <1>4

(* A session that ends is tried again, unless the user closed it, or it is *)
(* reported, as the user's if it was.                                      *)
LEMMA OnCloseRestEnds ==
  ASSUME IInv, OnCloseRest PROVE Connection!Retry \/ Connection!End
<1>1. /\ asio \in Queues /\ Starters(asio) = {} /\ link = "idle"
      /\ asio.timer["reconn"] # "armed" /\ net = "close.rest"
  BY HalfWayFacts DEF OnCloseRest
<1>2. m_con /\ m_con' = FALSE /\ link' = link /\ net' = "idle"
  BY <1>1 DEF IInv, SessionHandle, OnCloseRest
<1>3. closed_live = "closing" => ClosedByUs
  BY <1>1 DEF IInv, ClosedByUser, ClosedByUs
<1>4. /\ KeepsStarters(asio, ClearTimers(asio))
      /\ ClearTimers(asio).timer["reconn"] # "armed"
  BY <1>1, ClearTimersFacts
<1>5. Phase = "up"
  BY <1>2 DEF Phase
<1>6. CASE ~ClosedByUs /\ ReconnectAllowed
  <2>1. asio' = Arm(ClearTimers(asio), "reconn")
    BY <1>6 DEF OnCloseRest
  <2>2. asio'.timer["reconn"] = "armed"
    <3> DEFINE q == ClearTimers(asio)
    <3>1. q \in Queues
      BY <1>4 DEF KeepsStarters
    <3> HIDE DEF q
    <3>2. Arm(q, "reconn").timer = [q.timer EXCEPT !["reconn"] = "armed"]
      BY <3>1, ArmFacts DEF Timers
    <3>. QED
      BY <2>1, <3>1, <3>2 DEF Queues, Timers, q
  <2>3. Phase' = "trying"
    BY <1>2, <2>2 DEF Phase, Trying, ReconnectPending
  <2>. QED
    BY <1>3, <1>5, <1>6, <2>3 DEF OnCloseRest, Connection!Retry
<1>7. CASE ~(~ClosedByUs /\ ReconnectAllowed)
  <2>1. /\ asio' = ClearTimers(asio)
        /\ report' = IF ClosedByUs THEN "normal" ELSE "drop"
    BY <1>7 DEF OnCloseRest
  <2>2. ~Trying'
    BY <1>1, <1>2, <1>4, <2>1 DEF Trying, ReconnectPending, KeepsStarters
  <2>3. Phase' = "off"
    BY <1>2, <2>2 DEF Phase
  <2>. QED
    BY <1>3, <1>5, <2>1, <2>3 DEF OnCloseRest, Connection!End
<1>. QED
  BY <1>6, <1>7

(* A reconnection is one more transport, of those that are left.           *)
LEMMA TimeoutReconnectGoTries ==
  ASSUME IInv, TimeoutReconnectGo PROVE Connection!Try \/ Connection!Fail
<1>1. /\ Starters(asio) = {} /\ link = "idle"
      /\ asio.timer["reconn"] # "armed" /\ net = "reconn.go"
  BY HalfWayFacts DEF TimeoutReconnectGo
<1>2. /\ m_con = FALSE /\ m_con' = m_con /\ asio' = asio /\ net' = "idle"
  BY <1>1, NoHandle DEF TimeoutReconnectGo
<1>3. tries <= ReconnAttempts
  BY <1>1, ReconnAttemptsAssumption
     DEF IInv, TypeOK, ReconnectCount, ReconnectPending
<1>4. Phase = "trying"
  BY <1>1, <1>2 DEF Phase, Trying, ReconnectPending
<1>5. CASE m_base_url = "good"
  <2>1. Phase' = "trying"
    BY <1>2, <1>5 DEF Phase, Trying, TimeoutReconnectGo, StartTransport
  <2>. QED
    BY <1>3, <1>4, <1>5, <2>1
       DEF TimeoutReconnectGo, StartTransport, Connection!Try
<1>6. CASE m_base_url # "good"
  <2>1. ~Trying'
    BY <1>1, <1>2, <1>6
       DEF Trying, ReconnectPending, TimeoutReconnectGo, StartTransport
  <2>2. Phase' = "off"
    BY <1>2, <2>1 DEF Phase
  <2>. QED
    BY <1>4, <1>6, <2>2
       DEF TimeoutReconnectGo, StartTransport, Connection!Fail
<1>. QED
  BY <1>5, <1>6

(* close_impl closes a session, or calls the attempts off.                 *)
LEMMA CloseImplCloses ==
  ASSUME IInv, NEW code \in CloseCodes, CloseImpl(code, PopReady(asio)),
         KeepsStarters(asio, PopReady(asio)), PopReady(asio) \in Queues,
         UNCHANGED <<m_con, net, tries, report>>
  PROVE  [Connection!Next]_View
<1>1. CASE closed_live' = closed_live
  <2>1. /\ KeepsStarters(PopReady(asio), asio')
        /\ asio'.timer = [PopReady(asio).timer EXCEPT !["reconn"] = "null"]
    BY DestroyFacts DEF CloseImpl, Timers
  <2>2. asio'.timer["reconn"] # "armed" /\ Starters(asio') = Starters(asio)
    BY <2>1 DEF Queues, Timers, KeepsStarters
  <2>3. m_con \/ (Trying' => Trying)
    BY <2>2 DEF CloseImpl, Trying, ReconnectPending
  <2>. QED
    BY <1>1, <2>3, Quiets
<1>2. CASE closed_live' # closed_live
  <2>1. m_con /\ link = "open" /\ closed_live' = m_con_state
    BY <1>2 DEF CloseImpl
  <2>2. closed_live # "closing"
    BY <2>1 DEF IInv, ClosedByUser
  <2>3. Phase = "up" /\ Phase' = "up"
    BY <2>1 DEF Phase
  <2>4. CASE m_con_state = "closing"
    BY <2>1, <2>3, <2>4 DEF Connection!Next, Connection!Close
  <2>5. CASE m_con_state # "closing"
    BY <2>1, <2>2, <2>3, <2>5 DEF View
  <2>. QED
    BY <2>4, <2>5
<1>. QED
  BY <1>1, <1>2

(* Every other handler is quiet.                                           *)
LEMMA NetQuiets ==
  ASSUME IInv,
         \/ \E t \in Timers : Aborted(t)
         \/ CloseImplHandler \/ OnClose \/ OnCloseWrite \/ TimeoutReconnect
         \/ Ping \/ TimeoutPong \/ OnMessageHandler \/ RunLoopEnd
  PROVE  [Connection!Next]_View
<1>1. ASSUME NEW t \in Timers, Aborted(t) PROVE [Connection!Next]_View
  <2>1. ~Starter(Head(asio.ready))
    BY <1>1 DEF Aborted, Runs, Starter, Timers
  <2>2. KeepsStarters(asio, asio') /\ asio'.timer = asio.timer
    BY <1>1, <2>1, RunsFacts DEF Aborted
  <2>. QED
    BY <1>1, <2>2, QueueQuiets
       DEF Aborted, clientVars, netVars, history, KeepsStarters
<1>2. CASE CloseImplHandler
  <2>1. ~Starter(Head(asio.ready))
    BY <1>2 DEF CloseImplHandler, Runs, Starter
  <2>2. /\ KeepsStarters(asio, PopReady(asio)) /\ PopReady(asio) \in Queues
        /\ Arg \in CloseCodes
    BY <1>2, <2>1, RunsFacts DEF CloseImplHandler
  <2>. QED
    BY <1>2, <2>2, CloseImplCloses DEF CloseImplHandler, clientVars, netVars
<1>3. CASE TimeoutPong
  <2>1. ~Starter(Head(asio.ready)) /\ "policy" \in CloseCodes
    BY <1>3 DEF TimeoutPong, Runs, Starter, CloseCodes
  <2>2. KeepsStarters(asio, PopReady(asio)) /\ PopReady(asio) \in Queues
    BY <1>3, <2>1, RunsFacts DEF TimeoutPong
  <2>. QED
    BY <1>3, <2>1, <2>2, CloseImplCloses DEF TimeoutPong, clientVars, netVars
<1>4. CASE OnClose
  <2>1. Starter(Handler("on_close", "-"))
    BY DEF Starter, Handler
  <2>2. Handler("on_close", "-") \in Starters(asio)
    BY <1>4, <2>1, StarterRuns DEF OnClose
  <2>3. m_con
    BY <2>2 DEF IInv, QueuedToken, SessionHandle, Handler
  <2>. QED
    BY <1>4, <2>3, Quiets DEF OnClose, clientVars, history
<1>5. CASE OnCloseWrite
  <2>1. m_con
    BY <1>5 DEF IInv, SessionHandle, OnCloseWrite
  <2>. QED
    BY <1>5, <2>1, Quiets DEF OnCloseWrite, history
<1>6. CASE TimeoutReconnect
  <2>1. Starter(Handler("reconn", "ok"))
    BY DEF Starter, Handler
  <2>2. Trying
    BY <1>6, <2>1, StarterRuns DEF TimeoutReconnect, Trying, ReconnectPending
  <2>. QED
    BY <1>6, <2>2, Quiets DEF TimeoutReconnect, clientVars, history
<1>7. CASE Ping \/ OnMessageHandler
  <2>1. ~Starter(Head(asio.ready))
    BY <1>7 DEF Ping, OnMessageHandler, Runs, Starter, Frames
  <2>2. KeepsStarters(asio, PopReady(asio)) /\ PopReady(asio).timer = asio.timer
    BY <1>7, <2>1, RunsFacts DEF Ping, OnMessageHandler
  <2>. QED
    <3>1. CASE ~m_con
      BY <1>7, <2>2, <3>1, QueueQuiets
         DEF IInv, SessionHandle, Ping, PingExits, OnMessageHandler, clientVars,
             netVars, history, KeepsStarters
    <3>2. CASE m_con /\ Ping
      BY <3>2, Quiets DEF Ping, clientVars, history
    <3>3. CASE m_con /\ OnMessageHandler
      <4>1. CASE closed_live' = closed_live
        BY <3>3, <4>1, Quiets DEF OnMessageHandler, clientVars
      <4>2. closed_live' = closed_live
        BY <3>3 DEF OnMessageHandler, OnMessage, CloseImpl
      <4>. QED
        BY <4>1, <4>2
    <3>. QED
      BY <1>7, <3>1, <3>2, <3>3
<1>8. CASE RunLoopEnd
  BY <1>8, QueueQuiets DEF RunLoopEnd, clientVars, netVars, history
<1>. QED
  BY <1>1, <1>2, <1>3, <1>4, <1>5, <1>6, <1>7, <1>8

-----------------------------------------------------------------------------
(* Time and the peer move the token, or say nothing.                       *)
LEMMA SurroundingsQuiet ==
  ASSUME IInv, Surroundings PROVE [Connection!Next]_View
<1>1. asio \in Queues /\ asio.timer \in [Timers -> TimerStatus]
  BY DEF IInv, TypeOK, Queues
<1>2. ASSUME NEW t \in Timers, TimerExpires(t) PROVE [Connection!Next]_View
  <2>1. CASE t = "reconn"
    <3>1. Trying
      BY <1>2, <2>1 DEF TimerExpires, Trying, ReconnectPending
    <3>. QED
      BY <1>2, <3>1, Quiets DEF TimerExpires, Outside, clientVars
  <2>2. CASE t # "reconn"
    <3>1. /\ KeepsStarters(asio, asio')
          /\ asio'.timer = [asio.timer EXCEPT ![t] = "idle"]
      BY <1>1, <1>2, <2>2, ExpireFacts DEF TimerExpires, Outside
    <3>2. asio'.timer["reconn"] = asio.timer["reconn"]
      BY <1>1, <2>2, <3>1 DEF Timers
    <3>. QED
      BY <1>2, <3>1, <3>2, QueueQuiets
         DEF TimerExpires, Outside, clientVars, netVars, KeepsStarters
  <2>. QED
    BY <2>1, <2>2
<1>3. ASSUME NEW outcome \in {"on_open", "on_fail"}, TransportSettles(outcome)
      PROVE  [Connection!Next]_View
  <2>1. Trying
    BY <1>3 DEF TransportSettles, Trying
  <2>. QED
    BY <1>3, <2>1, Quiets DEF TransportSettles, Outside, clientVars
<1>4. CASE \/ \E frame \in ServerSends : PeerSends(frame)
           \/ \E code \in {"normal", "policy"} : PeerCloses(code)
           \/ LinkBreaks \/ HandshakeEnds
  <2>1. m_con
    BY <1>4 DEF IInv, SessionHandle, PeerSends, PeerCloses, LinkBreaks,
                HandshakeEnds
  <2>. QED
    BY <1>4, <2>1, Quiets
       DEF PeerSends, PeerCloses, LinkBreaks, HandshakeEnds, Outside, clientVars
<1>. QED
  BY <1>2, <1>3, <1>4 DEF Surroundings

-----------------------------------------------------------------------------
(* At first the connection is off.                                         *)
LEMMA InitIsOff == Init => Connection!Init
<1>. SUFFICES ASSUME Init PROVE Connection!Init
  OBVIOUS
<1>1. Starters(asio) = {}
  BY DEF Init, StarterAt, Starters
<1>2. ~Trying
  BY <1>1 DEF Init, Trying, ReconnectPending, Timers
<1>. QED
  BY <1>2 DEF Init, Phase, Connection!Init

(* Every step of the client is one of the connection's, or is not seen.    *)
LEMMA StepIsConnectionStep ==
  IInv /\ [Next]_vars => [Connection!Next]_View
<1>. SUFFICES ASSUME IInv, [Next]_vars PROVE [Connection!Next]_View
  OBVIOUS
<1>1. CASE UserCalls
  BY <1>1, UserQuiets
<1>2. CASE UserSteps
  BY <1>2, UserQuiets, ConnectStartConnects DEF UserSteps, Connection!Next
<1>3. CASE NetSteps
  BY <1>3, NetQuiets, ConnectImplTries, OnOpenOpens, OnFailQuiets,
     OnFailRestFails, OnCloseRestEnds, TimeoutReconnectGoTries
     DEF NetSteps, Connection!Next
<1>4. CASE Surroundings
  BY <1>4, SurroundingsQuiet
<1>5. CASE UNCHANGED vars
  BY <1>5, QueueQuiets DEF vars, clientVars, netVars, history
<1>. QED
  BY <1>1, <1>2, <1>3, <1>4, <1>5 DEF Next

(* The client is a SioConnection, whatever the constants: one connection   *)
(* at a time, tried within its budget, and ended, once, for good.          *)
THEOREM ImplementsConnection == Spec => IsConnection
BY InitIsOff, StepIsConnectionStep, Invariance, PTL
   DEF Spec, IsConnection, Connection!Spec, View
=============================================================================
