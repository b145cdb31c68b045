-------------------------------- MODULE Asio --------------------------------
(***************************************************************************)
(* What the client relies on of Boost.Asio (a library outside the          *)
(* repository), as pure operators on one record                            *)
(*                                                                         *)
(*   [timer |-> [t \in Timers |-> status], ready |-> <<handler, ...>>]     *)
(*                                                                         *)
(* "ready" is the io_service's queue of handlers that can run; one thread  *)
(* runs them, in order.  A timer slot is a unique_ptr<deadline_timer>:     *)
(* "null" when it is empty, "armed" while an async_wait is pending and     *)
(* "idle" when the timer exists with no wait pending.                      *)
(*                                                                         *)
(* The fact everything else turns on: a wait that has expired has already  *)
(* put its handler, with a success code, in "ready".  cancel(),            *)
(* expires_from_now() and the destructor abort only a wait that is still   *)
(* pending; they never take a handler back.                                *)
(***************************************************************************)
EXTENDS Sequences

TimerStatus == {"null", "idle", "armed"}

(* A handler: the function that was bound and what it is called with.      *)
Handler(op, arg) == [op |-> op, arg |-> arg]

(* io_service::post, and dispatch from a thread that does not run it.      *)
Post(q, op, arg) == [q EXCEPT !.ready = Append(@, Handler(op, arg))]

(* The running thread takes the first ready handler.                       *)
PopReady(q) == [q EXCEPT !.ready = Tail(@)]

(* deadline_timer::cancel: the pending wait completes with an error.       *)
Cancel(q, t) ==
  IF q.timer[t] = "armed"
  THEN [timer |-> [q.timer EXCEPT ![t] = "idle"],
        ready |-> Append(q.ready, Handler(t, "aborted"))]
  ELSE q

(* unique_ptr::reset: the destructor of the timer cancels its wait.        *)
Destroy(q, t) ==
  LET c == Cancel(q, t) IN [c EXCEPT !.timer = [@ EXCEPT ![t] = "null"]]

(* (reset(new deadline_timer),) expires_from_now, async_wait: a wait that  *)
(* was pending is aborted, a new one is.                                   *)
Arm(q, t) ==
  LET c == Cancel(q, t) IN [c EXCEPT !.timer = [@ EXCEPT ![t] = "armed"]]

(* The deadline passes: the handler becomes ready with a success code.     *)
Expire(q, t) ==
  [timer |-> [q.timer EXCEPT ![t] = "idle"],
   ready |-> Append(q.ready, Handler(t, "ok"))]

(* io_service::run returns when nothing is ready and no wait is pending.   *)
NoWork(q) == q.ready = <<>> /\ \A t \in DOMAIN q.timer : q.timer[t] # "armed"
=============================================================================
