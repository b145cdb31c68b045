---------------------------- MODULE SioConnection ----------------------------
(***************************************************************************)
(* What sio::client promises its user of the connection: the abstract      *)
(* specification of SioClient.  A connection is off, being tried or up.    *)
(* One that is tried is tried again a limited number of times; one that    *)
(* is lost is tried again, unless the user has closed it.  When it ends    *)
(* for good a listener is told, once; only then, or when close() or        *)
(* connect() has called the attempts off, does the user start another.     *)
(***************************************************************************)
EXTENDS Naturals

CONSTANT Attempts  \* after the first one

VARIABLES
  phase,   \* "off", "trying" or "up"
  tries,   \* transports since connect() or the last time it was up
  closed,  \* close() has reached this connection while it was up
  report   \* how it ended, if a listener has been told

Init == phase = "off" /\ tries = 0 /\ closed = FALSE /\ report = "none"

Connect ==
  /\ phase = "off"
  /\ phase' = "trying" /\ tries' = 0 /\ closed' = FALSE /\ report' = "none"

Try ==
  /\ phase = "trying" /\ tries <= Attempts
  /\ tries' = tries + 1
  /\ UNCHANGED <<phase, closed, report>>

Open ==
  /\ phase = "trying"
  /\ phase' = "up" /\ tries' = 0
  /\ UNCHANGED <<closed, report>>

(* The attempts are used up, or connect() was given no address.            *)
Fail ==
  /\ phase = "trying"
  /\ phase' = "off" /\ report' = "fail"
  /\ UNCHANGED <<tries, closed>>

(* close() and connect() call the attempts off, and nobody is told.  So    *)
(* does a pong timeout that has outlived its session, which is a fault of  *)
(* the code: EndIsReported of SioClient says what it should have done.     *)
CallOff ==
  /\ phase = "trying"
  /\ phase' = "off"
  /\ UNCHANGED <<tries, closed, report>>

Close ==
  /\ phase = "up"
  /\ closed' = TRUE
  /\ UNCHANGED <<phase, tries, report>>

Retry ==
  /\ phase = "up" /\ ~closed
  /\ phase' = "trying"
  /\ UNCHANGED <<tries, closed, report>>

End ==
  /\ phase = "up"
  /\ phase' = "off"
  /\ report' \in {"normal", "drop"}
  /\ closed => report' = "normal"
  /\ UNCHANGED <<tries, closed>>

Next == Connect \/ Try \/ Open \/ Fail \/ CallOff \/ Close \/ Retry \/ End

Spec == Init /\ [][Next]_<<phase, tries, closed, report>>
=============================================================================
