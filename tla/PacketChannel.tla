---------------------------- MODULE PacketChannel ----------------------------
(***************************************************************************)
(* What packet_manager promises over a connection: the abstract            *)
(* specification of PacketManager, in whole packets.                       *)
(*                                                                         *)
(* To the client it is a reliable queue in each session.  To the server a  *)
(* packet of the network thread is there at once; one of the user's takes  *)
(* its time, the user's arrive in their order, and one is lost only if no  *)
(* session is open when it is due or if it was broken on its way.  Only    *)
(* the next one can be broken, only if it is sent in several frames, and   *)
(* only by a reconnection or by such a packet of the network thread.       *)
(***************************************************************************)
EXTENDS Naturals, Sequences

CONSTANTS
  ToServer,  \* packets that the client may send
  Framed,    \* those of them that are sent in several frames
  ToClient   \* packets that the server may send

VARIABLES
  open,      \* whether a session is open
  sent,      \* what the server has sent in it
  received,  \* what the client has received of it
  emitted,   \* what the client has sent, ever
  pending,   \* the numbers of those of the user that are under way
  broken,    \* those of them that cannot arrive any more
  got        \* what the server has got in this session, or the last one

channel == <<open, got, received, pending, broken, sent, emitted>>

Init ==
  /\ open = FALSE /\ sent = <<>> /\ received = <<>>
  /\ emitted = <<>> /\ pending = {} /\ broken = {} /\ got = <<>>

Due(n) == n \in pending /\ \A m \in pending : n <= m
Breakable == {n \in pending : Due(n) /\ emitted[n] \in Framed}

Open ==
  /\ ~open /\ open' = TRUE
  /\ got' = <<>>
  /\ broken' \in {{}, Breakable}
  /\ UNCHANGED <<sent, received, emitted, pending>>

Close ==
  /\ open /\ open' = FALSE
  /\ sent' = <<>> /\ received' = <<>>
  /\ broken' = {}
  /\ UNCHANGED <<emitted, pending, got>>

ServerSends ==
  /\ open
  /\ \E p \in ToClient : sent' = Append(sent, p)
  /\ UNCHANGED <<open, received, pending, broken, got, emitted>>

ClientReceives ==
  /\ open /\ Len(received) < Len(sent)
  /\ received' = Append(received, sent[Len(received) + 1])
  /\ UNCHANGED <<open, sent, emitted, pending, broken, got>>

UserEmits ==
  /\ pending' = pending \cup {Len(emitted) + 1}
  /\ \E p \in ToServer : emitted' = Append(emitted, p)
  /\ UNCHANGED <<open, sent, received, broken, got>>

Arrives ==
  /\ open
  /\ \E n \in pending \ broken :
       Due(n) /\ pending' = pending \ {n} /\ got' = Append(got, emitted[n])
  /\ UNCHANGED <<open, sent, received, emitted, broken>>

IsLost ==
  /\ \E n \in pending :
       /\ Due(n) /\ (open => n \in broken)
       /\ pending' = pending \ {n} /\ broken' = broken \ {n}
  /\ UNCHANGED <<open, sent, received, emitted, got>>

(* Without a session it is lost at once.                                   *)
NetEmits ==
  /\ \E p \in ToServer :
       /\ got' = IF open THEN Append(got, p) ELSE got
       /\ emitted' = Append(emitted, p)
       /\ broken' \in IF open /\ p \in Framed THEN {broken, Breakable} ELSE {broken}
  /\ UNCHANGED <<open, sent, received, pending>>

Next ==
  \/ Open \/ Close \/ ServerSends \/ ClientReceives
  \/ UserEmits \/ Arrives \/ IsLost \/ NetEmits

Spec == Init /\ [][Next]_channel
=============================================================================
