----------------------------- MODULE MCSioSocket -----------------------------
(***************************************************************************)
(* SioSocket for TLC: the values its configurations give to the constants. *)
(***************************************************************************)
EXTENDS SioSocket

OneNamespace == {"/nsp"}
BothNamespaces == {"/", "/nsp"}

(* Which threads ask for acknowledgements: the bot's user thread does in   *)
(* "join", before its listeners emit anything.                             *)
UserAsks == {"user"}
NobodyAsks == {}

(* Calls of the user and the listeners: the root needs fewer states.       *)
TwoCalls == [nsp \in Namespaces |-> 2]
ThreeOnRoot == [nsp \in Namespaces |-> IF nsp = "/" THEN 3 ELSE 2]

(* What the user calls once it has the socket.                             *)
OnlyEmit == {"emit"}
EmitAndClose == {"emit", "socket.close"}
EveryCall == {"emit", "socket.close", "client.close"}
=============================================================================
