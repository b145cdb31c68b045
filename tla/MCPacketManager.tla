-------------------------- MODULE MCPacketManager ---------------------------
(***************************************************************************)
(* PacketManager for TLC: packets of every form that occurs.  The client   *)
(* sends an event with an id and data in a namespace, and a plain one on   *)
(* the root; the server an ack whose data stand on both sides of a value,  *)
(* and a packet without a message.                                         *)
(***************************************************************************)
EXTENDS PacketManager

Value == "value"
Data == "binary"

SomeOutward ==
  {Make("event", "/n", 3, <<Value, Data>>),
   Make("event", "/", -1, <<Value>>)}
SomeInward ==
  {Make("ack", "/", 1, <<Data, Value, Data>>),
   Make("disconnect", "/n", -1, NoMessage)}
=============================================================================
