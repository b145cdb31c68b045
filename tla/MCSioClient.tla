----------------------------- MODULE MCSioClient -----------------------------
(***************************************************************************)
(* SioClient for TLC: the values its configurations give to the constants. *)
(***************************************************************************)
EXTENDS SioClient

(* Every kind of frame that reaches on_decode.                             *)
EveryFrame == Frames

(* Just the Engine.IO open packet, which starts the keep-alive.            *)
OpenFrames == {"open_ok"}

(* A server that never gets to send: connecting and closing only.          *)
NoFrames == {}
=============================================================================
