---------------------------- MODULE AnySequences -----------------------------
(***************************************************************************)
(* Sequences whose elements are of no particular set: what the invariants  *)
(* say of a queue whose messages have several shapes.                      *)
(***************************************************************************)
EXTENDS Sequences

IsSequence(s) == s \in Seq({s[i] : i \in DOMAIN s})
=============================================================================
