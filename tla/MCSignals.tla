----------------------------- MODULE MCSignals -----------------------------
(***************************************************************************)
(* Instances of Signals for TLC.                                           *)
(***************************************************************************)
EXTENDS Signals, TLC

CONSTANTS c1, c2, c3, c4
=============================================================================
