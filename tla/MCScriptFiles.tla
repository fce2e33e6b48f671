--------------------------- MODULE MCScriptFiles ---------------------------
(***************************************************************************)
(* Instances of ScriptFiles for TLC: binary numerals and an int of two     *)
(* bits, so that the third digit of a counter is cut off behind a pid of   *)
(* two digits.                                                             *)
(***************************************************************************)
EXTENDS ScriptFiles

CONSTANTS m1, m2
TwoMbs  == {m1, m2}
OneName == {<<4>>}

\* Only m1 gets as far as that.
LongAndShort == [m \in TwoMbs |-> IF m = m1 THEN 5 ELSE 1]
=============================================================================
