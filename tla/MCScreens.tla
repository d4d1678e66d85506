------------------------------- MODULE MCScreens -------------------------------
(* An instance of Screens.                                                   *)
EXTENDS Screens

\* The first two contracts are of one pair, the third is of the other, and each
\* pair is of a type of its own.
MCExpiryOf == [x \in Contracts |-> IF x < 3 THEN 1 ELSE 2]
MCTypeOf == [e \in Expiries |-> e]
==============================================================================
