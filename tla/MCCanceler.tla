------------------------------ MODULE MCCanceler ------------------------------
(***************************************************************************)
(* Instances of the canceler for TLC.                                      *)
(***************************************************************************)
EXTENDS CancelerSafety

CONSTANTS honest, fraud

\* The hash of the honest withdrawal comes first in Terra's list.
HonestFirst == [h \in Honest \cup Fraud |-> IF h = honest THEN 0 ELSE 1]

\* The fraudulent withdrawal may come from an unknown source.
AllKnown     == [g \in Guards |-> {{}}]
FraudUnknown == [g \in Guards |-> IF g \in {"terra", "solana"} THEN {{}, {fraud}} ELSE {{}}]
===============================================================================
