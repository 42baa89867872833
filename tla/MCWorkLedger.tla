---------------------------- MODULE MCWorkLedger ----------------------------
(* A conversion and the stage it chains, two slots and one sweeper.        *)
EXTENDS WorkLedger

CONSTANTS convert, structure

MCFollowUps == [r \in Rows |-> IF r = convert THEN {structure} ELSE {}]
=============================================================================
