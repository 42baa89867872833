--------------------------- MODULE MCConvertStage ---------------------------
(* One lineage's conversion and structuring, two slots and one sweeper.    *)
EXTENDS ConvertStage

CONSTANTS convert1, structure1, convert2, structure2

MCConvertOf   == [v \in Versions |-> IF v = 1 THEN convert1 ELSE convert2]
MCStructureOf == [v \in Versions |-> IF v = 1 THEN structure1 ELSE structure2]
MCFollowUps   == [r \in Rows |-> IF r = convert1 THEN {structure1}
                                 ELSE IF r = convert2 THEN {structure2} ELSE {}]
=============================================================================
