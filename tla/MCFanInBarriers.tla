-------------------------- MODULE MCFanInBarriers --------------------------
EXTENDS FanInBarriers

CONSTANTS a1, a2, b1, c1, c2, e1, e2

(* Version 1 has two chunks with a claim each; version 2 has one chunk that
   attaches both claims again (D56). *)
TwoVersions  == [ch \in {a1, a2, b1} |-> IF ch = b1 THEN 2 ELSE 1]
SharedClaims == [ch \in {a1, a2, b1} |-> CASE ch = a1 -> {c1}
                                           [] ch = a2 -> {c2}
                                           [] ch = b1 -> {c1, c2}]
OneEach == [c \in {c1, c2} |-> IF c = c1 THEN {e1} ELSE {e2}]
NoneYet == [c \in {c1, c2} |-> {}]
SomeOrNoSubject == {OneEach, NoneYet}
=============================================================================
