------------------------ MODULE MCFactApplications ------------------------
EXTENDS FactApplications, TLC

CONSTANTS a1, a2, c1, c2, x1, x2, e1, e2, u1, u2, r1, p1, p2

(* One assertion of each of two claims, each in a unit of its own. *)
TwoClaims   == [a \in {a1, a2} |-> IF a = a1 THEN c1 ELSE c2]
InOrder     == [a \in {a1, a2} |-> IF a = a1 THEN 1 ELSE 2]
OneUnitEach == [u \in {u1, u2} |-> IF u = u1 THEN {a1} ELSE {a2}]

(* About two names that may be one entity, or about one. *)
TwoSubjects == [a \in {a1, a2} |-> IF a = a1 THEN e1 ELSE e2]
TwoNames    == [u \in {u1, u2} |-> IF u = u1 THEN e1 ELSE e2]
OneSubject  == [a \in {a1, a2} |-> e1]
OneName     == [u \in {u1, u2} |-> e1]

SecondIntoFirst == {<<e1, e2>>}

(* A version without the first claim, of which the second is current again, or a
   version of one of two documents. *)
OneDoc     == [c \in {c1, c2} |-> x1]
TwoDocs    == [c \in {c1, c2} |-> IF c = c1 THEN x1 ELSE x2]
EndsFirst  == [r \in {r1} |-> {c1}]
GainsOther == [r \in {r1} |-> {c2}]
GainsNone  == [r \in {r1} |-> {}]

Slots == Permutations({p1, p2})
=============================================================================
