--------------------------- MODULE MCLabelLedger ---------------------------
(* Small instances of LabelLedger. *)
EXTENDS LabelLedger

CONSTANTS a1, a2, a3, p1, p2

MCAttempts == {a1, a2, a3}
MCProcs    == {p1, p2}
(* Two calls race inside p1, the third comes from another process. *)
MCHome     == [a \in MCAttempts |-> IF a = a3 THEN p2 ELSE p1]

(* Two calls, one in each process. *)
TwoAttempts == {a1, a2}
TwoHomes    == [a \in TwoAttempts |-> IF a = a1 THEN p1 ELSE p2]
=============================================================================
