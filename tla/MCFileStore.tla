---------------------------- MODULE MCFileStore ----------------------------
(* Small instances of FileStore. *)
EXTENDS FileStore, TLC

CONSTANTS p1, p2, c1, c2, c3, k1, k2, v1, v2, old, o1, o2

MCPids   == {p1, p2}
MCCalls  == {c1, c2, c3}
MCKeys   == {k1, k2}
MCValues == {v1, v2, old}
(* Two calls of one process and one of another. *)
MCProcOf == [c \in MCCalls |-> IF c = c3 THEN p2 ELSE p1]

Ask(kind, key, expect, value) == [kind |-> kind, key |-> key, expect |-> expect, value |-> value]

(* Compare-and-set, remove and get of one key, and a put of another. *)
MCRequests == { Ask("cas", k1, Absent, v1), Ask("put", k2, Absent, v2),
                Ask("remove", k1, Absent, v1), Ask("get", k1, Absent, v1) }

(* A first run, and a file with a record past its retention. *)
MCFiles == { [k \in MCKeys |-> Absent], [k \in MCKeys |-> IF k = k1 THEN v1 ELSE old] }
=============================================================================
