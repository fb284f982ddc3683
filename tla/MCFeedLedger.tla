---------------------------- MODULE MCFeedLedger ----------------------------
(* Instances of FeedLedger: c1 and c3 submit the same two chunks, c2 only  *)
(* the second of them.                                                     *)
EXTENDS FeedLedger
CONSTANTS c1, c2, c3, p1, p2
MCCalls    == {c1, c2, c3}
MCPayloads == {p1, p2}
MCChunks   == [c \in MCCalls |-> IF c = c2 THEN <<p2>> ELSE <<p1, p2>>]
=============================================================================
