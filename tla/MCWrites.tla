------------------------------- MODULE MCWrites -------------------------------
(***************************************************************************)
(* The write tools for labels, the store their previews are kept in, and   *)
(* the SDK's writes without a ledger. They share no state here (the store  *)
(* and a label write are steps of LabelTools); each behaviour follows one  *)
(* of them, chosen in the initial state.                                   *)
(*                                                                         *)
(* LabelTools: two orders, two previews and two calls at a time. The cap   *)
(* is 2 cents or none; the estimates of two packages come to 2.4 cents (2  *)
(* when rounded) and to 2.6 (over the cap), one lacks a package and one is *)
(* unreadable. The cooldown is longer than the hour, so that either limit  *)
(* can be the one that refuses a second reprint.                           *)
(*                                                                         *)
(* DirectWrites: calls meet at an item's price or at an order's refunds:   *)
(* the pairs that do, and one pair that shares nothing.                    *)
(***************************************************************************)
EXTENDS LabelTools, PreviewStore, DirectWrites, TLC

CONSTANTS c1, c2

VARIABLE part   \* the module that is followed

MCCaps == {20, Nothing}
MCEstimates == {<<10, 14>>, <<10, 16>>, <<10>>, <<10, 0>>}
MCSymmetry == Permutations(Orders) \cup Permutations(ToolCalls)

MCCalls == {c1, c2}
Together(k, l) == (c1 :> k) @@ (c2 :> l)
MCMixes == {Together("price", "blind"), Together("rma", "refund"), Together("refund", "refund"), Together("order", "stock")}

(* A module that is not followed starts in one state, whatever it is.      *)
MCInit ==
  /\ part \in {"tools", "previews", "writes"} /\ ToolsInit /\ PreviewInit /\ Init
  /\ part # "tools" => cap = Nothing /\ allowReprint
  /\ part # "writes" => kind = Together("order", "stock")

MCNext ==
  /\ part' = part
  /\ \/ part = "tools" /\ ToolsNext /\ UNCHANGED <<previewVars, vars>>
     \/ part = "previews" /\ PreviewNext /\ UNCHANGED <<toolVars, vars>>
     \/ part = "writes" /\ Next /\ UNCHANGED <<toolVars, previewVars>>

MCSpec == MCInit /\ [][MCNext]_<<part, toolVars, previewVars, vars>>
=============================================================================
