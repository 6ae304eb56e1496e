---------------------------- MODULE MCEscalation ----------------------------
(***************************************************************************)
(* Escalation for TLC: within the thresholds, slightly over in two bands,  *)
(* and far over in one or in two.                                          *)
(***************************************************************************)
EXTENDS Escalation

Q(excess, over) == [excess |-> excess, over |-> over]
FewMetrics == {Q(0, 0), Q(1, 2), Q(2, 1)}
=============================================================================
