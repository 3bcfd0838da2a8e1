---------------------------- MODULE MCAgentSync ----------------------------
(* Two containers, one of them with an image that is not accepted.           *)
EXTENDS AgentSync

CONSTANTS c1, c2

MCCtr == {c1, c2}
MCTrusted == {c1}

\* The labels that lead to a registration, or any.
MCLabels == {[c \in MCCtr |-> "valid"]}
MCAnyLabels == [MCTrusted -> {"none", "invalid", "valid"}]
=============================================================================
