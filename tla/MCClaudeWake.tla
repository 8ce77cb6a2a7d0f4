---------------------------- MODULE MCClaudeWake ----------------------------
(* One session in two containers, so two scopes share its endpoint. *)
EXTENDS ClaudeWake

CONSTANTS s1, s2, e1, d1

OneSession == [s \in Scopes |-> e1]
OneRecipient == [d \in Deliveries |-> e1]
=============================================================================
