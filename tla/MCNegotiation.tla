--------------------------- MODULE MCNegotiation ----------------------------
(* Small instances of Negotiation for TLC: mails are opened twice at once at *)
(* the responder, the initiator does one thing after another.                *)
EXTENDS Negotiation

MCTasks == [initiator |-> {"a"}, responder |-> {"a", "b"}]
=============================================================================
