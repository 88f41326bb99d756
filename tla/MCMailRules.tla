----------------------------- MODULE MCMailRules -----------------------------
(* Values of MailRules for TLC. *)
EXTENDS MailRules

\* A delayed move by the envelope and an undelayed one that needs the body, both
\* of every message.
MCRules == <<[matches |-> Msgs, body |-> FALSE, action |-> "move", delayed |-> TRUE, dry |-> FALSE],
             [matches |-> Msgs, body |-> TRUE, action |-> "move", delayed |-> FALSE, dry |-> FALSE]>>
=============================================================================
