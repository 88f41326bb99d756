------------------------------- MODULE Mailbox -------------------------------
(***************************************************************************)
(* The IMAP server's side of one selectable folder, as far as              *)
(* application/sync.rs and application/message_ops.rs observe it: a        *)
(* UIDVALIDITY value, the UIDs handed out under every value so far, and    *)
(* the UIDs still present.  External: the server is not part of the        *)
(* repository.                                                             *)
(*                                                                         *)
(* RFC 3501 is what the code relies on: within one UIDVALIDITY value a UID *)
(* is given to one message, in ascending order, and never reused.  A new   *)
(* value (Renumber) starts over, so an old UID may come to name another    *)
(* message.                                                                *)
(***************************************************************************)
EXTENDS Naturals, FiniteSets

CONSTANTS
    Msgs,       \* the messages that may ever be delivered to the folder
    NoMsg,      \* "no message has this UID" / "no row has this UID"
    MaxUid,     \* bound: UIDs per UIDVALIDITY value
    MaxEpoch    \* bound: UIDVALIDITY values

ASSUME MailboxAssumption ==
    /\ NoMsg \notin Msgs
    /\ MaxUid \in Nat \ {0}
    /\ MaxEpoch \in Nat \ {0}

VARIABLES
    epoch,      \* the folder's current UIDVALIDITY
    assign,     \* assign[e][u]: the message that was given UID u under e
    live        \* the UIDs present in the folder now

server == <<epoch, assign, live>>

Uids == 1..MaxUid
Epochs == 1..MaxEpoch

MailboxTypeOK ==
    /\ epoch \in Epochs
    /\ assign \in [Epochs -> [Uids -> Msgs \cup {NoMsg}]]
    /\ live \subseteq {u \in Uids : assign[epoch][u] # NoMsg}

MailboxInit ==
    /\ epoch = 1
    /\ assign = [e \in Epochs |-> [u \in Uids |-> NoMsg]]
    /\ live = {}

\* A message the folder has not held yet is delivered and takes UIDNEXT.
Arrive(m) ==
    /\ \A e \in Epochs, u \in Uids : assign[e][u] # m
    /\ \E u \in Uids :
         /\ assign[epoch][u] = NoMsg
         /\ \A w \in Uids : w < u => assign[epoch][w] # NoMsg
         /\ assign' = [assign EXCEPT ![epoch][u] = m]
         /\ live' = live \cup {u}
    /\ UNCHANGED epoch

\* Another client, a Sieve filter or the server itself removes a message.
ExpungeAtServer(u) ==
    /\ u \in live
    /\ live' = live \ {u}
    /\ UNCHANGED <<epoch, assign>>

\* f numbers exactly the messages of S, each once, from UID 1 without gaps.
IsNumbering(f, S) ==
    /\ {f[u] : u \in Uids} \ {NoMsg} = S
    /\ \A u, w \in Uids : u < w /\ f[w] # NoMsg => f[u] # NoMsg /\ f[u] # f[w]

\* The server rebuilds the folder: a new UIDVALIDITY, UIDs handed out anew.
Renumber ==
    /\ epoch < MaxEpoch
    /\ \E f \in [Uids -> Msgs \cup {NoMsg}] :
         /\ IsNumbering(f, {assign[epoch][u] : u \in live})
         /\ epoch' = epoch + 1
         /\ assign' = [assign EXCEPT ![epoch + 1] = f]
         /\ live' = {u \in Uids : f[u] # NoMsg}

ServerStep ==
    \/ \E m \in Msgs : Arrive(m)
    \/ \E u \in Uids : ExpungeAtServer(u)
    \/ Renumber
=============================================================================
