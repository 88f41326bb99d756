---------------------------- MODULE FolderMirror ----------------------------
(***************************************************************************)
(* What the local cache of a folder promises, without saying how a sync    *)
(* goes about it: under the UIDVALIDITY it is recorded with, the cache     *)
(* learns only what the server said, forgets only what the server no       *)
(* longer backs, and takes up a new UIDVALIDITY only when it is empty.     *)
(***************************************************************************)
EXTENDS Mailbox

VARIABLES
    cache,      \* cache[u]: the message shown for UID u, or NoMsg
    valid       \* the UIDVALIDITY the cache belongs to, 0 before the first

mirrorVars == <<server, cache, valid>>

MirrorInit ==
    /\ MailboxInit
    /\ cache = [u \in Uids |-> NoMsg]
    /\ valid = 0

Learn(u) ==
    /\ valid \in Epochs
    /\ assign[valid][u] # NoMsg
    /\ cache' = [cache EXCEPT ![u] = assign[valid][u]]
    /\ UNCHANGED <<server, valid>>

Forget(S) ==
    /\ \A u \in S : cache[u] # NoMsg => ~(valid = epoch /\ u \in live)
    /\ cache' = [u \in Uids |-> IF u \in S THEN NoMsg ELSE cache[u]]
    /\ UNCHANGED <<server, valid>>

Adopt ==
    /\ \A u \in Uids : cache[u] = NoMsg
    /\ valid < epoch
    /\ valid' \in (valid + 1)..epoch
    /\ UNCHANGED <<server, cache>>

MirrorNext ==
    \/ ServerStep /\ UNCHANGED <<cache, valid>>
    \/ \E u \in Uids : Learn(u)
    \/ \E S \in SUBSET Uids : Forget(S)
    \/ Adopt

MirrorSpec == MirrorInit /\ [][MirrorNext]_mirrorVars
=============================================================================
