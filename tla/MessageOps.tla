----------------------------- MODULE MessageOps -----------------------------
(***************************************************************************)
(* application/message_ops.rs next to the syncers of FolderSync: archive,  *)
(* delete and move a message (move_message), and delete it for good from   *)
(* the trash (permanent_delete).  An operation reads the row, releases the *)
(* database, opens a session of its own, acts on the row's UID on the      *)
(* server and finally drops the row, by UID again.  auto_move_to_spam,     *)
(* the rule sweep and the workflows go the same way as the user, so        *)
(* several operations may run at once, even on one message.                *)
(*                                                                         *)
(* The retry with an INBOX. prefix is the same command again and is not    *)
(* told apart from UidMove.                                                *)
(***************************************************************************)
EXTENDS FolderSync

CONSTANTS
    Ops,        \* concurrent operations
    Kinds,      \* the operations in use, a subset of {"move", "delete"}
    Servers,    \* the kinds of servers: sets of extensions they implement and
                \* never refuse, "MOVE" (RFC 6851) and "UIDPLUS" (RFC 4315)
    MaxDeleted  \* bound: messages the user asks to delete for good

Extensions == {"MOVE", "UIDPLUS"}

ASSUME MessageOpsAssumption ==
    /\ Kinds \subseteq {"move", "delete"}
    /\ Servers \subseteq SUBSET Extensions
    /\ MaxDeleted \in Nat

VARIABLES
    caps,       \* server: the extensions it implements
    marked,     \* server: UIDs that carry \Deleted
    copies,     \* server: copies[m], how often m lies in the target folder
    opc,        \* where each operation is
    kind,       \* "move" or "delete"
    ouid,       \* the UID of the row it was called for
    osel,       \* the UIDVALIDITY its session selected the folder under
    shown,      \* the message that row showed
    unheard,    \* history: operations whose STORE failed without their noticing
    removed,    \* history: messages other clients removed from the folder, or
                \* condemned there, so that a plain EXPUNGE may take them
    wanted      \* history: messages the user asked to delete for good, and those
                \* that were taken for them, see Misled

opTask == <<opc, kind, ouid, osel, shown, unheard>>
world == <<caps, marked, copies, removed, wanted>>
opsVars == <<vars, opTask, world>>

OpPCs == {"idle", "select", "check", "move", "copy", "mark", "expunge", "purge"}

OpsTypeOK ==
    /\ TypeOK
    /\ caps \in Servers
    /\ marked \subseteq live
    /\ copies \in [Msgs -> Nat]
    /\ opc \in [Ops -> OpPCs]
    /\ kind \in [Ops -> {"move", "delete"}]
    /\ ouid \in [Ops -> Uids]
    /\ osel \in [Ops -> 0..MaxEpoch]
    /\ shown \in [Ops -> Msgs \cup {NoMsg}]
    /\ unheard \subseteq Ops
    /\ removed \subseteq Msgs
    /\ wanted \subseteq Msgs

OpsInit ==
    /\ Init
    /\ caps \in Servers
    /\ marked = {}
    /\ copies = [m \in Msgs |-> 0]
    /\ opc = [o \in Ops |-> "idle"]
    /\ kind = [o \in Ops |-> "move"]
    /\ ouid = [o \in Ops |-> 1]
    /\ osel = [o \in Ops |-> 0]
    /\ shown = [o \in Ops |-> NoMsg]
    /\ unheard = {}
    /\ removed = {}
    /\ wanted = {}

-----------------------------------------------------------------------------
UidMoves == "MOVE" \in caps
UidExpunges == "UIDPLUS" \in caps

OpGoto(o, l) == opc' = [opc EXCEPT ![o] = l]

\* The operation returns to its caller.
Return(o) ==
    /\ OpGoto(o, "idle")
    /\ kind' = [kind EXCEPT ![o] = "move"]
    /\ ouid' = [ouid EXCEPT ![o] = 1]
    /\ osel' = [osel EXCEPT ![o] = 0]
    /\ shown' = [shown EXCEPT ![o] = NoMsg]
    /\ unheard' = unheard \ {o}

\* UIDs S leave the folder on the server.
DropAtServer(S) ==
    /\ live' = live \ S
    /\ marked' = marked \ S
    /\ UNCHANGED <<epoch, assign>>

CountCopy(m) == copies' = [copies EXCEPT ![m] = @ + 1]

\* load_context: the row as it is now; the user sees message shown[o].
LoadContext(o) ==
    /\ opc[o] = "idle"
    /\ \E u \in Cached, k \in Kinds :
         /\ ouid' = [ouid EXCEPT ![o] = u]
         /\ shown' = [shown EXCEPT ![o] = rows[u]]
         /\ kind' = [kind EXCEPT ![o] = k]
         /\ wanted' = IF k = "delete" THEN wanted \cup {rows[u]} ELSE wanted
         /\ k = "delete" => Cardinality(wanted') <= MaxDeleted
    /\ OpGoto(o, "select")
    /\ UNCHANGED <<vars, caps, marked, copies, removed, osel, unheard>>

\* Login and SELECT. The UIDVALIDITY it reports is not looked at: after a
\* renumbering the UID of the row may name another message.
SelectSource(o) ==
    /\ opc[o] = "select"
    /\ osel' = [osel EXCEPT ![o] = epoch]
    /\ OpGoto(o, "check")
    /\ UNCHANGED <<vars, world, kind, ouid, shown, unheard>>

Destroy(o) == IF kind[o] = "move" THEN "move" ELSE "mark"

\* A command fails: the server dropped the session when it renumbered the
\* folder, or something else went wrong.
CommandFails(o) ==
    IF osel[o] \notin {0, epoch} THEN UNCHANGED faults ELSE faults < MaxFaults /\ faults' = faults + 1

\* Mutant of ConfirmUidGone: a failed search counts as "gone".
ConfirmUidGoneHopeful(o) ==
    /\ opc[o] = "check"
    /\ \/ /\ osel[o] = epoch
          /\ OpGoto(o, IF ouid[o] \in live THEN Destroy(o) ELSE "purge")
          /\ UNCHANGED faults
       \/ /\ CommandFails(o)
          /\ OpGoto(o, "purge")
    /\ UNCHANGED <<server, db, task, world, kind, ouid, osel, shown, unheard>>

\* confirm_uid_gone: nothing left to do on the server, or go ahead. A failed
\* search counts as "still there".
ConfirmUidGone(o) ==
    /\ opc[o] = "check"
    /\ \/ /\ osel[o] = epoch
          /\ OpGoto(o, IF ouid[o] \in live THEN Destroy(o) ELSE "purge")
          /\ UNCHANGED faults
       \/ /\ CommandFails(o)
          /\ OpGoto(o, Destroy(o))
    /\ UNCHANGED <<server, db, task, world, kind, ouid, osel, shown, unheard>>

\* UID MOVE. For a UID that is gone the server has nothing to do and says OK.
UidMove(o) ==
    /\ opc[o] = "move"
    /\ osel[o] = epoch
    /\ UidMoves
    /\ IF ouid[o] \in live
         THEN DropAtServer({ouid[o]}) /\ CountCopy(assign[epoch][ouid[o]])
         ELSE UNCHANGED <<server, marked, copies>>
    /\ OpGoto(o, "purge")
    /\ UNCHANGED <<db, task, faults, caps, removed, wanted, kind, ouid, osel, shown, unheard>>

\* Mutant of MoveRefused: the fallback forgets the COPY.
MoveRefusedNoCopy(o) ==
    /\ opc[o] = "move"
    /\ IF UidMoves THEN CommandFails(o) ELSE UNCHANGED faults
    /\ OpGoto(o, "mark")
    /\ UNCHANGED <<server, db, task, world, kind, ouid, osel, shown, unheard>>

\* UID MOVE is refused, by a server that lacks it or for any reason but the
\* folder's name: fall back to COPY.
MoveRefused(o) ==
    /\ opc[o] = "move"
    /\ IF UidMoves THEN CommandFails(o) ELSE UNCHANGED faults
    /\ OpGoto(o, "copy")
    /\ UNCHANGED <<server, db, task, world, kind, ouid, osel, shown, unheard>>

UidCopy(o) ==
    /\ opc[o] = "copy"
    /\ osel[o] = epoch
    /\ IF ouid[o] \in live
         THEN CountCopy(assign[epoch][ouid[o]])
         ELSE UNCHANGED copies
    /\ OpGoto(o, "mark")
    /\ UNCHANGED <<vars, caps, marked, removed, wanted, kind, ouid, osel, shown, unheard>>

\* The folder was renumbered after the row was stored: the UID names another.
Misled(o) == assign[osel[o]][ouid[o]] # shown[o]

Takes(o, S) ==
    wanted' = wanted \cup IF Misled(o) THEN {assign[epoch][u] : u \in {ouid[o]} \cap S} ELSE {}

\* UID STORE +FLAGS.SILENT (\Deleted): once the command is sent, what comes back
\* is logged at most, and the operation goes on as if the message were marked.
UidStoreDeleted(o) ==
    /\ opc[o] = "mark"
    /\ \/ /\ osel[o] = epoch
          /\ marked' = marked \cup ({ouid[o]} \cap live)
          /\ Takes(o, live)
          /\ UNCHANGED <<faults, unheard>>
       \/ /\ CommandFails(o)
          /\ unheard' = unheard \cup {o}
          /\ UNCHANGED <<marked, wanted>>
    /\ OpGoto(o, "expunge")
    /\ UNCHANGED <<server, db, task, caps, copies, removed, kind, ouid, osel, shown>>

\* UIDs S that are marked are expunged on behalf of operation o.
Expunge(o, S) ==
    /\ osel[o] = epoch
    /\ DropAtServer(S \cap marked)
    /\ Takes(o, marked)

\* Mutant of ExpungeUidOrAll: plain EXPUNGE although UID EXPUNGE would do.
ExpungeAll(o) ==
    /\ opc[o] = "expunge"
    /\ Expunge(o, Uids)
    /\ OpGoto(o, "purge")
    /\ UNCHANGED <<db, task, faults, caps, copies, removed, kind, ouid, osel, shown, unheard>>

\* expunge_uid_or_all: UID EXPUNGE; if it fails, for want of UIDPLUS or for any
\* other reason, plain EXPUNGE; if that fails too, nothing.
ExpungeUidOrAll(o) ==
    /\ opc[o] = "expunge"
    /\ \/ UidExpunges /\ Expunge(o, {ouid[o]}) /\ UNCHANGED faults
       \/ Expunge(o, Uids) /\ IF UidExpunges THEN CommandFails(o) ELSE UNCHANGED faults
       \/ CommandFails(o) /\ UNCHANGED <<server, marked, wanted>>
    /\ OpGoto(o, "purge")
    /\ UNCHANGED <<db, task, caps, copies, removed, kind, ouid, osel, shown, unheard>>

\* purge_envelope_local: DELETE by (folder_id, imap_uid), then return.
PurgeEnvelopeLocal(o) ==
    /\ opc[o] = "purge"
    /\ \/ rows' = RowsWithout({ouid[o]})
       \/ WriterMayFail /\ UNCHANGED rows
    /\ Return(o)
    /\ UNCHANGED <<server, uidValidity, fresh, mixed, task, faults, world>>

\* A command fails and the error goes to the caller; nothing is undone.
OpFails(o) ==
    /\ opc[o] \in {"select", "move", "copy", "mark"}
    /\ CommandFails(o)
    /\ Return(o)
    /\ UNCHANGED <<server, db, task, world>>

\* What an operation does once it has been called, when nothing goes wrong.
OpRuns(o) ==
    \/ SelectSource(o) \/ ConfirmUidGone(o) \/ UidMove(o) \/ MoveRefused(o)
    \/ UidCopy(o) \/ UidStoreDeleted(o) \/ ExpungeUidOrAll(o)
    \/ PurgeEnvelopeLocal(o)

-----------------------------------------------------------------------------
\* The messages in the folder on the server.
Present == {assign[epoch][u] : u \in live}

\* A server event, as the operations see it: \Deleted stays with a message
\* that is renumbered, and what vanishes was removed by someone else.
ServerEvent ==
    /\ ServerStep
    /\ marked' = {u \in live' : \E w \in marked : assign'[epoch'][u] = assign[epoch][w]}
    /\ removed' = removed \cup (Present \ Present')
    /\ UNCHANGED <<db, task, faults, caps, copies, wanted, opTask>>

\* Another mail client deletes a message without expunging it; a plain EXPUNGE
\* takes it away, whoever sends it.
MarkedElsewhere(u) ==
    /\ u \in live
    /\ marked' = marked \cup {u}
    /\ removed' = removed \cup {assign[epoch][u]}
    /\ UNCHANGED <<vars, caps, copies, wanted, opTask>>

\* The application is killed and restarted: operations vanish with the syncs.
AppCrash ==
    /\ faults < MaxFaults
    /\ faults' = faults + 1
    /\ pc' = [s \in Syncers |-> "idle"]
    /\ mode' = [s \in Syncers |-> "idle"]
    /\ before' = [s \in Syncers |-> 0]
    /\ sel' = [s \in Syncers |-> 0]
    /\ doomed' = [s \in Syncers |-> {}]
    /\ todo' = [s \in Syncers |-> {}]
    /\ opc' = [o \in Ops |-> "idle"]
    /\ kind' = [o \in Ops |-> "move"]
    /\ ouid' = [o \in Ops |-> 1]
    /\ osel' = [o \in Ops |-> 0]
    /\ shown' = [o \in Ops |-> NoMsg]
    /\ unheard' = {}
    /\ UNCHANGED <<server, db, world>>

OpsNext ==
    \/ ServerEvent
    \/ \E u \in Uids : MarkedElsewhere(u)
    \/ /\ \E s \in Syncers : Progress(s) \/ Abort(s) \/ Disconnected(s)
       /\ UNCHANGED <<opTask, world>>
    \/ \E o \in Ops : LoadContext(o) \/ OpRuns(o) \/ OpFails(o)
    \/ AppCrash

OpsSpec == OpsInit /\ [][OpsNext]_opsVars

-----------------------------------------------------------------------------
(***************************************************************************)
(* Properties.                                                             *)
(***************************************************************************)

\* No message disappears: what was delivered is in the folder, in the target
\* folder, removed by another client, or was deleted for good by the user, or
\* (Misled) in place of another.
\* message_ops copies before it deletes, and confirms before it destroys.
NoMailLost ==
    \A e \in Epochs, u \in Uids : assign[e][u] # NoMsg =>
        \/ assign[e][u] \in Present \cup removed \cup wanted
        \/ copies[assign[e][u]] > 0

\* The messages that carry \Deleted.
Condemned == {assign[epoch][u] : u \in marked}

\* An operation moves or destroys the message its row showed and no other
\* (message_ops.rs:348-349: the only observable effect is that the mail now
\* lies in dst_folder), although the row may be stale when it is acted on; only
\* a renumbering between the storing of the row and SELECT misleads it. Plain
\* EXPUNGE takes what others condemned, without UIDPLUS or when UID EXPUNGE fails.
OnlyShownMessageTouched ==
    [][\A o \in Ops :
           /\ opc[o] \notin {"idle", "select"} /\ opc'[o] # opc[o]
           /\ ~Misled(o)
         =>
           /\ Present \ Present' \subseteq
                {shown[o]} \cup IF UidExpunges /\ faults' = faults THEN {} ELSE Condemned
           /\ \A m \in Msgs : copies'[m] # copies[m] => m = shown[o]]_opsVars

\* An operation that drops a row leaves behind no live, undeleted message,
\* whatever failed before (message_ops.rs:246-248, "don't pretend a delete
\* succeeded when the server's state is unclear"): the row goes only after the
\* server has let the message go. Out of it are a STORE that failed unheard
\* and a renumbering between the storing of the row and its end.
PurgeJustified ==
    [][\A o \in Ops :
           /\ opc[o] = "purge" /\ opc'[o] = "idle" /\ rows' # rows
           /\ osel[o] = epoch /\ ~Misled(o) /\ o \notin unheard
         =>
           ouid[o] \notin live \ marked]_opsVars

=============================================================================
