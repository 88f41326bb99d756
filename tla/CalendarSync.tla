---------------------------- MODULE CalendarSync ----------------------------
(***************************************************************************)
(* The calendar of src/timeprotocol: every device keeps its events in the  *)
(* table "commitments" and exchanges them with the other devices through   *)
(* one IMAP folder, in which a message is one revision of one event.  A    *)
(* run of the sync (sync.rs) lists the folder, picks for every event the   *)
(* message with the highest SEQUENCE, reads the table, and then goes event *)
(* by event: it imports what is newer in the folder, publishes what is     *)
(* newer in the table, and cancels what was published once and has gone    *)
(* from the folder.  Afterwards it moves superseded messages to an archive *)
(* folder.  The commands of the user (commands.rs) write the same rows     *)
(* while a run is under way.                                               *)
(*                                                                         *)
(* A device runs one sync at a time (calendar_sync_lock), so the run's     *)
(* state is a function of the device.  The content of an event is the      *)
(* number of the command that made it.  The order of two messages of equal *)
(* SEQUENCE (DTSTAMP, then IMAP UID) is the order of their ids.            *)
(***************************************************************************)
EXTENDS Integers, FiniteSets

CONSTANTS
    Devices,      \* installations that share the calendar folder
    Uids,         \* events, by their iCalendar UID
    NoRow,        \* the event is not in the table
    Nothing,      \* no event
    NoMsg,        \* the event has no message in the folder
    MaxEdits,     \* bound: commands of the user
    MaxMsgs,      \* bound: messages ever appended
    MaxRemovals,  \* bound: deletions in the folder by hand
    MaxFaults     \* bound: failed commands, cut off lists and crashes

VARIABLES
    folder,       \* messages in the calendar folder
    archive,      \* messages in <folder>/Archive
    rows,         \* rows[d][u]: the row of device d for event u, or NoRow
    run,          \* run[d]: where the sync of device d is
    cmd,          \* cmd[d]: the row a command of device d is about to write
    sent,         \* history: every message ever appended
    removed,      \* history: messages deleted by hand
    edits,        \* commands so far
    faults        \* faults so far

vars == <<folder, archive, rows, run, cmd, sent, removed, edits, faults>>
server == <<folder, archive, sent, removed>>

-----------------------------------------------------------------------------
Unpublished == -1
Statuses == {"CONFIRMED", "CANCELLED"}

\* pub is last_published_sequence, ver stands for everything else.
Row == [seq : 0..MaxEdits, ver : 1..MaxEdits, st : Statuses,
        pub : Unpublished..MaxEdits]
Msg == [uid : Uids, id : 1..MaxMsgs, seq : 0..MaxEdits, ver : 1..MaxEdits,
        st : Statuses]

ASSUME CalendarSyncAssumption ==
    /\ MaxEdits \in Nat /\ MaxMsgs \in Nat /\ MaxRemovals \in Nat /\ MaxFaults \in Nat
    /\ Nothing \notin Uids /\ NoRow \notin Row /\ NoMsg \notin Msg

\* What a run holds: the winners of its list and whether the list was whole,
\* the table as read, the events still to do, the one just appended, and the
\* messages compaction moves.  dirty is history: a command wrote to the table
\* while the run worked with its copy.
NoTable == [u \in Uids |-> NoRow]
Idle == [pc |-> "idle", winners |-> [u \in Uids |-> NoMsg], whole |-> TRUE,
         locals |-> NoTable, todo |-> {}, moving |-> {}, at |-> Nothing, dirty |-> FALSE]
NoCmd == [uid |-> Nothing, row |-> NoRow]

Max(S, f(_)) == CHOOSE m \in S : \A n \in S : f(n) <= f(m)

\* The winner of a set of messages of one event: SEQUENCE, then age.
Weight(m) == m.seq * (MaxMsgs + 1) + m.id
Newest(S, u) ==
    LET of == {m \in S : m.uid = u}
    IN  IF of = {} THEN NoMsg ELSE Max(of, Weight)

Winners(S) == [u \in Uids |-> Newest(S, u)]

\* Mutant: the message appended last is taken for the winner.
SupersededByAge(S) == {m \in S : \E n \in S : n.uid = m.uid /\ n.id > m.id}

\* What compaction moves away when it sees the messages S.
Superseded(S) == {m \in S : Newest(S, m.uid) # m}

-----------------------------------------------------------------------------
Init ==
    /\ folder = {} /\ archive = {} /\ sent = {} /\ removed = {}
    /\ rows = [d \in Devices |-> [u \in Uids |-> NoRow]]
    /\ run = [d \in Devices |-> Idle]
    /\ cmd = [d \in Devices |-> NoCmd]
    /\ edits = 0 /\ faults = 0

Fault == faults < MaxFaults /\ faults' = faults + 1

Upsert(d, u, r) == rows' = [rows EXCEPT ![d][u] = r]
Soil(d) == [run EXCEPT ![d].dirty = @ \/ run[d].pc \in {"apply", "persist"}]

\* An event as a message, and a message as a row that is in the folder.
AsMessage(u, id, r) ==
    [uid |-> u, id |-> id, seq |-> r.seq, ver |-> r.ver, st |-> r.st]
AsRow(m) == [seq |-> m.seq, ver |-> m.ver, st |-> m.st, pub |-> m.seq]

Append(u, r) ==
    /\ Cardinality(sent) < MaxMsgs
    /\ LET m == AsMessage(u, Cardinality(sent) + 1, r)
       IN  folder' = folder \cup {m} /\ sent' = sent \cup {m}
    /\ UNCHANGED <<archive, removed>>

-----------------------------------------------------------------------------
(* The commands of the user.  Update, delete, sending an invitation and     *)
(* taking in the reply to one read the row, and write the whole row back in *)
(* a second step; a reply leaves the SEQUENCE alone.                        *)

NewEdit == edits < MaxEdits /\ edits' = edits + 1

\* A new event, and one from an attachment or a file: neither was published.
FromIcs(seq, st) == [seq |-> seq, ver |-> edits + 1, st |-> st, pub |-> Unpublished]
FromForm == FromIcs(0, "CONFIRMED")

Create(d, u) ==
    /\ NewEdit
    /\ \A e \in Devices : rows[e][u] = NoRow
    /\ {m \in sent : m.uid = u} = {}
    /\ Upsert(d, u, FromForm)
    /\ run' = Soil(d)
    /\ UNCHANGED <<server, cmd, faults>>

ImportStampingPub(d, u) ==
    /\ NewEdit
    /\ Upsert(d, u, [FromIcs(1, "CONFIRMED") EXCEPT !.pub = 1])
    /\ run' = Soil(d)
    /\ UNCHANGED <<server, cmd, faults>>

Import(d, u) ==
    /\ NewEdit
    /\ \E seq \in 0..1, st \in Statuses : Upsert(d, u, FromIcs(seq, st))
    /\ run' = Soil(d)
    /\ UNCHANGED <<server, cmd, faults>>

\* What the commands make of the row they read.  An update revives a cancelled
\* event, a cancelled one is neither cancelled again nor sent to anybody.
Updated(r) == {[r EXCEPT !.seq = @ + 1, !.ver = edits + 1, !.st = "CONFIRMED"]}
Deleted(r) ==
    {q \in {[r EXCEPT !.seq = @ + 1, !.st = "CANCELLED"]} : r.st # "CANCELLED"}
Invited(r) ==
    {q \in {[r EXCEPT !.seq = @ + 1, !.ver = edits + 1]} : r.st # "CANCELLED"}
Replied(r) == {[r EXCEPT !.ver = edits + 1]}
Edited(r) == Updated(r) \cup Deleted(r) \cup Invited(r) \cup Replied(r)

ReadForEdit(d, u) ==
    /\ cmd[d] = NoCmd /\ NewEdit /\ rows[d][u] # NoRow
    /\ \E r \in Edited(rows[d][u]) : cmd' = [cmd EXCEPT ![d] = [uid |-> u, row |-> r]]
    /\ UNCHANGED <<server, rows, run, faults>>

WriteEdit(d) ==
    /\ cmd[d] # NoCmd
    /\ Upsert(d, cmd[d].uid, cmd[d].row)
    /\ cmd' = [cmd EXCEPT ![d] = NoCmd]
    /\ run' = Soil(d)
    /\ UNCHANGED <<server, edits, faults>>

-----------------------------------------------------------------------------
(* One run: list, read the table, the events one by one, compaction.       *)

Advance(d, r) == run' = [run EXCEPT ![d] = r]

\* The list of the folder; a FETCH that breaks off still returns the part.
List(d) ==
    /\ run[d] = Idle
    /\ \E seen \in SUBSET folder :
          /\ IF seen = folder THEN UNCHANGED faults ELSE Fault
          /\ Advance(d, [Idle EXCEPT !.pc = "listed", !.winners = Winners(seen),
                                     !.whole = seen = folder])
    /\ UNCHANGED <<server, rows, cmd, edits>>

ReadTable(d) ==
    /\ run[d].pc = "listed"
    /\ Advance(d, [run[d] EXCEPT
          !.pc = "apply", !.locals = rows[d],
          !.todo = {u \in Uids : rows[d][u] # NoRow \/ run[d].winners[u] # NoMsg}])
    /\ UNCHANGED <<server, rows, cmd, edits, faults>>

\* One event: the message and the row the run knows of it.
Pending(d, u) == run[d].pc = "apply" /\ u \in run[d].todo
Done(d, u) == [run[d] EXCEPT !.todo = @ \ {u}]

\* Mutant: the folder wins a tie.
ImportRemoteOnTie(d, u) ==
    LET r == run[d].winners[u]  l == run[d].locals[u] IN
    /\ Pending(d, u) /\ r # NoMsg
    /\ l # NoRow => r.seq >= l.seq
    /\ Upsert(d, u, AsRow(r))
    /\ Advance(d, Done(d, u))
    /\ UNCHANGED <<server, cmd, edits, faults>>

ImportRemote(d, u) ==
    LET r == run[d].winners[u]  l == run[d].locals[u] IN
    /\ Pending(d, u) /\ r # NoMsg
    /\ l # NoRow => r.seq > l.seq
    /\ Upsert(d, u, AsRow(r))
    /\ Advance(d, Done(d, u))
    /\ UNCHANGED <<server, cmd, edits, faults>>

\* An event never seen in the folder is published at SEQUENCE 0.
ToPublish(r, l) ==
    IF r = NoMsg /\ l.pub = Unpublished THEN [l EXCEPT !.seq = 0] ELSE l

\* Mutant: asks for edits since the last publication, not for the SEQUENCE
\* that is in the folder now.
LocalEdited(r, l) == l.pub = Unpublished \/ l.seq > l.pub
LocalNewer(r, l) ==
    IF r # NoMsg THEN l.seq > r.seq ELSE l.pub = Unpublished \/ l.seq > l.pub

Publish(d, u) ==
    LET r == run[d].winners[u]  l == run[d].locals[u] IN
    /\ Pending(d, u) /\ l # NoRow /\ LocalNewer(r, l)
    /\ Append(u, ToPublish(r, l))
    /\ Advance(d, [run[d] EXCEPT !.pc = "persist", !.locals[u] = ToPublish(r, l),
                                 !.at = u, !.todo = @ \ {u}])
    /\ UNCHANGED <<rows, cmd, edits, faults>>

\* After the APPEND the row is written back as it was read, not as it is now.
Persist(d) ==
    LET u == run[d].at  l == run[d].locals[u] IN
    /\ run[d].pc = "persist"
    /\ Upsert(d, u, [l EXCEPT !.pub = l.seq])
    /\ Advance(d, [run[d] EXCEPT !.pc = "apply", !.at = Nothing])
    /\ UNCHANGED <<server, cmd, edits, faults>>

\* Published before, not edited since, and no message any more.
CancelVanished(d, u) ==
    LET l == run[d].locals[u] IN
    /\ Pending(d, u) /\ run[d].winners[u] = NoMsg
    /\ l # NoRow /\ ~LocalNewer(NoMsg, l)
    /\ Upsert(d, u, [l EXCEPT !.st = "CANCELLED"])
    /\ Advance(d, Done(d, u))
    /\ UNCHANGED <<server, cmd, edits, faults>>

\* Equal SEQUENCE: taken for equal content, only pub is stamped.
StampTie(d, u) ==
    LET r == run[d].winners[u]  l == run[d].locals[u] IN
    /\ Pending(d, u) /\ r # NoMsg /\ l # NoRow /\ r.seq = l.seq
    /\ IF l.pub = l.seq THEN UNCHANGED rows ELSE Upsert(d, u, [l EXCEPT !.pub = l.seq])
    /\ Advance(d, Done(d, u))
    /\ UNCHANGED <<server, cmd, edits, faults>>

\* An APPEND or a write that fails: the next event.
SkipEvent(d) ==
    /\ \/ \E u \in Uids : Pending(d, u) /\ Advance(d, Done(d, u))
       \/ run[d].pc = "persist" /\ Advance(d, [run[d] EXCEPT !.pc = "apply", !.at = Nothing])
    /\ Fault
    /\ UNCHANGED <<server, rows, cmd, edits>>

\* Compaction lists the folder again; it may be switched off.
Compact(d) ==
    /\ run[d].pc = "apply" /\ run[d].todo = {}
    /\ \E seen \in SUBSET folder :
          /\ IF seen = folder THEN UNCHANGED faults ELSE Fault
          /\ Advance(d, IF Superseded(seen) = {} THEN Idle
                        ELSE [Idle EXCEPT !.pc = "copy", !.moving = Superseded(seen)])
    /\ UNCHANGED <<server, rows, cmd, edits>>

CopyToArchive(d) ==
    /\ run[d].pc = "copy"
    /\ archive' = archive \cup (run[d].moving \cap folder)
    /\ Advance(d, [run[d] EXCEPT !.pc = "delete"])
    /\ UNCHANGED <<folder, sent, removed, rows, cmd, edits, faults>>

DeleteFromFolder(d) ==
    /\ run[d].pc = "delete"
    /\ folder' = folder \ run[d].moving
    /\ Advance(d, Idle)
    /\ UNCHANGED <<archive, sent, removed, rows, cmd, edits, faults>>

-----------------------------------------------------------------------------
\* A command of the compaction fails, the account cannot be reached, or the
\* program ends: the run and the command under way are gone, the table stays.
Crash(d) ==
    /\ run[d] # Idle \/ cmd[d] # NoCmd
    /\ Fault
    /\ Advance(d, Idle) /\ cmd' = [cmd EXCEPT ![d] = NoCmd]
    /\ UNCHANGED <<server, rows, edits>>

\* Someone deletes every message of an event, with any mail program.
RemoveByHand(u) ==
    /\ Cardinality({m.uid : m \in removed}) < MaxRemovals
    /\ LET of == {m \in folder : m.uid = u}
       IN  of # {} /\ folder' = folder \ of /\ removed' = removed \cup of
    /\ UNCHANGED <<archive, sent, rows, run, cmd, edits, faults>>

RunStep(d) ==
    \/ ReadTable(d) \/ Persist(d) \/ Compact(d) \/ CopyToArchive(d) \/ DeleteFromFolder(d)
    \/ \E u \in Uids : \/ ImportRemote(d, u) \/ Publish(d, u)
                       \/ CancelVanished(d, u) \/ StampTie(d, u)

Command(d) ==
    \/ WriteEdit(d)
    \/ \E u \in Uids :
          Create(d, u) \/ Import(d, u) \/ ReadForEdit(d, u)

Next ==
    \/ \E d \in Devices : \/ List(d) \/ RunStep(d) \/ SkipEvent(d) \/ Crash(d)
                          \/ Command(d)
    \/ \E u \in Uids : RemoveByHand(u)

Spec == Init /\ [][Next]_vars

\* The timer starts runs for ever (spawn_periodic_task), and a run and a
\* command that go on are not held up by anything but failures.
FairSpec ==
    Spec /\ \A d \in Devices : WF_vars(List(d)) /\ WF_vars(RunStep(d)) /\ WF_vars(WriteEdit(d))

-----------------------------------------------------------------------------
(* Properties *)

\* Types; and the table never claims to have published a revision that the
\* event has not reached (last_published_sequence, store.rs:304).
TypeOK ==
    /\ folder \subseteq Msg /\ archive \subseteq Msg
    /\ sent \subseteq Msg /\ removed \subseteq Msg
    /\ \A d \in Devices, u \in Uids : rows[d][u] # NoRow =>
          rows[d][u] \in Row /\ rows[d][u].pub <= rows[d][u].seq
    /\ \A d \in Devices : run[d].todo \subseteq Uids /\ run[d].moving \subseteq Msg

\* Compaction, with its COPY and its delete as two commands that may be cut
\* off in between and that two devices send at the same time (sync.rs:372-449),
\* loses no revision, and never takes the current one out of the folder.
FolderKeepsNewest ==
    /\ sent \subseteq folder \cup archive \cup removed
    /\ \A u \in Uids : Newest(sent, u) \in folder \cup removed \cup {NoMsg}

\* A run cancels an event on its own only when its messages were deleted by
\* hand (sync.rs:293-315), as long as the list of the folder was whole: pub is
\* never set for an event that the folder has not held.
CancelJustified ==
    [][\A d \in Devices, u \in Uids :
          CancelVanished(d, u) /\ run[d].whole => \E m \in removed : m.uid = u]_vars

\* A run during which no command wrote to the table replaces the content of a
\* row only by a revision of higher SEQUENCE (sync.rs:316-347), and otherwise
\* changes its status at most.
QuietRunKeepsEdits ==
    [][\A d \in Devices, u \in Uids :
          /\ run[d].pc \in {"apply", "persist"} /\ ~run[d].dirty /\ ~run'[d].dirty
          /\ rows[d][u] # NoRow /\ rows'[d][u].ver # rows[d][u].ver
          => \E m \in sent : /\ m.uid = u /\ m.ver = rows'[d][u].ver
                             /\ m.seq > rows[d][u].seq]_vars

\* Once the commands and failures end, every device comes to show the revision
\* number of the folder's newest message of each event (sync.rs:203-366).
RowsAgree ==
    <>[](\A d \in Devices, u \in Uids :
            LET m == Newest(folder, u) IN
            m # NoMsg => rows[d][u] # NoRow /\ rows[d][u].seq = m.seq)
=============================================================================
