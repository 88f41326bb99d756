------------------------------ MODULE MailRules ------------------------------
(***************************************************************************)
(* What the rules do to the mail of one inbox, next to everything else     *)
(* that changes flags: the match of the spam rules and of the workflow     *)
(* rules while a sync stores what it fetched (sync.rs), the detached move  *)
(* to the spam folder (auto_move_to_spam), flag changes by the user        *)
(* (flags.rs, mark_read.rs, mark_as_spam), the tags that rules leave on    *)
(* rows and the sweep that acts on due ones (rule_scheduler.rs), and the   *)
(* second match once a body is stored (workflow_rules.rs).                 *)
(*                                                                         *)
(* FolderSync and MessageOps have the UIDs, UIDVALIDITY and the fallbacks  *)
(* of a move.  Here a UID is its message, one sync runs at a time (the     *)
(* account's actor), a move is one command, and the workflow rules stay as *)
(* they are.  "flagged" stands for answered too: the sweep treats them     *)
(* alike.                                                                  *)
(***************************************************************************)
EXTENDS Naturals, Sequences, FiniteSets

CONSTANTS
    Msgs,       \* the messages of the inbox
    Spam,       \* those a spam rule matches
    Rules,      \* the workflow rules of the inbox, in their order
    Flag,       \* the flags in use, "flagged" and "junk" among them
    Tasks,      \* the detached tasks and commands that may run at once
    Batch,      \* SWEEP_BATCH, the rows of one sweep
    MaxEdits,   \* bound: flag changes and sweeps by hand
    MaxFaults   \* bound: failed commands and writes, and crashes

\* A rule: what it matches, whether it needs the body (HasAttachmentExtension),
\* what it does and whether it does it with delay or as a dry run.
Rule == [matches : SUBSET Msgs, body : BOOLEAN, action : {"move", "workflow"},
         delayed : BOOLEAN, dry : BOOLEAN]

ASSUME MailRulesAssumption ==
    /\ Spam \subseteq Msgs
    /\ {"flagged", "junk"} \subseteq Flag
    /\ \A i \in DOMAIN Rules : Rules[i] \in Rule
    /\ {Batch, MaxEdits, MaxFaults} \subseteq Nat

VARIABLES
    place,      \* server: the folder a message lies in
    flags,      \* server: its flags
    late,       \* messages whose delay has run out
    row,        \* database: the rows of the inbox
    spamOn,     \* database: the spam rules are enabled
    sync,       \* the sync of the inbox
    task,       \* the detached tasks and commands
    edits, faults

mail == <<place, flags, late>>
vars == <<mail, row, spamOn, sync, task, edits, faults>>

NoTag == 0
NoRow == [flags |-> {}, tag |-> NoTag, body |-> FALSE, stored |-> FALSE]
Row == [flags : SUBSET Flag, tag : 0..Len(Rules), body : BOOLEAN, stored : {TRUE}]

Off == [pc |-> "off", todo |-> {}, msg |-> {}, got |-> {}, rules |-> FALSE]
Idle == [pc |-> "idle", kind |-> "apply", msg |-> {}, had |-> {}, want |-> {}, todo |-> {}]
\* What a sweep keeps of a row it listed.
Listed == [msg : Msgs, tag : 1..Len(Rules), flagged : BOOLEAN]

TypeOK ==
    /\ place \in [Msgs -> {"inbox", "spam", "filed"}]
    /\ flags \in [Msgs -> SUBSET Flag]
    /\ late \subseteq Msgs
    /\ row \in [Msgs -> Row \cup {NoRow}]
    /\ spamOn \in BOOLEAN
    /\ sync \in [pc : {"off", "fetch", "store", "tag"}, todo : SUBSET Msgs,
                 msg : SUBSET Msgs, got : SUBSET Flag, rules : BOOLEAN]
    /\ task \in [Tasks -> [pc : {"idle", "read", "store", "write", "move", "drop", "list", "next"},
                           kind : {"apply", "mark", "spam", "sweep"}, msg : SUBSET Msgs,
                           had : SUBSET Flag, want : SUBSET Flag, todo : SUBSET Listed]]
    /\ edits \in 0..MaxEdits
    /\ faults \in 0..MaxFaults

Init ==
    /\ place = [m \in Msgs |-> "inbox"]
    /\ flags = [m \in Msgs |-> {}]
    /\ late = {}
    /\ row = [m \in Msgs |-> NoRow]
    /\ spamOn \in BOOLEAN
    /\ sync = Off
    /\ task = [t \in Tasks |-> Idle]
    /\ edits = 0
    /\ faults = 0

-----------------------------------------------------------------------------
Fault == faults < MaxFaults /\ faults' = faults + 1
Edit == edits < MaxEdits /\ edits' = edits + 1
Start(t, T) == task[t].pc = "idle" /\ task' = [task EXCEPT ![t] = T]
Goto(t, l) == task' = [task EXCEPT ![t].pc = l]

\* A sweep goes on with its next row, if there is one; anything else is over.
Sweeping(todo) == IF todo = {} THEN Idle ELSE [Idle EXCEPT !.pc = "next", !.kind = "sweep", !.todo = todo]
After(t) == Sweeping(task[t].todo)
EndStep(t) == task' = [task EXCEPT ![t] = After(t)]

DropRow(m) == row' = [row EXCEPT ![m] = NoRow]
\* UPDATE ... WHERE id: nothing happens to a row that is gone.
UpdateFlags(m, f) == row' = IF row[m] = NoRow THEN row ELSE [row EXCEPT ![m].flags = f]
TagRow(m, i) == row' = IF row[m] = NoRow THEN row ELSE [row EXCEPT ![m].tag = i]

-----------------------------------------------------------------------------
(* The two matches.                                                        *)

\* match_at_sync_time: the first rule that needs no body and is not an
\* undelayed workflow.
SyncTagOf(m) ==
    LET hits == {i \in DOMAIN Rules : /\ m \in Rules[i].matches /\ ~Rules[i].body
                                      /\ Rules[i].action = "workflow" => Rules[i].delayed}
    IN  IF hits = {} THEN NoTag ELSE CHOOSE i \in hits : \A j \in hits : i <= j

\* evaluate_and_trigger: every rule that matches writes its tag, the last one
\* stays; an undelayed workflow runs at once and leaves none.
BodyTagOf(m) ==
    LET hits == {i \in DOMAIN Rules : /\ m \in Rules[i].matches
                                      /\ Rules[i].action = "workflow" => Rules[i].delayed}
    IN  IF hits = {} THEN NoTag ELSE CHOOSE i \in hits : \A j \in hits : i >= j

Due(m) == row[m].tag # NoTag /\ (Rules[row[m].tag].delayed => m \in late)

-----------------------------------------------------------------------------
(* The sync.                                                               *)

Inbox == {m \in Msgs : place[m] = "inbox"}

\* The rows of messages that are gone are dropped, the rest is fetched; the spam
\* rules are loaded once.
SyncStart ==
    /\ sync.pc = "off"
    /\ sync' = [Off EXCEPT !.pc = "fetch", !.todo = Inbox, !.rules = spamOn]
    /\ row' = [m \in Msgs |-> IF m \in Inbox THEN row[m] ELSE NoRow]
    /\ UNCHANGED <<mail, spamOn, task, edits, faults>>

\* The response to a FETCH; there is none for a message that has left.
SyncFetch(m) ==
    /\ sync.pc = "fetch"
    /\ m \in sync.todo
    /\ sync' = IF m \in Inbox
               THEN [sync EXCEPT !.pc = "store", !.todo = @ \ {m}, !.msg = {m}, !.got = flags[m]]
               ELSE [sync EXCEPT !.todo = @ \ {m}]
    /\ UNCHANGED <<mail, spamOn, row, task, edits, faults>>

\* Mutant of SpamHit: the rules see new rows only.
SpamHitNew(m) == sync.rules /\ m \in Spam /\ "junk" \notin sync.got /\ row[m] = NoRow

\* A spam rule hits unless the message carries junk already.
SpamHit(m) == sync.rules /\ m \in Spam /\ "junk" \notin sync.got

NextFetch == sync' = [sync EXCEPT !.pc = "fetch", !.msg = {}, !.got = {}]

\* Mutant of Upserted: a row keeps the flags it has.
UpsertedKeeping(m, f) == IF row[m] = NoRow THEN [NoRow EXCEPT !.stored = TRUE, !.flags = f] ELSE row[m]

\* upsert_envelope: flags overwritten, tag and cached body kept.
Upserted(m, f) == [row[m] EXCEPT !.stored = TRUE, !.flags = f]

\* The upsert and, once it is acknowledged, the detached move of a hit. The
\* write may fail, or come after the wait for it has ended (WRITER_ACK_TIMEOUT).
SyncStore(m) ==
    /\ sync.pc = "store"
    /\ sync.msg = {m}
    /\ LET f == IF SpamHit(m) THEN sync.got \cup {"junk"} ELSE sync.got
           upsert == row' = [row EXCEPT ![m] = Upserted(m, f)]
       IN  \/ /\ upsert
              /\ sync' = [sync EXCEPT !.pc = "tag", !.got = f]
              /\ IF SpamHit(m)
                 THEN \E t \in Tasks : Start(t, [Idle EXCEPT !.pc = "read", !.kind = "spam", !.msg = {m},
                                                             !.want = {"junk"}])
                 ELSE UNCHANGED task
              /\ UNCHANGED faults
           \/ /\ upsert \/ UNCHANGED row
              /\ NextFetch
              /\ Fault
              /\ UNCHANGED task
    /\ UNCHANGED <<mail, spamOn, edits>>

\* The tag of a workflow rule, never on junk.
SyncTag(m) ==
    /\ sync.pc = "tag"
    /\ sync.msg = {m}
    /\ IF "junk" \notin sync.got /\ SyncTagOf(m) # NoTag
       THEN TagRow(m, SyncTagOf(m))
       ELSE UNCHANGED row
    /\ NextFetch
    /\ UNCHANGED <<mail, spamOn, task, edits, faults>>

\* A sync that got through starts a sweep.
SyncEnd ==
    /\ sync.pc = "fetch"
    /\ sync.todo = {}
    /\ sync' = Off
    /\ \E t \in Tasks : Start(t, [Idle EXCEPT !.pc = "list", !.kind = "sweep"])
    /\ UNCHANGED <<mail, spamOn, row, edits, faults>>

\* Any other failure ends the sync and there is no sweep.
SyncFail ==
    /\ sync.pc # "off"
    /\ sync' = Off
    /\ Fault
    /\ UNCHANGED <<mail, spamOn, row, task, edits>>

-----------------------------------------------------------------------------
(* Flag changes: flags::apply, and mark_messages_read, which does the same *)
(* for messages that are unread.                                           *)

Wanted(f, on, had) == IF on THEN had \cup {f} ELSE had \ {f}
\* The flags of the row as it is now; nothing to store if the change is none.
Read(t, T, m, f, on) ==
    LET had == row[m].flags
        want == Wanted(f, on, had)
    IN  task' = [task EXCEPT ![t] = [T EXCEPT !.pc = IF want = had THEN "write" ELSE "store",
                                              !.msg = {m}, !.had = had, !.want = want]]

\* set_message_flags and mark_messages_read.
UserApply(t, m) ==
    /\ task[t].pc = "idle"
    /\ row[m] # NoRow
    /\ \E f \in Flag, on \in BOOLEAN : Read(t, Idle, m, f, on)
    /\ Edit
    /\ UNCHANGED <<mail, spamOn, row, sync, faults>>

\* mark_as_spam: the same for junk, then the move.
MarkAsSpam(t, m) ==
    /\ task[t].pc = "idle"
    /\ row[m] # NoRow
    /\ Read(t, [Idle EXCEPT !.kind = "mark"], m, "junk", TRUE)
    /\ Edit
    /\ UNCHANGED <<mail, spamOn, row, sync, faults>>

\* auto_move_to_spam finds the row again; without one it is over.
SpamRead(t, m) ==
    /\ task[t].pc = "read"
    /\ task[t].msg = {m}
    /\ IF row[m] = NoRow THEN EndStep(t) ELSE Read(t, task[t], m, "junk", TRUE)
    /\ UNCHANGED <<mail, spamOn, row, sync, edits, faults>>

\* UID STORE of the difference. A command that cannot be sent ends the task before
\* the row is written; only the automatic move goes on without the flag. An error
\* in the response is passed over, and the row is written all the same.
TaskStore(t, m) ==
    /\ task[t].pc = "store"
    /\ task[t].msg = {m}
    /\ \/ /\ flags' = IF m \in Inbox
                      THEN [flags EXCEPT ![m] = (@ \cup (task[t].want \ task[t].had))
                                                    \ (task[t].had \ task[t].want)]
                      ELSE flags
          /\ Goto(t, "write")
          /\ UNCHANGED faults
       \/ /\ \/ IF task[t].kind = "spam" THEN Goto(t, "move") ELSE EndStep(t)
             \/ Goto(t, "write")
          /\ Fault
          /\ UNCHANGED flags
    /\ UNCHANGED <<place, late, spamOn, row, sync, edits>>

\* UpdateFlags writes all flags from the row that was read.
TaskWrite(t, m) ==
    /\ task[t].pc = "write"
    /\ task[t].msg = {m}
    /\ UpdateFlags(m, task[t].want)
    /\ IF task[t].kind = "apply" THEN EndStep(t) ELSE Goto(t, "move")
    /\ UNCHANGED <<mail, spamOn, sync, edits, faults>>

-----------------------------------------------------------------------------
(* Moves and sweeps.                                                       *)

Dest(t) == IF task[t].kind = "sweep" THEN "filed" ELSE "spam"

\* message_ops: needs the row, and a message that has left already is fine.
TaskMove(t, m) ==
    /\ task[t].pc = "move"
    /\ task[t].msg = {m}
    /\ \/ /\ row[m] = NoRow
          /\ EndStep(t)
          /\ UNCHANGED <<place, faults>>
       \/ /\ row[m] # NoRow
          /\ place' = IF m \in Inbox THEN [place EXCEPT ![m] = Dest(t)] ELSE place
          /\ Goto(t, "drop")
          /\ UNCHANGED faults
       \/ /\ row[m] # NoRow
          /\ EndStep(t)
          /\ Fault
          /\ UNCHANGED place
    /\ UNCHANGED <<flags, late, spamOn, row, sync, edits>>

TaskDrop(t, m) ==
    /\ task[t].pc = "drop"
    /\ task[t].msg = {m}
    /\ DropRow(m)
    /\ EndStep(t)
    /\ UNCHANGED <<mail, spamOn, sync, edits, faults>>

\* run_rule_sweep_now.
SweepNow(t) ==
    /\ Start(t, [Idle EXCEPT !.pc = "list", !.kind = "sweep"])
    /\ Edit
    /\ UNCHANGED <<mail, spamOn, row, sync, faults>>

\* list_due_scheduled_envelopes, at most Batch rows. Rows that stay tagged
\* come again, so with more than Batch of them others are never listed.
SweepList(t) ==
    /\ task[t].pc = "list"
    /\ LET due == {m \in Msgs : Due(m)}
       IN  \E S \in SUBSET due :
             /\ Cardinality(S) = IF Cardinality(due) < Batch THEN Cardinality(due) ELSE Batch
             /\ task' = [task EXCEPT ![t] = Sweeping(
                   {[msg |-> m, tag |-> row[m].tag, flagged |-> "flagged" \in row[m].flags] : m \in S})]
    /\ UNCHANGED <<mail, spamOn, row, sync, edits, faults>>

\* should_skip, by what was listed.
Skipped(x) == Rules[x.tag].dry \/ x.flagged

\* Its action, if it is a move; workflows do not change the inbox.
SweepGoesOn(t, x) ==
    LET rest == task[t].todo \ {x}
    IN  task' = [task EXCEPT ![t] = IF ~Skipped(x) /\ Rules[x.tag].action = "move"
                                    THEN [@ EXCEPT !.pc = "move", !.msg = {x.msg}, !.todo = rest]
                                    ELSE Sweeping(rest)]

\* Mutant of SweepRow: the tag is cleared whatever comes of the action.
SweepRowClearing(t) ==
    /\ task[t].pc = "next"
    /\ \E x \in task[t].todo : SweepGoesOn(t, x) /\ TagRow(x.msg, NoTag)
    /\ UNCHANGED <<mail, spamOn, sync, edits, faults>>

\* The next row: skipped, moved, or its workflow run. Each leaves a line in the
\* log and none clears the tag.
SweepRow(t) ==
    /\ task[t].pc = "next"
    /\ \E x \in task[t].todo : SweepGoesOn(t, x)
    /\ UNCHANGED <<mail, spamOn, row, sync, edits, faults>>

-----------------------------------------------------------------------------
(* The rest of the world.                                                  *)

\* A body is stored and the rules are matched again. (One that no rule tags is
\* of no interest here.)
BodyStored(m) ==
    /\ row[m] # NoRow
    /\ ~row[m].body
    /\ BodyTagOf(m) # NoTag
    /\ row' = [row EXCEPT ![m].body = TRUE, ![m].tag = BodyTagOf(m)]
    /\ UNCHANGED <<mail, spamOn, sync, task, edits, faults>>

\* apply_to_existing: a rule is put to the rows there are.
ApplyToExisting(i) ==
    /\ ~Rules[i].body
    /\ row' = [m \in Msgs |-> IF row[m] # NoRow /\ m \in Rules[i].matches
                              THEN [row[m] EXCEPT !.tag = i]
                              ELSE row[m]]
    /\ Edit
    /\ UNCHANGED <<mail, spamOn, sync, task, faults>>

\* The user enables or disables the spam rules.
SetSpamRules ==
    /\ spamOn' = ~spamOn
    /\ Edit
    /\ UNCHANGED <<mail, row, sync, task, faults>>

\* Another client sets or clears a flag.
OtherClient(m) ==
    /\ m \in Inbox
    /\ \E f \in Flag, on \in BOOLEAN : flags' = [flags EXCEPT ![m] = Wanted(f, on, @)]
    /\ Edit
    /\ UNCHANGED <<place, late, spamOn, row, sync, task, faults>>

\* The delay of the rules for m has run out since its date.
DelayEnds(m) ==
    /\ m \notin late
    /\ \E i \in DOMAIN Rules : Rules[i].delayed /\ m \in Rules[i].matches
    /\ late' = late \cup {m}
    /\ UNCHANGED <<place, flags, spamOn, row, sync, task, edits, faults>>

\* The process ends; rows and mailbox stay.
Crash ==
    /\ sync' = Off
    /\ task' = [t \in Tasks |-> Idle]
    /\ Fault
    /\ UNCHANGED <<mail, spamOn, row, edits>>

SyncStep == SyncStart \/ SyncEnd \/ \E m \in Msgs : SyncFetch(m) \/ SyncStore(m) \/ SyncTag(m)
TaskStep(t) ==
    \/ SweepList(t) \/ SweepRow(t)
    \/ \E m \in Msgs : SpamRead(t, m) \/ TaskStore(t, m) \/ TaskWrite(t, m) \/ TaskMove(t, m) \/ TaskDrop(t, m)
Other ==
    \/ SyncFail \/ Crash \/ SetSpamRules
    \/ \E m \in Msgs : BodyStored(m) \/ OtherClient(m) \/ DelayEnds(m)
    \/ \E t \in Tasks : SweepNow(t) \/ \E m \in Msgs : UserApply(t, m) \/ MarkAsSpam(t, m)
    \/ \E i \in DOMAIN Rules : ApplyToExisting(i)

Next == SyncStep \/ (\E t \in Tasks : TaskStep(t)) \/ Other

Spec == Init /\ [][Next]_vars
\* The actor syncs again and again, and what has been started goes on.
FairSpec == Spec /\ WF_vars(SyncStep) /\ \A t \in Tasks : WF_vars(TaskStep(t))

-----------------------------------------------------------------------------
(* Properties.                                                             *)

\* What an enabled spam rule matches leaves the inbox in the end: a move that
\* failed, or was lost in a crash, is tried again by a later sync, unless junk
\* has got to the server meanwhile. (sync.rs, the match at the store; auto_move_to_spam)
SpamLeavesInbox ==
    \A m \in Spam : (spamOn /\ place[m] = "inbox")
                       ~> (place[m] # "inbox" \/ "junk" \in flags[m] \/ ~spamOn)

\* A row whose tag is due for a move is moved in the end, failed sweeps, new
\* tags and crashes notwithstanding, unless it becomes flagged or another tag defers it.
\* (rule_scheduler.rs, sweep_once: a failure leaves the tag in place)
Acting(m) == Due(m) /\ Rules[row[m].tag].action = "move" /\ ~Rules[row[m].tag].dry
DueRuleActs ==
    \A m \in UNION {Rules[i].matches : i \in DOMAIN Rules} :
        Acting(m) ~> (place[m] # "inbox" \/ "flagged" \in row[m].flags \/ (row[m].tag # NoTag /\ ~Acting(m)))

\* However flag changes, syncs and moves overwrite each other's rows, in the end
\* every row shows a message of the inbox with the flags it has on the server,
\* but for the junk that a spam rule put on it. (flags::apply, mark_messages_read,
\* upsert_envelope)
FlagsConverge ==
    <>[](\A m \in Msgs : row[m] # NoRow =>
            /\ m \in Inbox
            /\ row[m].flags \ {"junk"} = flags[m] \ {"junk"}
            /\ "junk" \in row[m].flags => m \in Spam \/ "junk" \in flags[m])

=============================================================================
