# CrystalMail in TLA+

CrystalMail is a desktop mail client: a Tauri application whose Rust back end
(`src/src-tauri/src`) keeps a local SQLite cache of IMAP folders, sends mail, applies
rules and workflows, and runs a calendar over IMAP messages. A React front end calls it
through commands and listens to its events. This directory holds TLA+ specifications of the
parts where several tasks, a server, another installation and a crash can meet, TLC
configurations that check them on small instances, and TLAPS proofs of the properties that
do not depend on fairness.

Line numbers below are those of `src/src-tauri/src/` unless a path says otherwise.

## 1. The system

Everything runs in one process on the tokio runtime. Three things are shared:

* **the database**: reads go through a pool of connections, writes through one writer task
  with a channel of 256 commands (`infrastructure/db.rs`, `db_ops.rs`), so every write
  is atomic and in the order in which it was sent; nothing keeps a read and a later write together;
* **the IMAP server**: every operation opens a session of its own; other clients act on the
  same folders;
* **AppState** (`state.rs`): the map of actor handles under a tokio mutex, cancel tokens,
  single-flight sets.

| Component | State | Operations | What is hard |
|---|---|---|---|
| Folder sync (`application/sync.rs`) | `envelopes`, `folders.uid_validity`, `last_sync_ts` | sync of the newest page, full sync with a 30 day window, TTL-gated sync, pager, purge on a new UIDVALIDITY, reconciliation | several syncs of one folder at once; what was read before an await is used after it; renumbering; broken streams; crashes between purge and record |
| Message operations (`application/message_ops.rs`) | a row, the server's folders | archive, move, delete, delete for good | stale rows; MOVE or COPY+STORE+EXPUNGE; a failure after any command; two operations on one message |
| Account actors (`application/actor.rs`, `commands/accounts.rs`) | a task per account, the map of handles, channels of 8 | spawn, update, shutdown, IDLE, poll, backoff | a mutex held across a send; messages between a search and IDLE; commands in another order than their rows; quitting with a hanging server |
| Backup (`application/backup.rs`) | accounts, rules, workflows, the file | export, plan, import in one transaction | edits between the read and the transaction; constraints that roll everything back |
| Flags, rules, sweeper (`flags.rs`, `mark_read.rs`, `spam_rules.rs`, `rule_scheduler.rs`, `workflow_rules.rs`) | flags and tags of rows, flags on the server | STORE then overwrite; match at the store and at the body; detached move; sweep | lost updates beside a sync; a retry of what half succeeded; two sweeps at once |
| Body, prefetch (`body.rs`, `prefetch.rs`) | cancel tokens, single flight per account | fetch, cancel, prefetch | tokens overwritten by a second fetch; triggers dropped during a run |
| SMTP, drafts (`smtp.rs`, `draft_import.rs`, `src/src/App.tsx`) | the compose window, the slot of the undo timer, Drafts, Sent | send, undo, save, hand-over from the command line | one window and one slot for several mails; failure of one of the steps; a lost answer |
| Calendar sync (`timeprotocol/sync.rs`, `application/calendar_*.rs`) | commitments, messages in a calendar folder | winners by SEQUENCE, publish, import, cancel, compact | edits during a run; a crash between copy and delete; a list that breaks off; two devices |
| Negotiations (`timeprotocol/negotiation_*.rs`, `commands.rs`) | threads, slots, bookings | request, propose, confirm, release | duplicated, late and reordered mails; two commands at once; a failure between confirming and booking |
| Workflows (`workflows.rs`) | runs, run directories, target directories, counters | steps in sequence, archive, count; edit and delete | runs that share a directory; an edit beside a run |
| Training, analyzer, language model (`llm/`) | one child process | requests and answers | cancellation (not modelled) |
| User interface (`src/src`) | views | commands and events | modelled only where a mail waits in it |

How they interact: actors and the sync button start folder syncs; a sync that got through
starts the sweep and the prefetch; the store of an envelope matches the rules, the store of a
body matches them again; rules move messages by message operations and start workflows, which
archive by message operations; the import and the account commands write the table and
tell the actors; opening a mail may feed a negotiation, and a confirmed negotiation books a
commitment, which the calendar sync publishes.

What makes each correct:

* *Folder sync*: a row shows the message its UID names; a row is dropped only when the
  server no longer backs it; whatever races and faults leave behind, the cache heals.
* *Message operations*: nobody acts on a message other than the one the user saw; no mail is
  lost; a row disappears only after its message did.
* *Account actors*: the map holds exactly one usable handle per account and the actor
  follows the table; no command waits for ever; mail is fetched; actors end; quitting ends.
* *Backup*: an import completes what is missing, never overwrites, and either succeeds or
  changes nothing.
* *Flags and rules*: what a rule matches is acted on in the end in spite of failures, and
  rows come to show the server's flags.
* *Body fetch*: a token never outlives its fetch, a fetch is cancelled only on request, every
  body arrives.
* *Sending*: what was written is somewhere until it is delivered; a click delivers once; a
  draft goes only when its mail is safe.
* *Calendar sync*: no published revision is lost, nothing is cancelled without cause, edits
  survive a run, the devices come to agree.
* *Negotiations*: both calendars show one appointment; ended threads stay as they are.
* *Workflows*: saved files stay, a mail is archived only when its attachments were saved, a
  script finds its files, counters tell the runs.

## 2. Plan

Written:

1. `Mailbox`, `FolderMirror`, `FolderSync`: the core, with the abstract cache it implements
   and proofs (`MailboxProofs`).
2. `MessageOps`, which extends `FolderSync`: operations beside a running sync, with proofs
   in the same module.
3. `AccountActor`: task lifecycle and scheduling, with proofs (`AccountActorProofs`).
4. `BackupImport`, with proofs (`BackupImportProofs`).
5. `CalendarSync` and `Negotiation`, with proofs (`CalendarSyncProofs`, `NegotiationProofs`).
6. `MailRules`: flags, spam rules, tags and sweeps around one inbox.
7. `Reading`: bodies and prefetch, with proofs (`ReadingProofs`).
8. `Compose` and `DraftTemplate`: from the window to the server, with proofs (`ComposeProofs`).
9. `Workflows` and `WorkflowText`, with proofs (`WorkflowsProofs`).

Left, in this order:

1. Proofs: every invariant and every action property that a passing run checks is a theorem
   now. What is left is about more than those: the refinement of `FolderMirror` beside operations,
   which needs an abstract step for a row whose message is marked but not yet expunged, and
   safety properties of `MailRules`, whose run checks liveness only. No module declares a
   RECURSIVE operator, so all of them can be proved about.
2. `EnvelopeStore`, the full-text rows and the address history on a re-sync
   (`infrastructure/db_ops.rs:324`, `346`), and `PlaintextMigration`, the two renames of
   `infrastructure/db.rs:623` with a crash between them.
3. The calendar subscriptions and the actor that polls them (`timeprotocol/subscriptions.rs`,
   `application/calendar_actor.rs`).

## 3. The modules

### Mailbox — the server's side of one folder (external)

`epoch` is the UIDVALIDITY, `assign[e][u]` the message that UID `u` names under `e`, `live`
the UIDs present. `Arrive`, `ExpungeAtServer` and `Renumber` are what a server may do: within one
UIDVALIDITY UIDs ascend and are never reused; a renumbering starts over, so that an old UID
may come to name another message. This is what `sync.rs` relies on (RFC 3501).

### FolderMirror — what the cache promises

An abstract specification with three steps: the cache *learns* what the server said under
the recorded UIDVALIDITY, *forgets* a row the server no longer backs, and *adopts* a new
UIDVALIDITY only when it is empty. How a sync gets there is not said.

### FolderSync — `application/sync.rs`

Any number of syncers run on one folder. Each is a program counter, the entry point it came
through (`mode`) and what it carries across its awaits.

| Action | Code |
|---|---|
| `Start` | `sync_folder_recent` (TTL gate), `sync_folder_older` (pivot), the actors and the sync button; `open_session_for_account` |
| `Select` | SELECT, `sel` is the UIDVALIDITY it answers |
| `CheckValidity`, `Purge` | `handle_uidvalidity_change`: compare, collect local UIDs, delete |
| `Persist` | `update_folder_uid_state`; also stamps `last_sync_ts`; nothing is written for a server that names no UIDNEXT (`UidNextSent`) |
| `Search` | UID SEARCH, and for the page the newest `Limit` |
| `Reconcile`, `Prune` | `reconcile_folder_uids`: read local UIDs, then delete those the search did not show |
| `SearchSince` | the 30 day window of the full sync |
| `Fetch`, `Store` | `drive_uid_fetch`: one response, then its upsert; UIDs the server no longer has get no response |
| `Finish`, `Abort`, `Disconnected`, `Crash` | the end, a failing call or broken stream, a session dropped by a renumbering, the end of the process |
| `Expire` | `LAZY_TTL` passes |

An envelope is abstracted to the message its headers describe. A write happens when it is
sent or fails (`WriterMayFail`); a write whose acknowledgement times out is carried out later
in channel order, which for the one folder modelled here is the same order. `mixed` is a history
variable: it becomes true when two syncs are at work under different UIDVALIDITY values, or when the
pager is the first to record a new one.

### MessageOps — `application/message_ops.rs`

Extends `FolderSync`: the syncers run on beside the operations. `LoadContext` reads the row,
`SelectSource` opens a session (without looking at the UIDVALIDITY, as the code),
`ConfirmUidGone` is the search before and after, then `UidMove`, or
`MoveRefused`, `UidCopy`, `UidStoreDeleted`, `ExpungeUidOrAll`: a MOVE that the server lacks, or that
fails for any reason, falls to COPY; a STORE whose answer is an error is logged and the EXPUNGE goes
on; a UID EXPUNGE that fails falls to plain EXPUNGE, and that may fail unheard as well.
`PurgeEnvelopeLocal` drops the row; `OpFails` is an error that ends the operation. Other clients
mark messages as deleted (`MarkedElsewhere`) and expunge them. The
namespace retry with `INBOX.` is the same step again. `caps` holds the extensions of the server,
chosen once from `Servers`: UIDPLUS gives UID EXPUNGE. `removed`, `wanted` and `unheard` (the operations whose STORE
failed without their noticing) are history variables; `Misled(o)` says that the session selected
another numbering than that of the row, and what such an operation takes counts as `wanted`.

### AccountActor — `application/actor.rs`, `commands/accounts.rs`, `main.rs`

Every actor is a program counter over connect (`open`), fetch, IDLE, backoff and the wait
between polls, and looks at its channel only in its `select!` loops. Commands (`add`,
`import`, `update`, `correct`, `delete`, `start`, `quit`) write the row and change the map under
its mutex, which they hold while they wait for room in a channel. `RecvDoneFails` is the
update that reaches an actor while it idles and is dropped because DONE fails
(`actor.rs:438-443`). `Crash` and `Boot` are the end and the start of the process. The backoff's
length is left out; a call takes the first idle slot of `Cmds` (`Slot`), which are interchangeable;
`muddled` is a history variable, the accounts on which two commands overlapped or whose actor lost
its last order with a failing DONE, since the program was started. `SyncNow` is never sent by anything and is left out; the channel's
capacity of 8 becomes 1, where it fills at once; `MailArrives` follows one message per account.

### BackupImport — `application/backup.rs`

`Build` takes the tables into the file, `Plan` reads the tables and decides what to insert,
`ImportBundle` is the one transaction; the user adds, edits and deletes accounts, rules and
workflows at any time, also between `Plan` and `ImportBundle`, and deletions cascade as in the
schema. Spam rules and workflow rules differ only in the reference to a workflow and share
one table. Aliases, passwords and the two sidecar files follow the transaction and are left out.

### CalendarSync — `timeprotocol/sync.rs`, `store.rs`, `commands.rs`, `application/calendar_imap.rs`

Devices with a table of events each share one folder of messages, each message a revision. A run
is `List` (the winners by SEQUENCE, then age; a FETCH that breaks off yields a part), `ReadTable`,
then for each event `ImportRemote`, `Publish` with `Persist`, `CancelVanished`, `StampTie`
or `SkipEvent`, then `Compact`, `CopyToArchive`, `DeleteFromFolder`. A device runs one sync
at a time. The commands of the user read the row (`ReadForEdit`) and write the whole row back
(`WriteEdit`): update, delete, invite, take in a reply; `Create` and `Import` add rows.
`RemoveByHand` is somebody deleting an event's messages with a mail program. The content of an
event is the number of the command that made it.

### Negotiation — `timeprotocol/negotiation_engine.rs`, `negotiation_store.rs`, `commands.rs`

Two installations with one thread each. `Apply` is the engine's transition function; a command
is `Open` or `Answer`, `ReadThread`, `Write` (the whole thread), `Send` or `SendFails`, and after a
confirmation `Settle`, `Book` and `Link` (`materialize_commitment_if_confirmed`). `mails` is a set
from which an envelope may be opened at any time and any number of times. Only the
initiator's panel offers to confirm or release; it may show an old thread, so the engine's
guards alone decide. `lost` records that one command overtook another of its installation.

### MailRules — `flags.rs`, `mark_read.rs`, `spam_rules.rs`, `rule_scheduler.rs`, `workflow_rules.rs`, the match in `sync.rs`

One inbox: where each message lies, its flags on the server, and its row with flags, tag and
body. `SyncStart`, `SyncFetch`, `SyncStore`, `SyncTag`, `SyncEnd` are the sync with
both matches; a hit of a spam rule starts a detached task `SpamRead`, `TaskStore`, `TaskWrite`,
`TaskMove`, `TaskDrop`; a STORE whose answer is an error may be logged only, and the row is written all
the same. `UserApply` and `MarkAsSpam` go the same way. `SweepList` and `SweepRow` are
`sweep_once`, started by a sync or by hand. `BodyStored` is the second match, `ApplyToExisting` a
rule put to the rows that are there. A sync is one at a time, a move is one command, a UID is its
message: `FolderSync` and `MessageOps` have the rest.

### Reading — `application/body.rs`, `application/prefetch.rs`

A fetch is `Open` (its token replaces that of another fetch of the message), `Connect`, `Select`,
`FetchBody`, `Store`, `Answered`; `Cancelled` is the branch of the `select!` that the token
wakes, whether it was sent or dropped; the guard removes the message's token, whoever's it is.
`CancelPendingFetch` is the command. A prefetch is `Trigger` (dropped while one runs), `List` of
the newest rows without a body, `PrefetchConnect`, `PrefetchBody`, `PrefetchOver`.

### Compose — `src/src/App.tsx`, `UndoSendOverlay.tsx`, `application/smtp.rs`, `commands/mail.rs`, `draft_import.rs`, `main.rs`

`window` is the one compose window, `pending` the one slot of the undo timer. `Send`, `Undo`,
`Timeout`, `Save`, `Discard`, `EditDraft` are the user's; a call is `TryPrimary`, `TryFallback` (the
other TLS variant), `AppendToSent`, `MarkParent`, `RemoveReplaced`, or `Rescue` after an error, or
`SaveAsDraft`. A lost answer leaves the client with an error after the server took the mail. The
import buffers drafts of a cold start (`Listen`, `Drain`) and sends those of a running program as an
event (`Built`). `crossed` names the mails that met one of the overlaps listed at `Cross`: a
second Send within five seconds, a mail that comes back while the window shows another, an import
nobody listens to, the end of the program.

### DraftTemplate and WorkflowText — pure functions

The template parser, the substitution and the argument parser of `draft_import.rs`; file
names, filters and script arguments of `workflows.rs`. They have no state: next to each function
stands what the comments and tests of the code say of its result, and `MCCompose` and `MCWorkflows` assume
it over all inputs of a bounded length, which TLC evaluates at the start of their runs.

### Workflows — `application/workflows.rs`, `commands/workflows.rs`

A run is `Start` (by the user or a rule), `Load`, `Wipe` and `MakeDir` (the directory of its
message), `Unpack`, then per step `ListTarget`, `SaveOne` and `PassOver`, or `SaveBody`, or
`ScriptStart` and `ScriptEnd`, and at last `Archive`, `Record`, `Hit`. A failed step does not stop
the next; only `archive` asks whether all went well. A failed listing of the target directory is ignored, as in the code; an
attachment that is a mail itself (`Nested`) is passed over without a word. `CommandRead` begins a
command on a row: `EditFlow`, `EditRule`, which may bind the rule to the workflow or to none, and
`ApplyToExisting`, the hit that applying a rule to the mails that are there counts without a run.
`DeleteFlow` takes the rule bound to it along, `DeleteRule` the rule; `Restart` is the end of the
program. `counted` is the history of runs and hits, `Pending` the runs that have recorded themselves and
still owe the rule its hit.

## 4. The runs

| Run | Instance | What it shows |
|---|---|---|
| `FolderSync_one` | 1 syncer of any kind but the pager, 3 messages, 2 UIDVALIDITY values, page of 1, one message outside the window, 1 fault | With the folder to itself a sync never leaves a row that lies about its UID (`RowsTruthful`), drops only what vanished (`OnlyVanishedRowsDropped`), implements `FolderMirror` (`ImplementsMirror`) and heals (`CacheConverges`) |
| `FolderSync_two` | 2 syncers, either an actor or the pager, 2 messages, 2 UIDVALIDITY values, page of 1 | However two syncs and a renumbering interleave, rows stay truthful until the syncs work under different UIDVALIDITY values at one time or the pager records one first (`RowsTruthfulTogether`); what one sync drops or overwrites of the other's is made up for (`CacheConverges`) |
| `MessageOps_two` | 2 operations, move or delete, at most 1 message deleted for good, 1 syncer or pager, 2 messages, 2 UIDs, servers with MOVE and UIDPLUS or neither, 1 fault | No mail disappears (`NoMailLost`), an operation touches the message it showed (`OnlyShownMessageTouched`), a row goes after its message (`PurgeJustified`) |
| `AccountActor_live` | 1 account, 2 commands at once, 2 calls (import, correction, update, deletion, quit), up to 2 actors that idle, poll or do both, channel of 1, DONE may fail, 1 fault | The map holds usable handles (`HandlesUsable`), the actor follows the table unless the account is `muddled` (`ActorsFollowTable`), commands end though they hold the mutex (`CommandsReturn`), actors that were let go end (`StrayActorsEnd`), mail is fetched without a push (`MailIsFetched`) |
| `BackupImport_restore` | 2 ids, addresses and rules, 1 workflow, 6 edits | `UnscopedRestored`, `ImportSucceeds`, `NoOverwrite` |
| `CalendarSync_two` | 2 devices, 1 event, 2 edits, 6 messages, 1 removal by hand, 1 fault | Nothing published is lost (`FolderKeepsNewest`), nothing is cancelled without cause (`CancelJustified`), edits survive a run (`QuietRunKeepsEdits`), the devices agree in the end (`RowsAgree`) |
| `Negotiation_two` | 2 slots, 1 command of the initiator and 2 of the responder at once, 4 envelopes, 1 fault | One appointment (`PeersAgree`), booked (`ConfirmedIsBooked`), for good (`TerminalStays`), and the confirmation arrives (`ConfirmArrives`) |
| `MailRules_one` | 1 message, 1 spam rule, 2 workflow rules, 2 tasks, batch of 1, 1 edit, 2 faults | `SpamLeavesInbox`, `DueRuleActs`, `FlagsConverge` |
| `Reading_two` | 2 messages, 2 fetches, prefetch of 1, 1 fault | `TokensLive`, `AloneCancelledOnRequest`, `BodiesArrive` |
| `Compose_two` | 2 mails, one a reply, 2 calls, 2 clicks, 1 fault | `WrittenIsKept`, `AtMostOncePerSend`, `DraftOutlivesMail`, `SendResolves`; the operators of `DraftTemplate` |
| `Compose_v_second` | the same | `SendTakesNothing` violated, see section 5 |
| `Workflows_two` | 2 messages with two attachments of one name each, one of them a mail, a user's file of that name, 2 runs, 1 command on the rows, 1 fault, steps save, body, script | `CountersAgree`, `SavedIsKept`, `ArchivedIsSaved`, `RunSeesItsFiles`; the operators of `WorkflowText` |

**Bounds.** Two UIDVALIDITY values are enough for one renumbering at every step of a sync;
three messages for a page that is smaller than the folder and a message outside the window at
once. Two messages and an actor beside a pager are enough for one sync to store, drop or record
between two steps of another; `FolderSync_two` has no fault, since one sync's death is met in
`FolderSync_one`, and the theorem about it has any number. One fault may strike at any step, and what it leaves behind is met by the next pass;
`MailRules_one` has two, for a move that fails and a crash of its retry. `MessageOps_two` keeps the
numbering (`MaxEpoch = 1`) so that two operations, a sync and other clients fit in one run;
renumberings are in the model, and the theorems about it, which are all three properties of the run,
hold for any number of them. One message
deleted for good (`MaxDeleted`) leaves the other for the moves next to it. Two commands meet
at the mutex and a third would only wait; they are on one account, where they share an actor, a row and
a channel, and the theorem has any number of accounts. An account that is added takes the path of an
imported one, one step shorter. Two actors are one that was let go and its successor. A channel of one fills after one message, as
eight do after eight. Two accounts and two rules give every duplicate, conflict and reference. Two
devices with two edits give a tie, a newer revision on either side and one that was
superseded before it was seen; six messages let both publish, cancel and publish again. Four
envelopes are a request, two proposals and a confirmation or a release, each opened any number of
times; the second command of the responder is the one that overtakes. One message suffices for
`MailRules` because its tasks meet on a row; two rules let the later match overwrite the
tag of the earlier. Two fetches and two messages give a replaced token and a bystander. Two mails meet
in the one slot and the one window. Two runs meet in a directory of their own message or of
another; one command on a row meets them at every step, and that several leave the counters right is
proved. Symmetry is used in runs without liveness only.

**Fairness.** A sync or operation that was called runs on (tokio schedules a ready task), and the
actors keep starting syncs, whatever the pager does: `Progress` is weakly fair per syncer, and the
start of a sync other than the pager's strongly fair; calling an operation is
not fair. In `AccountActor` timers fire and commands go on (weak fairness); a poll tick or a command that is
ready stays ready while `select!` picks a branch at random, hence strong fairness of `PollTick`
and `Recv`. No fairness is assumed of the quit's own timeout, of a restart, of a call or of mail.
That every call to a server returns (`ServersAnswer`) is part of `FairSpec`: of the calls to a server in `actor.rs`
only IDLE has a time limit, and with a server that hangs in a connect or a fetch the three properties
do not hold. `CalendarSync`: the timer starts runs (`List`), and a run and a command that go
on are held up by failures only; edits by the user are not fair. `Negotiation`: commands go on,
and the responder opens each mail again until it has been applied, as the reader does whenever it
shows it (strong fairness, because an open command of the same task may come in between); nobody has to answer.
`MailRules`: the actor syncs again and again, and what was started goes on; nothing makes a
sweep by hand happen, every sync that got through starts one. `Reading`: every sync triggers a
prefetch and drops rows of what has left; commands return with an answer or an error. `Compose`:
the timer fires and calls return; the user need not act. `MessageOps_two`,
`BackupImport_restore`, `Compose_v_second` and `Workflows_two` check no liveness. Faults are finite in all
liveness runs.

**Deadlock** is checked in every run but `CalendarSync_two`, `Compose_two`, `Compose_v_second`,
`Negotiation_two` and `Workflows_two`, where the bounds on edits, clicks, envelopes and runs let the
system come to rest.

**Mutants.** Every property of a passing run has a mutant of a modelled definition in
`PROJECT.json` that a plausible slip in the code would give and that violates it.

## 5. Where the code departs from what it says

Checked by a run:

* `Compose_v_second`: a second Send within five seconds overwrites the slot of the first
  (`src/src/App.tsx:1060`), whose timer the effect's cleanup clears
  (`src/src/components/UndoSendOverlay.tsx:64-67`): the first mail is neither sent, saved nor shown again.
  `App.tsx:194-196` calls the second Send harmless, and `App.tsx:969-972` says that work is not lost.

Seen in the models with other constants or conditions, which the passing runs and the
theorems therefore exclude:

*Folder sync and operations*

* the pager records a new UIDVALIDITY without purging (`sync.rs:598`), so no later sync sees the
  change and old rows pass for current ones: `mixed`;
* with two syncers and a renumbering between their SELECTs, a late store adds rows of the old
  numbering (`sync.rs:1087`), a late purge or record undoes what the other did: `mixed`;
* of a server whose SELECT names no UIDNEXT the UIDVALIDITY is never recorded (`sync.rs:1403`), so a
  renumbering goes unnoticed: `UidNextSent`; a purge that fails is followed by the record of the new value
  (`sync.rs:533`), hence `WriterMayFail = FALSE` with two numberings;
* with two syncers, the older search result prunes what the newer has stored (`sync.rs:1443`);
  it is fetched again;
* an operation never compares the UIDVALIDITY (`message_ops.rs:114`) and after a renumbering
  may move another message than the one its row showed: the exception `Misled`;
* without MOVE, two operations on one message may both copy it (`message_ops.rs:363`); without
  UIDPLUS, or after a UID EXPUNGE that failed, the plain EXPUNGE takes along what others marked
  (`message_ops.rs:317-335`);
* a STORE of `\Deleted` whose answer is an error is logged only (`message_ops.rs:220-231`, `388-398`):
  nothing is expunged, yet the row is dropped while its message stays in the folder, with a copy in the
  target after a move, although `message_ops.rs:246-248` does not want a delete to look successful
  then. No mail is lost and a later sync brings the row back: `unheard`, which `PurgeJustified` excepts.

*Accounts and backup*

* two updates of one account may reach its actor in another order than the table; an update that
  comes between `spawn_all`'s read and its lock, or the last one that goes with a failing DONE
  (`actor.rs:438-443`), is lost until the next start; a folder name correction writes a whole old
  row back (`message_ops.rs:436`), also over the update of a command in between: `muddled`, which
  `ActorsFollowTable` excepts for the account concerned;
* an account that is deleted and imported again may have two tasks for a while
  (`actor.rs:730`), and an IDLE-only actor whose server lacks IDLE reconnects for ever
  (`actor.rs:372`), which `MailIsFetched` therefore excepts;
* the filter for dangling rules runs before the plan holds its accounts (`backup.rs:494`), so on a
  new machine the rules of single accounts are dropped: `UnscopedRestored` is about the others;
* an account whose address changed since the export makes the import fail on its UUID: the
  exception that `ImportSucceeds` states.

*Flags and rules*

* two changes of flags at once lose one of them until the next sync (`flags.rs:26`); with junk
  set in the row by a rule, `flags::apply` sees no change and sends nothing, so `$Junk` does not
  reach the server although `sync.rs:1231-1233` sets out to: `FlagsConverge` excepts it;
* a message whose `$Junk` reached the server before its move failed stays in the inbox
  (`sync.rs:1042`): the exception in `SpamLeavesInbox`;
* nothing clears a tag (`ClearEnvelopeScheduled` is never sent): a delayed workflow that does
  not archive runs again with every sweep, and more than `SWEEP_BATCH` rows that stay tagged keep
  others from being listed; `DueRuleActs` is checked with fewer;
* the sync takes the first workflow rule that matches, the body match the last one; the
  rules' query has no ORDER BY;
* the sweep skips a row by the flags it listed, not by those of the moment.

*Bodies*

* a second fetch of a body replaces the first one's token and the first one's guard removes the
  second's (`body.rs:67`): both end as cancelled though nobody asked. `AloneCancelledOnRequest` is
  about a fetch without such a neighbour;
* no await of `body.rs` or `prefetch.rs` has a timeout: a silent server keeps the account in
  `prefetch_running`, and no later trigger starts a run; 200 newest messages that cannot be
  fetched keep older ones from being tried;
* two fetches that both store a body start automatic workflows twice; a body is fetched by UID
  without a look at the UIDVALIDITY.

*Sending and drafts*

* a mail that comes back, or is handed over, while the window is open is not seen, and its
  parent and draft are mixed into the mail that is; of several buffered imports only
  the last is shown; an import before the listener, or a cold start's after the buffer was emptied,
  stays unseen: the overlaps `Cross` names;
* a stored draft of a failed send stays beside the mail that is sent later; a lost answer makes
  the user send again and the mail is delivered twice (by two clicks);
* the `?` on the read of `archive_on_reply` (`commands/mail.rs:489-497`) reports an error after
  the delivery; a probe that wrongly finds no copy in Sent leads to two of them;
* a draft without a recipient cannot be built and is not saved although `smtp.rs:391-393`
  means to; Bcc and attachments do not survive a draft.

*Calendar and negotiations*

* two edits with one SEQUENCE on two devices are taken for equal and stay different
  (`StampTie`): `RowsAgree` compares revisions, not contents; the reply to an invitation leaves the
  SEQUENCE alone and is never published, though `timeprotocol/commands.rs:1140-1143` expects it;
* an edit that falls into a run is overwritten by the run's import or stamp (`timeprotocol/sync.rs:320`,
  `343`): `QuietRunKeepsEdits` is about the other runs;
* a list of the folder that breaks off (`application/calendar_imap.rs:250`) cancels events:
  `CancelJustified` needs a whole list;
* a command that reads a thread while another is under way writes over it: `lost`, excepted by
  `TerminalStays`, `ConfirmedIsBooked` and `ConfirmArrives`; a mail that SMTP refuses leaves a
  confirmed thread unbooked, though `timeprotocol/commands.rs:1694-1696` says that the commitment is stored
  regardless; a crash between the two is never made up for;
* a release that overtakes a proposal may leave the responder released and the initiator
  confirmed; `PeersAgree` says that the two never show different appointments.

*Workflows*

* two mails saved to one directory at once may get one file name, and the second overwrites the
  first (`workflows.rs:592-597`) before its mail is archived: `exposed` in `SavedIsKept`, as is a
  directory that cannot be listed, which counts as empty (`workflows.rs:592`). The set of used names
  minds upper and lower case, some file systems do not;
* a second run of a message wipes the directory below the script of the first
  (`workflows.rs:451`): `shared` in `RunSeesItsFiles`;
* the filter `*` slices `p[1..0]` and the run ends in a panic, unrecorded (`workflows.rs:681`);
  `save_body` overwrites what is there; a script has no timeout;
* the test comment at `workflows.rs:1243-1245` says that `enabled = false` does not bypass a required
  parameter; code and test skip it; counters count runs with failed steps too;
* applying a rule to the mails that are there counts a hit without a run (`rule_scheduler.rs:407-417`):
  the counters of a rule and of its workflow need not match, and `CountersAgree` compares each with its own
  history;
* an attachment that is a mail (message/rfc822) passes the filter and is skipped
  (`workflows.rs:610-614`): the step ends well and the mail is archived without it, so
  `ArchivedIsSaved` is about what the step can write.

## 6. The proofs

Eight modules of proofs, for every value of the constants under the modules' named assumptions,
which TLC evaluates in the runs.

`MailboxProofs`. Of `FolderSync`, for every set of syncers and messages and every bound:

* `TypeCorrect`: `TypeOK`, and that a syncer past its SELECT knows a UIDVALIDITY (`Selected`).
* `SoloTruthful`, `SoloDropsOnlyVanished`, `SoloImplementsMirror`, under `Solo`: at most one
  syncer, no pager, and no failing write. All three rest on `SoloInv`. `RowsTruthful` alone is
  not inductive: a store is only right if the syncer's UIDVALIDITY is the recorded one, a
  record only if the purge removed everything, a prune only if the search was complete. `SoloInv`
  says for each program counter what the syncer's local values still mean (`SoloTask`), also
  when the server has renumbered since. `ServerKeepsSolo` and `ProgressKeepsSolo` show that it
  is kept by the server and by the syncer, `SoloStepDropsOnlyVanished` and `SoloStepRefines`
  read the action properties off it; the refinement maps `rows` and `uidValidity` to the cache
  and its UIDVALIDITY.
* `SharedTruthful` (`RowsTruthfulTogether`), under `WritesLand` (no write fails, UIDNEXT is named): any
  number of concurrent syncs of any kind, the pager among them, with any renumberings and faults.
  `SharedInv` says that, unless `mixed`, all syncers past their SELECT hold one UIDVALIDITY, and what each
  knows of the table then (`SharedTask`): less than `SoloTask`, because another sync may have stored, purged or recorded
  in between, but whoever finds the new value recorded finds the old rows gone.

Of `MessageOps`, for any operations, syncers, servers, renumberings and faults:

* `MessageOpsIInvAlways`. `NoMailLost` is not inductive: that a marked message may go rests on
  what its operation did before. `IInv` adds that UIDs are only given under numberings that
  have been (`Past`), that rows and operations know delivered messages (`RowsKnown`, `OpsKnown`),
  that a session selected what was there (`OpsSelected`), that a move that marks has copied
  (`Copied`), and that on a server without UID EXPUNGE whatever is marked may go (`MarkedMayGo`).
* `MailIsNeverLost` (`NoMailLost`), `OpsTouchWhatIsShown` (`OnlyShownMessageTouched`),
  `PurgesAreJustified` (`PurgeJustified`); the last needs a second invariant (`Spent`) that an
  operation at its purge has seen its UID gone or marked.
* `SharedTruthfulWithOps` (`RowsTruthfulTogether`), under `WritesLand`: what holds of the rows without
  operations holds beside them. Operations drop rows and never add one, so only that no part of `SharedInv`
  asks for a row to be there is needed.

`OnlyShownMessageTouched` allows for what plain EXPUNGE takes of others only where it is sent, and
`PurgesAreJustified` needs that an operation that is not `unheard` marked its message; both hold through
every fallback and swallowed error of the code.

`AccountActorProofs`, for any accounts, servers, commands, actors, channel capacities and faults:

* `AccountActorIInvAlways`. `HandlesUsable` is not inductive: `IInv` adds that a command past its
  start has a sync_mode for the account it works on (`ConfOK`), that a task that ended left no
  message (`EndedEmpty`, for the task that takes over its number) and that a handle a command took is
  out of the map (`HeldApart`, for `SendShutdown`). `Down`: no command and no entry while the
  program does not run. `HandlesStayUsable` follows, for any number of commands at a time.
* `ActorsFollow` (`ActorsFollowTable`), for any number of commands at a time and with a DONE that may
  fail, for every account that is not `muddled`. The property speaks of the moments between commands;
  `FollowInv` says that at most one command is at work on such an account (`Orderly`) and how the
  account stands during it (`Stands`): it waits for its actor (`Unspawned`), its actor for the news
  (`Untold`), its row for its deletion (`Ending`), the copy a correction holds is its row, or the
  actor follows the row (`Follows`). There is one lemma per step, and the
  actors' steps keep what they will work with (`Eventual`), because taking the first message
  leaves the last one the last (`DoneKeepsEventual` for the one that is dropped).

`BackupImportProofs`, for every set of UUIDs, addresses and edits:

* `TypeCorrect`: the types and, with them, what UNIQUE and the foreign keys demand
  (`Consistent`); `UserKeepsTables` has one step per edit.
* `ImportKeepsRows`: `NoOverwrite`, from the types alone; it needs no assumption on races,
  because a row that appeared since `Plan` makes the transaction fail.
* `ImportNotRolledBack` (`ImportSucceeds`) and `NothingUnscopedLost` (`UnscopedRestored`). Both
  rest on `PlanCurrent`: as long as nobody interfered, the plan is the one that would be made
  from the tables as they are. `CurrentPlan` says what such a plan contains, and
  `CurrentPlanFits` that it violates no constraint unless it holds the UUID of an existing
  account.

`CalendarSyncProofs`, for any devices, events, edits, removals and faults: `IInv` says what a run,
which lists the folder, reads the table and writes both, knows between its awaits.

* `NoRevisionIsLost` (`FolderKeepsNewest`). `Compaction`: what is no longer in the folder was
  deleted by hand or is outdone by a newer revision that was sent, every message a run is about
  to move is outdone, and one it is about to delete has a copy in the archive. Being outdone lasts,
  because nothing is ever unsent: this is why a stale list, a crash after the copy or another
  device that compacts does no harm. That one message is the newest needs `Numbered`, the order in
  which messages came, and that a finite set has a heaviest message (`HeaviestExists`).
* `CancelsAreJustified` (`CancelJustified`). An event is cancelled when a row says it was published
  and no message of it was listed. `PublishedWasSent` traces every such mark, in the table, in the
  copy of a run and in the row a command holds, to a message that was sent; compaction keeps
  the newest, so a whole list without it means a removal by hand (`VanishedWasRemoved`, also for a
  command that read its row before the list and writes it after).
* `QuietRunsKeepEdits` (`QuietRunKeepsEdits`) reads off `CopyCurrent` that the copy a run works with
  is the table unless a command wrote meanwhile.
* `TypeCorrect`, with the bound of the published SEQUENCE by that of the row.

`NegotiationProofs`, for any slots, commands, envelopes and faults:

* `NegotiationTypeInvAlways`: threads are sound, and so are the snapshots of all commands; a
  command nobody overtook holds what the table says (`CommandOK`). `ThreadsAreSound` is its
  part about threads.
* `TerminalThreadsStay` (`TerminalStays`) reads off it that a command that is not stale does not
  hold a thread that has ended.
* `CalendarsAgree` (`PeersAgree`): `Agreed` relates the confirmed slot of the initiator to
  every confirmation in the mail, every command that carries one, and the responder's thread.
* `ConfirmedThreadsAreBooked` (`ConfirmedIsBooked`): `Booking` says which command still owes the
  booking or the link of a confirmed thread.

`ReadingProofs`, for any messages and fetches: `IInv` joins `TokensLive` with two facts, that
two fetches of one message are not alone (`NotAlone`) and that the signal of one that is was
asked for (`SignalAsked`). `TokensAlwaysLive`, `CancelledOnRequest`.

`ComposeProofs`, for any mails, clicks, calls and faults: `IInv` adds to `WrittenIsKept` that
a snapshot's draft is stored and holds its text (`Origins`), that a draft in the trash is
delivered or in a later draft (`Trashed`), and what a call has done when it gets to its later
steps (`Finishing`, `Attempts`). `NothingWrittenIsLost`, `SendDeliversOnce`, `DraftsOutliveMails`.

`WorkflowsProofs`, for any messages, steps, runs and faults: `JobsOK` fits each run's program
counter to the list of steps; `FilesInv` (whose directory is whose) gives `ScriptsSeeTheirFiles`,
`SavesInv` (what a run that is still ok has saved) gives `ArchivedMailsAreSaved`, and `CountersInv`,
which counts the runs between the two statements of the record (`Pending`), gives
`CountersAlwaysAgree`: the set changes with a step of one run by that run alone, and a command changes
a row and its history together (`EditCounters`). Of the files and of the pure functions:

* `SavedFilesStay` (`SavedIsKept`), under `BodyApart`: the step that saves the text, which overwrites
  what is there, has a name that no attachment and no file of the user's has. `KeepInv` says that a
  file with what was saved is in the list of used names of every run that is writing (`Known`),
  so that no free name (`FreeNameIs`) is that file's; a run that listed the directory before the file
  was written, or could not list it, is what `exposed` names.
* `UsersFilesStay`: the user's files need no hypothesis on other runs, because they were there before
  every listing. It has no property of its own among the runs, which check `SavedIsKept`.
* `CleanedNames`: `sanitize_filename` gives a clean name for a name of any length over any
  characters, and leaves a clean one alone. The runs check names up to a length.
* `NeedsSuffice`: `scan_needs`, which decides what is computed for a script, and `build_argv`, which
  uses it, agree for every list of parameters (`GoneIsUnused`, `FilesAreThere`).

The hypotheses of the `Solo` theorems, of the two `Shared` ones and of
`SavedFilesStay` are needed, and so are the exceptions that `mixed`, `Misled`, `unheard`, `muddled`,
`lost`, `crossed`, `shared` and `exposed` name: section 5 has what happens without each.

The type invariants `TypeOK` of `FolderSync`, `AccountActor`, `BackupImport` and `CalendarSync`, and
`ThreadsSound`, are proved and no run repeats them.

Only model-checked:

* all liveness, which is beyond this prover: `CacheConverges`, `CommandsReturn`,
  `StrayActorsEnd`, `MailIsFetched`, `RowsAgree`, `ConfirmArrives`, `SpamLeavesInbox`,
  `DueRuleActs`, `FlagsConverge`, `BodiesArrive`, `SendResolves`, and so all of `MailRules`;
* `SendTakesNothing`, which is violated;
* the operators of `DraftTemplate`, and of `WorkflowText` the names of several attachments of one mail
  (`NamesAreDistinct`), the filter (`FilterIsGlob`) and the order and errors of a whole argument list
  (`ArgumentsAsDeclared`): they fold over a text or a list, and what such a definition computes
  for every input takes an induction over data that the provers cannot do.

## 7. What is not modelled

The components listed as such in `PROJECT.json`, with the reason there. Of the others:

* *Folder sync*: the discovery of folders and the loop over accounts, which repeat the steps of
  one folder; the parsing of the IMAP client.
* *Database*: the writer is a FIFO of atomic statements and each write a step of its caller's
  module. The full-text index and the address history, which only searches read, are planned. So
  are the two renames of the one-time encryption.
* *Rules*: the action log, the `not_in_inbox` skip, an empty spam folder; sweeps of more than one
  row; workflow rules that change while mail is matched (the spam rules do).
* *Calendar*: ICS text, recurrence, subscriptions and the actor that polls them. Their
  configuration is read before the actor's mutex is taken, the ETag is stored before the
  cache, and a refresh after a removal inserts again: worth a model of its own.
* *Workflows*: steps that only call a service or the language model; training and analysis,
  whose outcome the user saves.
* *Sending*: the MIME text of a mail. *Body*: MIME parsing and `attachments.rs`.
* *User interface*: all but the compose window and the undo slot. *Contacts*: edits of single
  rows by key.
* Logging, events and progress, the wording of errors; time, except as the order of timeouts.
