----------------------------- MODULE FolderSync -----------------------------
(***************************************************************************)
(* application/sync.rs: bringing the local cache of one folder in line     *)
(* with the server.  Any number of syncers run at once, each on its own    *)
(* IMAP session: the account's IDLE actor ("idle", fetch_recent_in_open_   *)
(* session), opening a folder in the UI ("lazy", sync_folder_recent: the   *)
(* same behind a TTL), the sync button ("window", sync_one_folder, 30      *)
(* days) and the scroll-to-bottom pager ("older", sync_folder_older).      *)
(*                                                                         *)
(* One action per stretch of code between two awaits.  What a syncer read  *)
(* before an await (the SELECT answer, a SEARCH result, a list of local    *)
(* UIDs) stays in its own variables and is used later as it was.  Writes   *)
(* go through the single writer task, so every write is atomic.  The rows  *)
(* of the folder are abstracted to the message their headers describe.     *)
(***************************************************************************)
EXTENDS Mailbox

CONSTANTS
    Syncers,        \* concurrent sync tasks for the folder
    Modes,          \* the entry points in use, a subset of AllModes
    OldMsgs,        \* messages older than SYNC_WINDOW_DAYS
    Limit,          \* page size of the "idle", "lazy" and "older" fetches
    WriterMayFail,  \* whether a database write may return an error
    UidNextSent,    \* whether every SELECT answer names UIDNEXT
    MaxFaults       \* bound: failed server calls, broken streams and crashes

AllModes == {"idle", "lazy", "window", "older"}

ASSUME FolderSyncAssumption ==
    /\ Modes \subseteq AllModes
    /\ OldMsgs \subseteq Msgs
    /\ Limit \in Nat \ {0}
    /\ WriterMayFail \in BOOLEAN
    /\ UidNextSent \in BOOLEAN
    /\ MaxFaults \in Nat

VARIABLES
    rows,           \* envelopes: rows[u], the message the row of UID u shows
    uidValidity,    \* folders.uid_validity, 0 until the first SELECT
    fresh,          \* folders.last_sync_ts is younger than LAZY_TTL
    mixed,          \* history: syncs of two UIDVALIDITY values overlapped, or
                    \* the pager recorded a value without the purge
    pc,             \* where each syncer is
    mode,           \* the entry point each syncer came through
    before,         \* "older": the pivot UID read from the database
    sel,            \* the UIDVALIDITY the syncer's SELECT reported
    doomed,         \* local UIDs the syncer is about to delete
    todo,           \* UIDs the syncer searched for and has still to fetch
    faults          \* faults so far

db == <<rows, uidValidity, fresh, mixed>>
task == <<pc, mode, before, sel, doomed, todo>>
vars == <<server, db, task, faults>>

PCs == {"idle", "select", "validity", "purge", "persist", "search",
        "reconcile", "prune", "since", "fetch", "store"}

TypeOK ==
    /\ MailboxTypeOK
    /\ rows \in [Uids -> Msgs \cup {NoMsg}]
    /\ uidValidity \in 0..MaxEpoch
    /\ fresh \in BOOLEAN
    /\ mixed \in BOOLEAN
    /\ pc \in [Syncers -> PCs]
    /\ mode \in [Syncers -> AllModes]
    /\ before \in [Syncers -> 0..MaxUid]
    /\ sel \in [Syncers -> 0..MaxEpoch]
    /\ doomed \in [Syncers -> SUBSET Uids]
    /\ todo \in [Syncers -> SUBSET Uids]
    /\ faults \in 0..MaxFaults

\* The folder has just been registered (ensure_folder) and never selected.
Init ==
    /\ MailboxInit
    /\ rows = [u \in Uids |-> NoMsg]
    /\ uidValidity = 0
    /\ fresh = FALSE
    /\ mixed = FALSE
    /\ pc = [s \in Syncers |-> "idle"]
    /\ mode = [s \in Syncers |-> "idle"]
    /\ before = [s \in Syncers |-> 0]
    /\ sel = [s \in Syncers |-> 0]
    /\ doomed = [s \in Syncers |-> {}]
    /\ todo = [s \in Syncers |-> {}]
    /\ faults = 0

-----------------------------------------------------------------------------
\* The UIDs that have a local row.
Cached == {u \in Uids : rows[u] # NoMsg}

\* The Limit highest UIDs of S: sort ascending, split_off the tail.
Newest(S) == {u \in S : Cardinality({w \in S : w > u}) < Limit}

\* DELETE FROM envelopes WHERE folder_id = ? AND imap_uid IN S.
RowsWithout(S) == [u \in Uids |-> IF u \in S THEN NoMsg ELSE rows[u]]

Goto(s, l) == pc' = [pc EXCEPT ![s] = l]

\* Local bookkeeping of a syncer that ended, for whatever reason.
Leave(s) ==
    /\ Goto(s, "idle")
    /\ mode' = [mode EXCEPT ![s] = "idle"]
    /\ before' = [before EXCEPT ![s] = 0]
    /\ sel' = [sel EXCEPT ![s] = 0]
    /\ doomed' = [doomed EXCEPT ![s] = {}]
    /\ todo' = [todo EXCEPT ![s] = {}]

\* A session's mailbox survives only while its UIDVALIDITY does: a server
\* that renumbers a selected mailbox drops the session.
SessionAlive(s) == sel[s] = epoch

\* sync_folder_older returns at once unless something older may exist.
OlderPivot(p) ==
    /\ p \in Cached
    /\ p > 1
    /\ \A u \in Cached : p <= u

\* An entry point is called and opens a session.
Start(s) ==
    /\ pc[s] = "idle"
    /\ \E k \in Modes :
         /\ k = "lazy" => ~fresh
         /\ mode' = [mode EXCEPT ![s] = k]
         /\ IF k = "older"
              THEN \E p \in Uids : OlderPivot(p) /\ before' = [before EXCEPT ![s] = p]
              ELSE UNCHANGED before
    /\ Goto(s, "select")
    /\ UNCHANGED <<server, db, sel, doomed, todo, faults>>

\* Another sync is at work on a session that selected an older UIDVALIDITY.
Overlaps(s) == \E t \in Syncers \ {s} : sel[t] \notin {0, epoch}

\* Mutant of Select: no syncer checks UIDVALIDITY.
SelectUnchecked(s) ==
    /\ pc[s] = "select"
    /\ sel' = [sel EXCEPT ![s] = epoch]
    /\ mixed' = (mixed \/ Overlaps(s))
    /\ Goto(s, "persist")
    /\ UNCHANGED <<server, rows, uidValidity, fresh, mode, before, doomed, todo, faults>>

\* SELECT. The pager goes straight to update_folder_uid_state.
Select(s) ==
    /\ pc[s] = "select"
    /\ sel' = [sel EXCEPT ![s] = epoch]
    /\ mixed' = (mixed \/ Overlaps(s))
    /\ Goto(s, IF mode[s] = "older" THEN "persist" ELSE "validity")
    /\ UNCHANGED <<server, rows, uidValidity, fresh, mode, before, doomed, todo, faults>>

\* Mutant of CheckValidity: rows whose UID is in use again are spared.
CheckValidityPartial(s) ==
    /\ pc[s] = "validity"
    /\ IF uidValidity \in {0, sel[s]}
         THEN Goto(s, "persist") /\ UNCHANGED doomed
         ELSE Goto(s, "purge") /\ doomed' = [doomed EXCEPT ![s] = Cached \ live]
    /\ UNCHANGED <<server, db, mode, before, sel, todo, faults>>

\* Mutant of CheckValidity: the new value is recorded before the purge.
CheckValidityRecords(s) ==
    /\ pc[s] = "validity"
    /\ IF uidValidity \in {0, sel[s]}
         THEN Goto(s, "persist") /\ UNCHANGED doomed
         ELSE Goto(s, "purge") /\ doomed' = [doomed EXCEPT ![s] = Cached]
    /\ uidValidity' = sel[s]
    /\ UNCHANGED <<server, rows, fresh, mixed, mode, before, sel, todo, faults>>

\* handle_uidvalidity_change up to its DELETE: compare, list the local UIDs.
CheckValidity(s) ==
    /\ pc[s] = "validity"
    /\ IF uidValidity \in {0, sel[s]}
         THEN Goto(s, "persist") /\ UNCHANGED doomed
         ELSE Goto(s, "purge") /\ doomed' = [doomed EXCEPT ![s] = Cached]
    /\ UNCHANGED <<server, db, mode, before, sel, todo, faults>>

\* The purge's DELETE; its error is logged and the sync carries on.
Purge(s) ==
    /\ pc[s] = "purge"
    /\ \/ rows' = RowsWithout(doomed[s])
       \/ WriterMayFail /\ UNCHANGED rows
    /\ doomed' = [doomed EXCEPT ![s] = {}]
    /\ Goto(s, "persist")
    /\ UNCHANGED <<server, uidValidity, fresh, mixed, mode, before, sel, todo, faults>>

\* update_folder_uid_state: its error is ignored, and nothing is written when
\* the server named no UIDNEXT.
Persist(s) ==
    /\ pc[s] = "persist"
    /\ \/ /\ uidValidity' = sel[s]
          /\ fresh' = TRUE
          /\ mixed' = (mixed \/ (mode[s] = "older" /\ uidValidity # sel[s]))
       \/ (WriterMayFail \/ ~UidNextSent) /\ UNCHANGED <<uidValidity, fresh, mixed>>
    /\ Goto(s, "search")
    /\ UNCHANGED <<server, rows, mode, before, sel, doomed, todo, faults>>

\* Mutant of Search: the reconcile works on the SINCE window.
SearchWindowed(s) ==
    /\ pc[s] = "search"
    /\ SessionAlive(s)
    /\ todo' = [todo EXCEPT ![s] = {u \in live :
                    mode[s] = "window" => assign[epoch][u] \notin OldMsgs}]
    /\ Goto(s, "reconcile")
    /\ UNCHANGED <<server, db, mode, before, sel, doomed, faults>>

\* UID SEARCH ALL, or for the pager UID SEARCH UID 1:before-1 and its tail.
Search(s) ==
    /\ pc[s] = "search"
    /\ SessionAlive(s)
    /\ IF mode[s] = "older"
         THEN /\ todo' = [todo EXCEPT ![s] = Newest({u \in live : u < before[s]})]
              /\ Goto(s, "fetch")
         ELSE /\ todo' = [todo EXCEPT ![s] = live]
              /\ Goto(s, "reconcile")
    /\ UNCHANGED <<server, db, mode, before, sel, doomed, faults>>

\* Mutant of Reconcile: nothing is ever pruned.
ReconcileNothing(s) ==
    /\ pc[s] = "reconcile"
    /\ Goto(s, "prune")
    /\ UNCHANGED <<server, db, mode, before, sel, doomed, todo, faults>>

\* reconcile_folder_uids up to its DELETE: local UIDs the search lacks.
Reconcile(s) ==
    /\ pc[s] = "reconcile"
    /\ doomed' = [doomed EXCEPT ![s] = Cached \ todo[s]]
    /\ Goto(s, "prune")
    /\ UNCHANGED <<server, db, mode, before, sel, todo, faults>>

\* The DELETE of the reconcile, then the choice of what to fetch.
Prune(s) ==
    /\ pc[s] = "prune"
    /\ \/ rows' = RowsWithout(doomed[s])
       \/ WriterMayFail /\ UNCHANGED rows
    /\ doomed' = [doomed EXCEPT ![s] = {}]
    /\ IF mode[s] = "window"
         THEN Goto(s, "since") /\ UNCHANGED todo
         ELSE Goto(s, "fetch") /\ todo' = [todo EXCEPT ![s] = Newest(@)]
    /\ UNCHANGED <<server, uidValidity, fresh, mixed, mode, before, sel, faults>>

\* sync_one_folder's second search, UID SEARCH SINCE.
SearchSince(s) ==
    /\ pc[s] = "since"
    /\ SessionAlive(s)
    /\ todo' = [todo EXCEPT ![s] = {u \in live : assign[epoch][u] \notin OldMsgs}]
    /\ Goto(s, "fetch")
    /\ UNCHANGED <<server, db, mode, before, sel, doomed, faults>>

\* UID FETCH: the server answers for the UIDs it still has. Their headers
\* are fixed here; the rows are written one by one as the stream is read.
Fetch(s) ==
    /\ pc[s] = "fetch"
    /\ todo[s] # {}
    /\ SessionAlive(s)
    /\ todo' = [todo EXCEPT ![s] = @ \cap live]
    /\ Goto(s, "store")
    /\ UNCHANGED <<server, db, mode, before, sel, doomed, faults>>

\* UpsertEnvelope for one response. A failed or unacknowledged write is
\* logged and the loop goes on.
Store(s, u) ==
    /\ pc[s] = "store"
    /\ u \in todo[s]
    /\ \/ rows' = [rows EXCEPT ![u] = assign[sel[s]][u]]
       \/ WriterMayFail /\ UNCHANGED rows
    /\ todo' = [todo EXCEPT ![s] = @ \ {u}]
    /\ UNCHANGED <<server, uidValidity, fresh, mixed, pc, mode, before, sel, doomed, faults>>

\* Nothing (left) to fetch: log out and report.
Finish(s) ==
    /\ pc[s] \in {"fetch", "store"}
    /\ todo[s] = {}
    /\ Leave(s)
    /\ UNCHANGED <<server, db, faults>>

\* A server call fails or the fetch stream breaks off: the sync ends here
\* and keeps what it has written.
Abort(s) ==
    /\ pc[s] \in {"select", "search", "since", "fetch", "store"}
    /\ faults < MaxFaults
    /\ faults' = faults + 1
    /\ Leave(s)
    /\ UNCHANGED <<server, db>>

\* The same for a session the server dropped when it renumbered.
Disconnected(s) ==
    /\ pc[s] \in {"search", "since", "fetch", "store"}
    /\ ~SessionAlive(s)
    /\ Leave(s)
    /\ UNCHANGED <<server, db, faults>>

\* The process dies and is started again: tasks vanish, the database stays.
Crash ==
    /\ faults < MaxFaults
    /\ \E s \in Syncers : pc[s] # "idle"
    /\ faults' = faults + 1
    /\ pc' = [s \in Syncers |-> "idle"]
    /\ mode' = [s \in Syncers |-> "idle"]
    /\ before' = [s \in Syncers |-> 0]
    /\ sel' = [s \in Syncers |-> 0]
    /\ doomed' = [s \in Syncers |-> {}]
    /\ todo' = [s \in Syncers |-> {}]
    /\ UNCHANGED <<server, db>>

\* LAZY_TTL passes.
Expire ==
    /\ fresh
    /\ fresh' = FALSE
    /\ UNCHANGED <<server, rows, uidValidity, mixed, task, faults>>

\* What a syncer does when nothing goes wrong.
Progress(s) ==
    \/ Start(s) \/ Select(s) \/ CheckValidity(s) \/ Purge(s) \/ Persist(s)
    \/ Search(s) \/ Reconcile(s) \/ Prune(s) \/ SearchSince(s) \/ Fetch(s)
    \/ \E u \in Uids : Store(s, u)
    \/ Finish(s)

Next ==
    \/ ServerStep /\ UNCHANGED <<db, task, faults>>
    \/ \E s \in Syncers : Progress(s) \/ Abort(s) \/ Disconnected(s)
    \/ Crash
    \/ Expire

Spec == Init /\ [][Next]_vars

-----------------------------------------------------------------------------
(***************************************************************************)
(* Properties.                                                             *)
(***************************************************************************)

\* Every row shows the message that its UID names under the UIDVALIDITY the
\* folder is recorded with: what sync.rs:766-769 orders the purge before
\* update_folder_uid_state for. Whoever reads a row may trust its UID as far
\* as folders.uid_validity goes, whatever crash or abort came before.
RowsTruthful ==
    \A u \in Uids : rows[u] # NoMsg =>
        uidValidity # 0 /\ rows[u] = assign[uidValidity][u]

\* The same for any number of syncs of any kind, the pager among them, however
\* their checks, purges, records and stores interleave between renumberings: as
\* long as no two of them work under different UIDVALIDITY values at one time
\* and the pager is not the first to see a new one, nobody's late write or late
\* purge leaves a row under a value it does not belong to.
RowsTruthfulTogether == mixed \/ RowsTruthful

\* A step never drops a row the server still backs: reconcile and purge may
\* only remove what is gone or renumbered (sync.rs:786-787, "only UIDs the
\* server doesn't have at all should be dropped").
OnlyVanishedRowsDropped ==
    [][\A u \in Uids : rows[u] # NoMsg /\ rows'[u] = NoMsg =>
           ~(uidValidity = epoch /\ u \in live)]_vars

\* What every full sync is to fetch: the newest page, unless too old.
Wanted == {u \in Newest(live) : assign[epoch][u] \notin OldMsgs}

\* Scheduling the code provides: the actors keep polling, whatever the user
\* pages through besides, a started sync runs on, a dropped session is noticed,
\* time passes. Faults are finite.
Fairness ==
    /\ \A s \in Syncers : /\ WF_vars(Progress(s) \/ Disconnected(s))
                          /\ SF_vars(Start(s) /\ mode'[s] # "older")
    /\ WF_vars(Expire)

FairSpec == Spec /\ Fairness

\* The cache heals: after the last server change and the last fault, every
\* row is current and every wanted message has its row, for good. Errors in
\* a sync are only logged ("continuing"), and a reconcile drops the rows that
\* another sync stored after its search, so this rests on the next sync.
CacheConverges ==
    <>[]( \/ mixed
          \/ /\ Cached \subseteq live
             /\ \A u \in Cached \cup Wanted : rows[u] = assign[epoch][u] )

\* A folder's cache keeps the abstract promise: rows and folders.uid_validity
\* behave like the cache and its recorded UIDVALIDITY in FolderMirror.
Mirror == INSTANCE FolderMirror WITH cache <- rows, valid <- uidValidity

ImplementsMirror == Mirror!MirrorSpec

\* What a sync reports to the database is in it.
WritesLand == ~WriterMayFail /\ UidNextSent

\* The circumstances under which a sync has the folder to itself.
Solo ==
    /\ \A s, t \in Syncers : s = t
    /\ WritesLand
    /\ "older" \notin Modes

\* What a lone syncer knows at each step: what it read before an await still
\* holds when it acts on it, as far as its session is alive.
SoloTask(s) ==
    /\ mode[s] # "older"
    /\ sel[s] <= epoch
    /\ pc[s] \notin {"idle", "select"} => sel[s] # 0 /\ uidValidity <= sel[s]
    /\ pc[s] = "purge" => uidValidity < sel[s] /\ Cached \subseteq doomed[s]
    /\ pc[s] = "persist" => uidValidity = sel[s] \/ Cached = {}
    /\ pc[s] \in {"search", "reconcile", "prune", "since", "fetch", "store"} =>
         uidValidity = sel[s]
    /\ pc[s] \in {"reconcile", "store"} =>
         \A u \in todo[s] : assign[sel[s]][u] # NoMsg
    /\ pc[s] = "reconcile" /\ SessionAlive(s) => (Cached \cap live) \subseteq todo[s]
    /\ pc[s] = "prune" =>
         /\ \A u \in doomed[s] : assign[sel[s]][u] # NoMsg
         /\ SessionAlive(s) => doomed[s] \cap live = {}

\* A sync that has the folder to itself is never misled by a value it holds
\* across an await: the strengthening that makes RowsTruthful inductive.
SoloInv ==
    /\ RowsTruthful
    /\ uidValidity <= epoch
    /\ \A s \in Syncers : SoloTask(s)

\* What a syncer knows when others work beside it under the same UIDVALIDITY:
\* whoever finds the new value recorded finds the old rows gone.
SharedTask(s) ==
    /\ sel[s] <= epoch
    /\ pc[s] \in {"idle", "select"} <=> sel[s] = 0
    /\ sel[s] # 0 => uidValidity <= sel[s]
    /\ pc[s] = "purge" => uidValidity = sel[s] \/ Cached \subseteq doomed[s]
    /\ pc[s] = "persist" => mode[s] = "older" \/ uidValidity = sel[s] \/ Cached = {}
    /\ pc[s] \in {"search", "reconcile", "prune", "since", "fetch", "store"} =>
         uidValidity = sel[s]
    /\ pc[s] = "store" => \A u \in todo[s] : assign[sel[s]][u] # NoMsg

\* The strengthening that makes RowsTruthfulTogether inductive.
SharedInv ==
    \/ mixed
    \/ /\ RowsTruthful
       /\ uidValidity <= epoch
       /\ \A s, t \in Syncers : sel[s] = sel[t] \/ 0 \in {sel[s], sel[t]}
       /\ \A s \in Syncers : SharedTask(s)
=============================================================================
