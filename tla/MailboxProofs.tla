---------------------------- MODULE MailboxProofs ----------------------------
(***************************************************************************)
(* Proofs about the two modules that share a mailbox: first FolderSync,    *)
(* for any messages, bounds, syncers and entry points, then MessageOps,    *)
(* for any operations and servers besides: no message disappears.          *)
(***************************************************************************)
EXTENDS MessageOps, TLAPS

USE DEF Uids, Epochs

-----------------------------------------------------------------------------
(***************************************************************************)
(* Type correctness.                                                       *)
(***************************************************************************)

\* The server's side of the type invariant survives every server event.
LEMMA ServerKeepsType ==
    ASSUME MailboxTypeOK, ServerStep
    PROVE  MailboxTypeOK'
<1> USE MailboxAssumption DEF MailboxAssumption, MailboxTypeOK
<1>1. ASSUME NEW m \in Msgs, Arrive(m) PROVE MailboxTypeOK'
  BY <1>1 DEF Arrive
<1>2. ASSUME NEW u \in Uids, ExpungeAtServer(u) PROVE MailboxTypeOK'
  BY <1>2 DEF ExpungeAtServer
<1>3. CASE Renumber
  <2>1. PICK f \in [Uids -> Msgs \cup {NoMsg}] :
          /\ epoch' = epoch + 1
          /\ assign' = [assign EXCEPT ![epoch + 1] = f]
          /\ live' = {u \in Uids : f[u] # NoMsg}
    BY <1>3 DEF Renumber
  <2>2. epoch + 1 \in Epochs
    BY <1>3 DEF Renumber
  <2>3. assign'[epoch'] = f
    BY <2>1, <2>2
  <2> QED
    BY <2>1, <2>2, <2>3
<1> QED
  BY <1>1, <1>2, <1>3 DEF ServerStep

\* Ending a task, for whatever reason, leaves its variables well-typed.
LEMMA LeaveKeepsType ==
    ASSUME TypeOK, NEW s \in Syncers, Leave(s)
    PROVE  /\ pc' \in [Syncers -> PCs]
           /\ mode' \in [Syncers -> AllModes]
           /\ before' \in [Syncers -> 0..MaxUid]
           /\ sel' \in [Syncers -> 0..MaxEpoch]
           /\ doomed' \in [Syncers -> SUBSET Uids]
           /\ todo' \in [Syncers -> SUBSET Uids]
  BY MailboxAssumption DEF TypeOK, Leave, Goto, PCs, AllModes

\* A syncer that is past SELECT holds a UIDVALIDITY the server has used.
Selected == \A s \in Syncers : pc[s] \notin {"idle", "select"} => sel[s] # 0

\* The literals the actions assign are among the declared ones.
LEMMA Literals ==
    /\ {"idle", "select", "validity", "purge", "persist", "search",
        "reconcile", "prune", "since", "fetch", "store"} \subseteq PCs
    /\ "idle" \in AllModes
    /\ Modes \subseteq AllModes
  BY FolderSyncAssumption DEF FolderSyncAssumption, PCs, AllModes

\* One step of one syncer, without faults, keeps every variable's type.
LEMMA ProgressKeepsType ==
    ASSUME TypeOK, Selected, NEW s \in Syncers, Progress(s)
    PROVE  TypeOK'
<1> USE MailboxAssumption, Literals DEF MailboxAssumption, TypeOK
<1> USE DEF server, db, task, MailboxTypeOK, Goto
<1>1. CASE Start(s)
  <2>1. PICK k \in Modes : mode' = [mode EXCEPT ![s] = k]
    BY <1>1 DEF Start
  <2>2. mode' \in [Syncers -> AllModes]
    BY <2>1
  <2>3. before' \in [Syncers -> 0..MaxUid]
    <3>1. before' = before \/ \E p \in Uids : before' = [before EXCEPT ![s] = p]
      BY <1>1 DEF Start
    <3>2. ASSUME NEW p \in Uids, before' = [before EXCEPT ![s] = p]
          PROVE  before' \in [Syncers -> 0..MaxUid]
      <4>1. p \in 0..MaxUid
        OBVIOUS
      <4> QED
        BY ONLY <3>2, <4>1, before \in [Syncers -> 0..MaxUid]
    <3> QED
      BY <3>1, <3>2
  <2>4. pc' \in [Syncers -> PCs]
    BY <1>1 DEF Start
  <2>5. UNCHANGED <<server, db, sel, doomed, todo, faults>>
    BY <1>1 DEF Start
  <2> QED
    BY <2>2, <2>3, <2>4, <2>5
<1>2. CASE Select(s)
  BY <1>2 DEF Select
<1>3. CASE CheckValidity(s)
  <2>1. pc' \in [Syncers -> PCs]
    BY <1>3 DEF CheckValidity
  <2>2. Cached \in SUBSET Uids
    BY DEF Cached
  <2>3. doomed' = doomed \/ doomed' = [doomed EXCEPT ![s] = Cached]
    BY <1>3 DEF CheckValidity
  <2>4. doomed' \in [Syncers -> SUBSET Uids]
    BY <2>2, <2>3
  <2> QED
    BY <1>3, <2>1, <2>4 DEF CheckValidity
<1>4. CASE Purge(s)
  <2>1. rows' \in [Uids -> Msgs \cup {NoMsg}]
    BY <1>4 DEF Purge, RowsWithout
  <2> QED
    BY <1>4, <2>1 DEF Purge
<1>5. CASE Persist(s)
  <2>1. fresh' \in BOOLEAN
    BY <1>5 DEF Persist
  <2>2. uidValidity' \in 0..MaxEpoch /\ pc' \in [Syncers -> PCs]
    BY <1>5 DEF Persist
  <2>3. UNCHANGED <<epoch, assign, live, rows, mode, before, sel, doomed, todo, faults>>
    BY <1>5 DEF Persist
  <2>4. mixed' \in BOOLEAN
    BY <1>5 DEF Persist
  <2> QED
    BY <2>1, <2>2, <2>3, <2>4
<1>6. CASE Search(s)
  <2>1. Newest({u \in live : u < before[s]}) \subseteq Uids
    BY DEF Newest
  <2>2. todo' \in [Syncers -> SUBSET Uids]
    BY <1>6, <2>1 DEF Search
  <2>3. pc' \in [Syncers -> PCs]
    BY <1>6 DEF Search
  <2> QED
    BY <1>6, <2>2, <2>3 DEF Search
<1>7. CASE Reconcile(s)
  BY <1>7 DEF Reconcile, Cached
<1>8. CASE Prune(s)
  <2>1. Newest(todo[s]) \subseteq Uids
    BY DEF Newest
  <2>2. todo' = todo \/ todo' = [todo EXCEPT ![s] = Newest(todo[s])]
    BY <1>8 DEF Prune
  <2>3. todo' \in [Syncers -> SUBSET Uids]
    BY <2>1, <2>2
  <2>4. doomed' \in [Syncers -> SUBSET Uids]
    BY <1>8 DEF Prune
  <2>5. rows' = RowsWithout(doomed[s]) \/ rows' = rows
    BY <1>8 DEF Prune
  <2>6. rows' \in [Uids -> Msgs \cup {NoMsg}]
    BY <2>5 DEF RowsWithout
  <2>7. pc' \in [Syncers -> PCs]
    BY <1>8 DEF Prune
  <2>8. UNCHANGED <<epoch, assign, live, uidValidity, fresh, mixed, mode, before, sel, faults>>
    BY <1>8 DEF Prune
  <2> QED
    BY <2>3, <2>4, <2>6, <2>7, <2>8
<1>9. CASE SearchSince(s)
  <2>1. todo' \in [Syncers -> SUBSET Uids]
    BY <1>9 DEF SearchSince
  <2> QED
    BY <1>9, <2>1 DEF SearchSince
<1>10. CASE Fetch(s)
  BY <1>10 DEF Fetch
<1>11. ASSUME NEW u \in Uids, Store(s, u) PROVE TypeOK'
  <2>0. pc[s] = "store" /\ sel[s] # 0
    BY <1>11 DEF Store, Selected
  <2>1. assign[sel[s]][u] \in Msgs \cup {NoMsg}
    BY <2>0
  <2>2. rows' \in [Uids -> Msgs \cup {NoMsg}]
    BY <1>11, <2>1 DEF Store
  <2> QED
    BY <1>11, <2>2 DEF Store
<1>12. CASE Finish(s)
  BY <1>12, LeaveKeepsType DEF Finish
<1> QED
  BY <1>1, <1>2, <1>3, <1>4, <1>5, <1>6, <1>7, <1>8, <1>9, <1>10, <1>11, <1>12
     DEF Progress

\* A step of one syncer sets sel when it leaves "select" and not before.
LEMMA ProgressKeepsSelected ==
    ASSUME TypeOK, Selected, NEW s \in Syncers, Progress(s)
    PROVE  Selected'
<1> USE DEF TypeOK, Selected, MailboxTypeOK, Goto
<1>1. CASE Start(s) BY <1>1 DEF Start
<1>2. CASE Select(s) BY <1>2 DEF Select
<1>3. CASE CheckValidity(s) BY <1>3 DEF CheckValidity
<1>4. CASE Purge(s) BY <1>4 DEF Purge
<1>5. CASE Persist(s) BY <1>5 DEF Persist
<1>6. CASE Search(s) BY <1>6 DEF Search
<1>7. CASE Reconcile(s) BY <1>7 DEF Reconcile
<1>8. CASE Prune(s) BY <1>8 DEF Prune
<1>9. CASE SearchSince(s) BY <1>9 DEF SearchSince
<1>10. CASE Fetch(s) BY <1>10 DEF Fetch
<1>11. ASSUME NEW u \in Uids, Store(s, u) PROVE Selected'
  BY <1>11 DEF Store
<1>12. CASE Finish(s) BY <1>12 DEF Finish, Leave
<1> QED
  BY <1>1, <1>2, <1>3, <1>4, <1>5, <1>6, <1>7, <1>8, <1>9, <1>10, <1>11, <1>12
     DEF Progress

\* Every variable keeps its type, whatever the syncers, the server and the
\* faults do.
THEOREM TypeCorrect == Spec => [](TypeOK /\ Selected)
<1> USE MailboxAssumption, FolderSyncAssumption DEF MailboxAssumption, FolderSyncAssumption
<1>1. Init => TypeOK /\ Selected
  <2> SUFFICES ASSUME Init PROVE TypeOK /\ Selected
    OBVIOUS
  <2>1. MailboxTypeOK
    BY DEF Init, MailboxInit, MailboxTypeOK
  <2>2. rows \in [Uids -> Msgs \cup {NoMsg}] /\ uidValidity \in 0..MaxEpoch
    BY DEF Init
  <2>3. pc \in [Syncers -> PCs] /\ mode \in [Syncers -> AllModes]
    BY DEF Init, PCs, AllModes
  <2>4. before \in [Syncers -> 0..MaxUid] /\ sel \in [Syncers -> 0..MaxEpoch]
    BY DEF Init
  <2>5. doomed \in [Syncers -> SUBSET Uids] /\ todo \in [Syncers -> SUBSET Uids]
    BY DEF Init
  <2>6. fresh \in BOOLEAN /\ mixed \in BOOLEAN
    BY DEF Init
  <2>7. faults \in 0..MaxFaults
    BY DEF Init
  <2>8. Selected
    BY DEF Init, Selected
  <2> QED
    BY <2>1, <2>2, <2>3, <2>4, <2>5, <2>6, <2>7, <2>8, Zenon DEF TypeOK
<1>2. TypeOK /\ Selected /\ [Next]_vars => TypeOK' /\ Selected'
  <2> SUFFICES ASSUME TypeOK, Selected, [Next]_vars PROVE TypeOK' /\ Selected'
    OBVIOUS
  <2>1. CASE ServerStep /\ UNCHANGED <<db, task, faults>>
    BY <2>1, ServerKeepsType DEF db, task, TypeOK, Selected
  <2>2. ASSUME NEW s \in Syncers, Progress(s) PROVE TypeOK' /\ Selected'
    BY <2>2, ProgressKeepsType, ProgressKeepsSelected
  <2>3. ASSUME NEW s \in Syncers, Abort(s) \/ Disconnected(s) PROVE TypeOK' /\ Selected'
    <3>1. UNCHANGED <<server, db>> /\ faults' \in 0..MaxFaults /\ Leave(s)
      BY <2>3 DEF Abort, Disconnected, TypeOK
    <3>2. TypeOK'
      BY <3>1, LeaveKeepsType DEF server, db, MailboxTypeOK, TypeOK
    <3>3. Selected'
      BY <3>1 DEF Leave, Goto, TypeOK, Selected
    <3> QED
      BY <3>2, <3>3
  <2>4. CASE Crash
    <3>1. TypeOK'
      BY <2>4, Literals DEF Crash, server, db, MailboxTypeOK, TypeOK
    <3>2. Selected'
      BY <2>4 DEF Crash, Selected
    <3> QED
      BY <3>1, <3>2
  <2>5. CASE Expire
    <3>1. fresh' \in BOOLEAN
      BY <2>5 DEF Expire
    <3>2. UNCHANGED <<server, rows, uidValidity, mixed, task, faults>>
      BY <2>5 DEF Expire
    <3> QED
      BY <3>1, <3>2 DEF server, task, MailboxTypeOK, TypeOK, Selected
  <2>6. CASE UNCHANGED vars
    BY <2>6 DEF vars, server, db, task, MailboxTypeOK, TypeOK, Selected
  <2> QED
    BY <2>1, <2>2, <2>3, <2>4, <2>5, <2>6 DEF Next
<1> QED
  BY <1>1, <1>2, PTL DEF Spec

-----------------------------------------------------------------------------
(***************************************************************************)
(* A sync that has the folder to itself keeps every row truthful.          *)
(***************************************************************************)

\* Within one UIDVALIDITY the server never reassigns a UID, and a UID that
\* appears was free before.
LEMMA ServerRemembers ==
    ASSUME MailboxTypeOK, ServerStep
    PROVE  /\ epoch' \in {epoch, epoch + 1}
           /\ \A e \in Epochs, u \in Uids :
                e <= epoch /\ assign[e][u] # NoMsg => assign'[e][u] = assign[e][u]
           /\ epoch' = epoch =>
                \A u \in live' : u \in live \/ assign[epoch][u] = NoMsg
<1> USE MailboxAssumption DEF MailboxAssumption, MailboxTypeOK
<1>1. ASSUME NEW m \in Msgs, Arrive(m)
      PROVE  /\ epoch' = epoch
             /\ \A e \in Epochs, u \in Uids :
                  assign[e][u] # NoMsg => assign'[e][u] = assign[e][u]
             /\ \A u \in live' : u \in live \/ assign[epoch][u] = NoMsg
  <2>1. PICK w \in Uids : /\ assign[epoch][w] = NoMsg
                          /\ assign' = [assign EXCEPT ![epoch][w] = m]
                          /\ live' = live \cup {w}
    BY <1>1 DEF Arrive
  <2> QED
    BY <1>1, <2>1 DEF Arrive
<1>2. ASSUME NEW w \in Uids, ExpungeAtServer(w)
      PROVE  epoch' = epoch /\ assign' = assign /\ live' \subseteq live
  BY <1>2 DEF ExpungeAtServer
<1>3. CASE Renumber
  <2>1. PICK f \in [Uids -> Msgs \cup {NoMsg}] :
          epoch' = epoch + 1 /\ assign' = [assign EXCEPT ![epoch + 1] = f]
    BY <1>3 DEF Renumber
  <2> QED
    BY <2>1
<1> QED
  BY <1>1, <1>2, <1>3 DEF ServerStep

\* A server event does not invalidate what a lone syncer relies on.
LEMMA ServerKeepsSolo ==
    ASSUME TypeOK, SoloInv, ServerStep, UNCHANGED <<db, task, faults>>
    PROVE  SoloInv'
<1> USE MailboxAssumption DEF MailboxAssumption, TypeOK, MailboxTypeOK, db, task
<1>1. /\ epoch' \in {epoch, epoch + 1}
      /\ \A e \in Epochs, u \in Uids :
           e <= epoch /\ assign[e][u] # NoMsg => assign'[e][u] = assign[e][u]
      /\ epoch' = epoch => \A u \in live' : u \in live \/ assign[epoch][u] = NoMsg
  BY ServerRemembers
<1>2. RowsTruthful /\ uidValidity <= epoch
  BY DEF SoloInv
<1>3. RowsTruthful'
  <2> SUFFICES ASSUME NEW u \in Uids, rows'[u] # NoMsg
               PROVE  uidValidity' # 0 /\ rows'[u] = assign'[uidValidity'][u]
    BY DEF RowsTruthful
  <2>1. rows' = rows /\ uidValidity' = uidValidity
    OBVIOUS
  <2>2. uidValidity # 0 /\ rows[u] = assign[uidValidity][u] /\ rows[u] # NoMsg
    BY <1>2, <2>1 DEF RowsTruthful
  <2>3. uidValidity \in Epochs
    BY <2>2 DEF Epochs
  <2>4. assign'[uidValidity][u] = assign[uidValidity][u]
    BY <1>1, <1>2, <2>2, <2>3
  <2> QED
    BY <2>1, <2>2, <2>4
<1>4. ASSUME NEW s \in Syncers PROVE SoloTask(s)'
  <2>1. SoloTask(s)
    BY DEF SoloInv
  <2>2. Cached' = Cached
    BY DEF Cached
  <2>3. sel[s] <= epoch /\ sel[s] <= epoch'
    BY <1>1, <2>1 DEF SoloTask
  <2>4. pc[s] \in {"reconcile", "store"} =>
          \A u \in todo[s] : assign'[sel[s]][u] # NoMsg
    <3> SUFFICES ASSUME pc[s] \in {"reconcile", "store"}, NEW u \in todo[s]
                 PROVE  assign'[sel[s]][u] # NoMsg
      OBVIOUS
    <3>1. sel[s] \in Epochs /\ u \in Uids
      BY <2>1 DEF SoloTask
    <3>2. assign[sel[s]][u] # NoMsg
      BY <2>1 DEF SoloTask
    <3> QED
      BY <1>1, <2>3, <3>1, <3>2
  <2>5. SessionAlive(s)' => SessionAlive(s) /\ epoch' = epoch
    BY <1>1, <2>3 DEF SessionAlive
  <2>6. epoch' = epoch /\ uidValidity = epoch => Cached \cap live' \subseteq Cached \cap live
    BY <1>1, <1>2 DEF RowsTruthful, Cached
  <2>7. pc[s] = "reconcile" /\ SessionAlive(s)' => (Cached \cap live') \subseteq todo[s]
    BY <2>1, <2>5, <2>6 DEF SoloTask, SessionAlive
  <2>8. pc[s] = "prune" /\ SessionAlive(s)' => doomed[s] \cap live' = {}
    BY <1>1, <2>1, <2>5 DEF SoloTask, SessionAlive
  <2>9. pc[s] = "prune" => \A u \in doomed[s] : assign'[sel[s]][u] # NoMsg
    <3> SUFFICES ASSUME pc[s] = "prune", NEW u \in doomed[s]
                 PROVE  assign'[sel[s]][u] # NoMsg
      OBVIOUS
    <3>1. sel[s] \in Epochs /\ u \in Uids
      BY <2>1 DEF SoloTask
    <3>2. assign[sel[s]][u] # NoMsg
      BY <2>1 DEF SoloTask
    <3> QED
      BY <1>1, <2>3, <3>1, <3>2
  <2> QED
    BY <2>1, <2>2, <2>3, <2>4, <2>7, <2>8, <2>9 DEF SoloTask
<1> QED
  BY <1>1, <1>2, <1>3, <1>4 DEF SoloInv

\* Every step of a lone syncer keeps its invariant.
LEMMA ProgressKeepsSolo ==
    ASSUME TypeOK, Selected, Solo, SoloInv, NEW s \in Syncers, Progress(s)
    PROVE  SoloInv'
<1> USE MailboxAssumption DEF MailboxAssumption, TypeOK, MailboxTypeOK, server, db, Goto
<1>1. /\ RowsTruthful
      /\ uidValidity <= epoch
      /\ SoloTask(s)
      /\ ~WriterMayFail /\ UidNextSent
      /\ "older" \notin Modes
  BY DEF SoloInv, Solo, WritesLand
<1> SUFFICES RowsTruthful' /\ uidValidity' <= epoch' /\ SoloTask(s)'
  BY DEF Solo, SoloInv
<1>2. CASE Start(s)
  BY <1>1, <1>2 DEF Start, RowsTruthful, SoloTask, Cached, SessionAlive
<1>3. CASE Select(s)
  BY <1>1, <1>3 DEF Select, RowsTruthful, SoloTask, Cached, SessionAlive
<1>4. CASE CheckValidity(s)
  BY <1>1, <1>4 DEF CheckValidity, RowsTruthful, SoloTask, Cached, SessionAlive
<1>5. CASE Purge(s)
  BY <1>1, <1>5 DEF Purge, RowsWithout, RowsTruthful, SoloTask, Cached, SessionAlive
<1>6. CASE Persist(s)
  <2>1. /\ pc[s] = "persist" /\ uidValidity' = sel[s] /\ pc' = [pc EXCEPT ![s] = "search"]
        /\ UNCHANGED <<epoch, assign, live, rows, mode, sel, doomed, todo>>
    BY <1>1, <1>6 DEF Persist
  <2>2. /\ sel[s] # 0 /\ sel[s] <= epoch /\ mode[s] # "older"
        /\ uidValidity = sel[s] \/ Cached = {}
    BY <1>1, <2>1 DEF SoloTask
  <2>3. RowsTruthful'
    BY <1>1, <2>1, <2>2 DEF RowsTruthful, Cached
  <2>4. pc'[s] = "search"
    BY <2>1
  <2>5. SoloTask(s)'
    BY <2>1, <2>2, <2>4 DEF SoloTask
  <2> QED
    BY <2>1, <2>2, <2>3, <2>5
<1>7. CASE Search(s)
  <2>1. mode[s] # "older" /\ sel[s] = epoch /\ uidValidity = sel[s]
    BY <1>1, <1>7 DEF Search, SoloTask, SessionAlive
  <2>2. /\ pc' = [pc EXCEPT ![s] = "reconcile"]
        /\ todo' = [todo EXCEPT ![s] = live]
        /\ UNCHANGED <<epoch, assign, live, rows, uidValidity, mode, sel, doomed>>
    BY <1>7, <2>1 DEF Search
  <2>3. \A u \in live : assign[epoch][u] # NoMsg
    OBVIOUS
  <2>4. SoloTask(s)'
    BY <2>1, <2>2, <2>3 DEF SoloTask, Cached
  <2> QED
    BY <1>1, <2>2, <2>4 DEF RowsTruthful
<1>8. CASE Reconcile(s)
  BY <1>1, <1>8 DEF Reconcile, RowsTruthful, SoloTask, Cached, SessionAlive
<1>9. CASE Prune(s)
  BY <1>1, <1>9 DEF Prune, RowsWithout, RowsTruthful, SoloTask, Cached, SessionAlive
<1>10. CASE SearchSince(s)
  BY <1>1, <1>10 DEF SearchSince, RowsTruthful, SoloTask, Cached, SessionAlive
<1>11. CASE Fetch(s)
  BY <1>1, <1>11 DEF Fetch, RowsTruthful, SoloTask, Cached, SessionAlive
<1>12. ASSUME NEW u \in Uids, Store(s, u)
       PROVE  RowsTruthful' /\ uidValidity' <= epoch' /\ SoloTask(s)'
  BY <1>1, <1>12 DEF Store, RowsTruthful, SoloTask, Cached, SessionAlive
<1>13. CASE Finish(s)
  BY <1>1, <1>13 DEF Finish, Leave, RowsTruthful, SoloTask, Cached, SessionAlive
<1> QED
  BY <1>2, <1>3, <1>4, <1>5, <1>6, <1>7, <1>8, <1>9, <1>10, <1>11, <1>12, <1>13
     DEF Progress

\* SoloInv is inductive for a lone syncer.
LEMMA SoloInductive ==
    ASSUME TypeOK, Selected, Solo, SoloInv, [Next]_vars
    PROVE  SoloInv'
<1>1. CASE ServerStep /\ UNCHANGED <<db, task, faults>>
  BY <1>1, ServerKeepsSolo
<1>2. ASSUME NEW s \in Syncers, Progress(s) PROVE SoloInv'
  BY <1>2, ProgressKeepsSolo
<1>3. ASSUME NEW s \in Syncers, Abort(s) \/ Disconnected(s) PROVE SoloInv'
  <2>1. UNCHANGED <<server, db>> /\ Leave(s)
    BY <1>3 DEF Abort, Disconnected
  <2> QED
    BY <2>1 DEF server, db, TypeOK, MailboxTypeOK, Leave, Goto, Solo, SoloInv,
                RowsTruthful, SoloTask, Cached, SessionAlive
<1>4. CASE Crash
  BY <1>4 DEF Crash, server, db, TypeOK, MailboxTypeOK, SoloInv, RowsTruthful,
              SoloTask, Cached, SessionAlive
<1>5. CASE Expire
  BY <1>5 DEF Expire, server, task, SoloInv, RowsTruthful, SoloTask, Cached, SessionAlive
<1>6. CASE UNCHANGED vars
  BY <1>6 DEF vars, server, db, task, SoloInv, RowsTruthful, SoloTask, Cached, SessionAlive
<1> QED
  BY <1>1, <1>2, <1>3, <1>4, <1>5, <1>6 DEF Next

\* A lone syncer holds the folder to itself from the start, and always.
LEMMA SoloAlways == Solo => (Spec => []SoloInv)
<1> SUFFICES ASSUME Solo PROVE Spec => []SoloInv
  OBVIOUS
<1>1. Init => SoloInv
  <2> SUFFICES ASSUME Init PROVE SoloInv
    OBVIOUS
  <2>1. RowsTruthful
    BY DEF Init, RowsTruthful
  <2>2. uidValidity <= epoch
    BY DEF Init, MailboxInit
  <2>3. \A s \in Syncers : SoloTask(s)
    BY DEF Init, MailboxInit, SoloTask
  <2> QED
    BY <2>1, <2>2, <2>3 DEF SoloInv
<1>2. TypeOK /\ Selected /\ SoloInv /\ [Next]_vars => SoloInv'
  BY SoloInductive
<1> QED
  BY <1>1, <1>2, TypeCorrect, PTL DEF Spec

\* A sync that has the folder to itself, through any crashes, aborts and
\* server events, keeps every row truthful: purging before recording the new
\* UIDVALIDITY is enough, without a transaction around the two.
THEOREM SoloTruthful == Solo => (Spec => []RowsTruthful)
<1>1. SoloInv => RowsTruthful
  BY DEF SoloInv
<1> QED
  BY <1>1, SoloAlways, PTL

-----------------------------------------------------------------------------
(***************************************************************************)
(* A sync that has the folder to itself drops only what has vanished.      *)
(***************************************************************************)

\* A row that a step removes was purged as renumbered or pruned as gone.
LEMMA SoloStepDropsOnlyVanished ==
    ASSUME TypeOK, Solo, SoloInv, Next,
           NEW u \in Uids, rows[u] # NoMsg, rows'[u] = NoMsg
    PROVE  ~(uidValidity = epoch /\ u \in live)
<1> USE DEF TypeOK, MailboxTypeOK
<1>1. PICK s \in Syncers : Progress(s)
  <2>1. rows' # rows
    OBVIOUS
  <2>2. ASSUME ServerStep /\ UNCHANGED <<db, task, faults>> PROVE FALSE
    BY <2>1, <2>2 DEF db
  <2>3. ASSUME NEW s \in Syncers, Abort(s) \/ Disconnected(s) PROVE FALSE
    BY <2>1, <2>3 DEF Abort, Disconnected, db
  <2>4. ASSUME Crash \/ Expire PROVE FALSE
    BY <2>1, <2>4 DEF Crash, Expire, db
  <2> QED
    BY <2>2, <2>3, <2>4 DEF Next
<1>2. RowsTruthful /\ uidValidity <= epoch /\ SoloTask(s) /\ ~WriterMayFail
  BY DEF SoloInv, Solo, WritesLand
<1>3. CASE Purge(s)
  BY <1>2, <1>3 DEF Purge, SoloTask
<1>4. CASE Prune(s)
  <2>1. u \in doomed[s] /\ uidValidity = sel[s]
    BY <1>2, <1>4 DEF Prune, RowsWithout, SoloTask
  <2>2. SessionAlive(s) => doomed[s] \cap live = {}
    BY <1>2, <1>4 DEF Prune, SoloTask
  <2> QED
    BY <2>1, <2>2 DEF SessionAlive
<1>5. ASSUME NEW w \in Uids, Store(s, w) PROVE FALSE
  <2>1. pc[s] = "store" /\ w \in todo[s] /\ rows' = [rows EXCEPT ![w] = assign[sel[s]][w]]
    BY <1>2, <1>5 DEF Store
  <2>2. assign[sel[s]][w] # NoMsg
    BY <1>2, <2>1 DEF SoloTask
  <2> QED
    BY <2>1, <2>2
<1>6. ASSUME rows' = rows PROVE FALSE
  BY <1>6
<1> QED
  BY <1>1, <1>3, <1>4, <1>5, <1>6
     DEF Progress, Start, Select, CheckValidity, Persist, Search, Reconcile,
         SearchSince, Fetch, Finish, db

\* Alone, the reconcile pass and the purge never drop a row the server still
\* backs, however the server changes while they run.
THEOREM SoloDropsOnlyVanished == Solo => (Spec => OnlyVanishedRowsDropped)
<1> SUFFICES ASSUME Solo PROVE Spec => OnlyVanishedRowsDropped
  OBVIOUS
<1>1. Spec => []SoloInv
  BY SoloAlways
<1>2. TypeOK /\ SoloInv /\ [Next]_vars =>
        [\A u \in Uids : rows[u] # NoMsg /\ rows'[u] = NoMsg =>
            ~(uidValidity = epoch /\ u \in live)]_vars
  BY SoloStepDropsOnlyVanished
<1> QED
  BY <1>1, <1>2, TypeCorrect, PTL DEF Spec, OnlyVanishedRowsDropped

-----------------------------------------------------------------------------
(***************************************************************************)
(* Any number of syncs of any kind, as long as they work under the same    *)
(* UIDVALIDITY at a time, keep every row truthful.                         *)
(***************************************************************************)

\* A server event does not invalidate what syncers under one UIDVALIDITY rely on.
LEMMA ServerKeepsShared ==
    ASSUME TypeOK, SharedInv, ServerStep, UNCHANGED <<db, task, faults>>
    PROVE  SharedInv'
<1> USE MailboxAssumption DEF MailboxAssumption, TypeOK, MailboxTypeOK, db, task
<1>1. CASE mixed
  BY <1>1 DEF SharedInv
<1>2. CASE ~mixed
  <2>1. /\ epoch' \in {epoch, epoch + 1}
        /\ \A e \in Epochs, u \in Uids :
             e <= epoch /\ assign[e][u] # NoMsg => assign'[e][u] = assign[e][u]
    BY ServerRemembers
  <2>2. /\ RowsTruthful
        /\ uidValidity <= epoch
        /\ \A s, t \in Syncers : sel[s] = sel[t] \/ 0 \in {sel[s], sel[t]}
        /\ \A s \in Syncers : SharedTask(s)
    BY <1>2 DEF SharedInv
  <2>3. RowsTruthful'
    <3> SUFFICES ASSUME NEW u \in Uids, rows[u] # NoMsg
                 PROVE  uidValidity # 0 /\ rows[u] = assign'[uidValidity][u]
      BY DEF RowsTruthful
    <3>1. uidValidity \in Epochs /\ rows[u] = assign[uidValidity][u]
      BY <2>2 DEF RowsTruthful
    <3> QED
      BY <2>1, <2>2, <3>1
  <2>4. ASSUME NEW s \in Syncers PROVE SharedTask(s)'
    <3>1. SharedTask(s) /\ sel[s] <= epoch' /\ Cached' = Cached
      BY <2>1, <2>2 DEF SharedTask, Cached
    <3>2. ASSUME pc[s] = "store", NEW u \in todo[s] PROVE assign'[sel[s]][u] # NoMsg
      <4>1. sel[s] \in Epochs /\ u \in Uids /\ assign[sel[s]][u] # NoMsg /\ sel[s] <= epoch
        BY <3>1, <3>2 DEF SharedTask
      <4> QED
        BY <2>1, <4>1
    <3> QED
      BY <3>1, <3>2 DEF SharedTask
  <2> QED
    BY <2>1, <2>2, <2>3, <2>4 DEF SharedInv
<1> QED
  BY <1>1, <1>2

\* A step of one syncer that leaves mixed FALSE keeps what the others know.
LEMMA ProgressKeepsShared ==
    ASSUME TypeOK, WritesLand, SharedInv, NEW s \in Syncers, Progress(s)
    PROVE  SharedInv'
<1> USE MailboxAssumption DEF MailboxAssumption, TypeOK, MailboxTypeOK, server, db, Goto
<1>1. mixed => mixed'
  BY DEF Progress, Start, Select, CheckValidity, Purge, Persist, Search, Reconcile, Prune,
         SearchSince, Fetch, Store, Finish
<1> SUFFICES ASSUME ~mixed, ~mixed' PROVE SharedInv'
  BY <1>1 DEF SharedInv
<1>2. /\ RowsTruthful
      /\ uidValidity <= epoch
      /\ \A t, r \in Syncers : sel[t] = sel[r] \/ 0 \in {sel[t], sel[r]}
      /\ \A t \in Syncers : SharedTask(t)
  BY DEF SharedInv
<1>3. ~WriterMayFail /\ UidNextSent
  BY DEF WritesLand
<1> SUFFICES /\ RowsTruthful'
             /\ uidValidity' <= epoch'
             /\ \A t, r \in Syncers : sel'[t] = sel'[r] \/ 0 \in {sel'[t], sel'[r]}
             /\ \A t \in Syncers : SharedTask(t)'
  BY DEF SharedInv
<1>4. ASSUME UNCHANGED <<epoch, assign, rows, uidValidity, sel, todo>>,
             \A t \in Syncers \ {s} : UNCHANGED <<pc[t], mode[t], doomed[t]>>, SharedTask(s)'
      PROVE  SharedInv'
  <2>1. ASSUME NEW t \in Syncers, t # s PROVE SharedTask(t)'
    BY <1>2, <1>4, <2>1 DEF SharedTask, Cached
  <2> QED
    BY <1>2, <1>4, <2>1 DEF SharedInv, RowsTruthful
<1>5. CASE Start(s)
  BY <1>2, <1>5 DEF Start, RowsTruthful, SharedTask, Cached
<1>6. CASE Select(s)
  <2>1. sel' = [sel EXCEPT ![s] = epoch] /\ UNCHANGED <<epoch, assign, live, rows, uidValidity, mode, before, doomed, todo>>
    BY <1>6 DEF Select
  <2>2. \A t \in Syncers \ {s} : sel[t] \in {0, epoch}
    BY <1>6 DEF Select, Overlaps
  <2>3. pc' = [pc EXCEPT ![s] = IF mode[s] = "older" THEN "persist" ELSE "validity"]
    BY <1>6 DEF Select
  <2>4. \A t, r \in Syncers : sel'[t] = sel'[r] \/ 0 \in {sel'[t], sel'[r]}
    BY <2>1, <2>2
  <2>5. ASSUME NEW t \in Syncers PROVE SharedTask(t)'
    BY <1>2, <2>1, <2>3 DEF SharedTask, Cached
  <2> QED
    BY <1>2, <2>1, <2>4, <2>5 DEF RowsTruthful
<1>7. CASE CheckValidity(s)
  BY <1>2, <1>7 DEF CheckValidity, RowsTruthful, SharedTask, Cached
<1>8. CASE Purge(s)
  <2>1. /\ rows' = RowsWithout(doomed[s]) /\ pc[s] = "purge"
        /\ doomed' = [doomed EXCEPT ![s] = {}] /\ pc' = [pc EXCEPT ![s] = "persist"]
        /\ UNCHANGED <<epoch, assign, live, uidValidity, mode, before, sel, todo>>
    BY <1>3, <1>8 DEF Purge
  <2>2. Cached' = Cached \ doomed[s]
    BY <2>1 DEF Cached, RowsWithout
  <2>3. RowsTruthful'
    BY <1>2, <2>1 DEF RowsTruthful, RowsWithout
  <2>4. ASSUME NEW t \in Syncers PROVE SharedTask(t)'
    BY <1>2, <2>1, <2>2 DEF SharedTask
  <2> QED
    BY <1>2, <2>1, <2>3, <2>4
<1>9. CASE Persist(s)
  <2>1. /\ uidValidity' = sel[s] /\ pc[s] = "persist"
        /\ pc' = [pc EXCEPT ![s] = "search"]
        /\ UNCHANGED <<epoch, assign, live, rows, mode, before, sel, doomed, todo>>
        /\ mode[s] = "older" => uidValidity = sel[s]
    BY <1>3, <1>9 DEF Persist
  <2>2. uidValidity = sel[s] \/ Cached = {}
    BY <1>2, <2>1 DEF SharedTask
  <2>3. sel[s] # 0 /\ sel[s] <= epoch
    BY <1>2, <2>1 DEF SharedTask
  <2>4. RowsTruthful'
    BY <1>2, <2>1, <2>2 DEF RowsTruthful, Cached
  <2>5. ASSUME NEW t \in Syncers PROVE SharedTask(t)'
    <3>1. sel[t] = sel[s] \/ sel[t] = 0
      BY <1>2, <2>3
    <3> QED
      BY <1>2, <2>1, <2>3, <3>1 DEF SharedTask, Cached
  <2> QED
    BY <1>2, <2>1, <2>3, <2>4, <2>5
<1>10. CASE Search(s)
  <2>1. /\ pc[s] = "search" /\ pc'[s] \in {"reconcile", "fetch"}
        /\ \A t \in Syncers \ {s} : pc'[t] = pc[t] /\ todo'[t] = todo[t]
        /\ UNCHANGED <<epoch, assign, live, rows, uidValidity, mode, before, sel, doomed>>
    BY <1>10 DEF Search
  <2>2. ASSUME NEW t \in Syncers PROVE SharedTask(t)'
    BY <1>2, <2>1 DEF SharedTask, Cached
  <2> QED
    BY <1>2, <2>1, <2>2 DEF RowsTruthful
<1>11. CASE Reconcile(s)
  BY <1>2, <1>11 DEF Reconcile, RowsTruthful, SharedTask, Cached
<1>12. CASE Prune(s)
  <2>1. /\ rows' = RowsWithout(doomed[s]) /\ pc[s] = "prune" /\ pc'[s] \in {"since", "fetch"}
        /\ \A t \in Syncers \ {s} : pc'[t] = pc[t] /\ todo'[t] = todo[t] /\ doomed'[t] = doomed[t]
        /\ UNCHANGED <<epoch, assign, live, uidValidity, mode, before, sel>>
    BY <1>3, <1>12 DEF Prune
  <2>2. Cached' \subseteq Cached
    BY <2>1 DEF Cached, RowsWithout
  <2>3. RowsTruthful'
    BY <1>2, <2>1 DEF RowsTruthful, RowsWithout
  <2>4. ASSUME NEW t \in Syncers PROVE SharedTask(t)'
    BY <1>2, <2>1, <2>2 DEF SharedTask
  <2> QED
    BY <1>2, <2>1, <2>3, <2>4
<1>13. CASE SearchSince(s)
  BY <1>2, <1>13 DEF SearchSince, RowsTruthful, SharedTask, Cached
<1>14. CASE Fetch(s)
  <2>1. /\ pc[s] = "fetch" /\ sel[s] = epoch
        /\ pc' = [pc EXCEPT ![s] = "store"]
        /\ todo' = [todo EXCEPT ![s] = todo[s] \cap live]
        /\ UNCHANGED <<epoch, assign, live, rows, uidValidity, mode, before, sel, doomed>>
    BY <1>14 DEF Fetch, SessionAlive
  <2>2. \A u \in live : assign[epoch][u] # NoMsg
    OBVIOUS
  <2>3. ASSUME NEW t \in Syncers PROVE SharedTask(t)'
    BY <1>2, <2>1, <2>2 DEF SharedTask, Cached
  <2> QED
    BY <1>2, <2>1, <2>3 DEF RowsTruthful
<1>15. ASSUME NEW u \in Uids, Store(s, u) PROVE SharedInv'
  <2>1. /\ pc[s] = "store" /\ u \in todo[s]
        /\ rows' = [rows EXCEPT ![u] = assign[sel[s]][u]]
        /\ todo' = [todo EXCEPT ![s] = @ \ {u}]
        /\ UNCHANGED <<epoch, assign, live, uidValidity, pc, mode, before, sel, doomed>>
    BY <1>3, <1>15 DEF Store
  <2>2. uidValidity = sel[s] /\ sel[s] # 0
    BY <1>2, <2>1 DEF SharedTask
  <2>3. RowsTruthful'
    BY <1>2, <2>1, <2>2 DEF RowsTruthful
  <2>4. ASSUME NEW t \in Syncers PROVE SharedTask(t)'
    <3>1. sel[t] = 0 \/ uidValidity = sel[t]
      BY <1>2, <2>2
    <3>2. pc[t] = "persist" => mode[t] = "older" \/ uidValidity = sel[t]
      BY <1>2, <3>1 DEF SharedTask
    <3>3. pc[t] = "purge" => uidValidity = sel[t]
      BY <1>2, <3>1 DEF SharedTask
    <3>4. pc[t] = "store" => \A w \in todo'[t] : assign[sel[t]][w] # NoMsg
      BY <1>2, <2>1 DEF SharedTask
    <3> QED
      BY <1>2, <2>1, <3>2, <3>3, <3>4 DEF SharedTask
  <2> QED
    BY <1>2, <2>1, <2>3, <2>4 DEF SharedInv
<1>16. CASE Finish(s)
  BY <1>2, <1>16 DEF Finish, Leave, RowsTruthful, SharedTask, Cached
<1> QED
  BY <1>5, <1>6, <1>7, <1>8, <1>9, <1>10, <1>11, <1>12, <1>13, <1>14, <1>15, <1>16
     DEF Progress, SharedInv

\* SharedInv is inductive, for any syncers.
LEMMA SharedInductive ==
    ASSUME TypeOK, WritesLand, SharedInv, [Next]_vars
    PROVE  SharedInv'
<1>1. CASE ServerStep /\ UNCHANGED <<db, task, faults>>
  BY <1>1, ServerKeepsShared
<1>2. ASSUME NEW s \in Syncers, Progress(s) PROVE SharedInv'
  BY <1>2, ProgressKeepsShared
<1>3. ASSUME NEW s \in Syncers, Abort(s) \/ Disconnected(s) PROVE SharedInv'
  <2>1. UNCHANGED <<server, db>> /\ Leave(s)
    BY <1>3 DEF Abort, Disconnected
  <2> QED
    BY <2>1 DEF server, db, TypeOK, MailboxTypeOK, Leave, Goto, SharedInv,
                RowsTruthful, SharedTask, Cached
<1>4. CASE Crash
  BY <1>4 DEF Crash, server, db, TypeOK, MailboxTypeOK, SharedInv, RowsTruthful,
              SharedTask, Cached
<1>5. CASE Expire
  BY <1>5 DEF Expire, server, task, SharedInv, RowsTruthful, SharedTask, Cached
<1>6. CASE UNCHANGED vars
  BY <1>6 DEF vars, server, db, task, SharedInv, RowsTruthful, SharedTask, Cached
<1> QED
  BY <1>1, <1>2, <1>3, <1>4, <1>5, <1>6 DEF Next

LEMMA InitShared == Init => SharedInv
  BY DEF Init, MailboxInit, SharedInv, RowsTruthful, SharedTask, Cached

\* Any number of syncs of any kind, through any crashes, aborts and
\* renumberings, keep every row truthful until two of them overlap under
\* different UIDVALIDITY values or the pager records a new one first.
THEOREM SharedTruthful == WritesLand => (Spec => []RowsTruthfulTogether)
<1> SUFFICES ASSUME WritesLand PROVE Spec => []RowsTruthfulTogether
  OBVIOUS
<1>1. TypeOK /\ Selected /\ SharedInv /\ [Next]_vars => SharedInv'
  BY SharedInductive
<1>2. SharedInv => RowsTruthfulTogether
  BY DEF SharedInv, RowsTruthfulTogether
<1> QED
  BY <1>1, <1>2, InitShared, TypeCorrect, PTL DEF Spec

-----------------------------------------------------------------------------
(***************************************************************************)
(* A lone syncer implements FolderMirror.                                  *)
(***************************************************************************)

\* Each step of FolderSync is a step of the mirror or leaves it unchanged.
LEMMA SoloStepRefines ==
    ASSUME TypeOK, Selected, Solo, SoloInv, [Next]_vars
    PROVE  [Mirror!MirrorNext]_(Mirror!mirrorVars)
<1> USE DEF Mirror!mirrorVars, Mirror!server, Mirror!MirrorNext, Mirror!Uids, Mirror!Epochs
<1>1. CASE ServerStep /\ UNCHANGED <<db, task, faults>>
  BY <1>1 DEF db, ServerStep, Arrive, ExpungeAtServer, Renumber, IsNumbering,
              Mirror!ServerStep, Mirror!Arrive, Mirror!ExpungeAtServer,
              Mirror!Renumber, Mirror!IsNumbering
<1>2. ASSUME NEW s \in Syncers, Purge(s) \/ Prune(s)
      PROVE  Mirror!MirrorNext \/ UNCHANGED Mirror!mirrorVars
  <2>1. /\ rows' = RowsWithout(doomed[s])
        /\ UNCHANGED <<epoch, assign, live, uidValidity>>
    BY <1>2 DEF Purge, Prune, Solo, WritesLand, server
  <2>2. \A u \in doomed[s] : rows[u] # NoMsg => ~(uidValidity = epoch /\ u \in live)
    <3>1. SoloTask(s) /\ uidValidity \in Nat /\ sel[s] \in Nat /\ epoch \in Nat
      BY DEF SoloInv, TypeOK, MailboxTypeOK
    <3>2. CASE Purge(s)
      BY <3>1, <3>2 DEF Purge, SoloTask
    <3>3. CASE Prune(s)
      BY <3>1, <3>3 DEF Prune, SoloTask, SessionAlive
    <3> QED
      BY <1>2, <3>2, <3>3
  <2>3. doomed[s] \in SUBSET Uids
    BY DEF TypeOK
  <2>4. Mirror!Forget(doomed[s])
    BY <2>1, <2>2 DEF Mirror!Forget, RowsWithout
  <2> QED
    BY <2>3, <2>4
<1>3. ASSUME NEW s \in Syncers, Persist(s)
      PROVE  Mirror!MirrorNext \/ UNCHANGED Mirror!mirrorVars
  <2>1. uidValidity' = sel[s] /\ UNCHANGED <<epoch, assign, live, rows>>
    BY <1>3 DEF Persist, Solo, WritesLand, server
  <2>2. /\ sel[s] <= epoch
        /\ uidValidity <= sel[s]
        /\ uidValidity = sel[s] \/ Cached = {}
    BY <1>3 DEF Persist, SoloInv, SoloTask
  <2>3. CASE uidValidity = sel[s]
    BY <2>1, <2>3
  <2>4. CASE uidValidity # sel[s]
    <3>1. \A u \in Uids : rows[u] = NoMsg
      BY <2>2, <2>4 DEF Cached
    <3>2. uidValidity \in Nat /\ sel[s] \in Nat /\ epoch \in Nat
      BY DEF TypeOK, MailboxTypeOK
    <3>3. uidValidity < epoch /\ sel[s] \in (uidValidity + 1)..epoch
      BY <2>2, <2>4, <3>2
    <3>4. Mirror!Adopt
      BY <2>1, <3>1, <3>3 DEF Mirror!Adopt
    <3> QED
      BY <3>4
  <2> QED
    BY <2>3, <2>4
<1>4. ASSUME NEW s \in Syncers, NEW u \in Uids, Store(s, u)
      PROVE  Mirror!MirrorNext \/ UNCHANGED Mirror!mirrorVars
  <2>1. /\ pc[s] = "store" /\ u \in todo[s]
        /\ rows' = [rows EXCEPT ![u] = assign[sel[s]][u]]
        /\ UNCHANGED <<epoch, assign, live, uidValidity>>
    BY <1>4 DEF Store, Solo, WritesLand, server
  <2>2. uidValidity = sel[s] /\ sel[s] # 0 /\ assign[sel[s]][u] # NoMsg
    BY <2>1 DEF SoloInv, SoloTask
  <2>3. uidValidity \in Epochs
    BY <2>2 DEF TypeOK
  <2>4. Mirror!Learn(u)
    BY <2>1, <2>2, <2>3 DEF Mirror!Learn
  <2> QED
    BY <2>4
<1>5. ASSUME UNCHANGED <<server, rows, uidValidity>> PROVE UNCHANGED Mirror!mirrorVars
  BY <1>5 DEF server
<1> QED
  BY <1>1, <1>2, <1>3, <1>4, <1>5
     DEF Next, Progress, Start, Select, CheckValidity, Search, Reconcile,
         SearchSince, Fetch, Finish, Abort, Disconnected, Crash, Expire, db, vars

\* A sync that has the folder to itself implements the abstract cache: it
\* learns only what the server said, forgets only what is gone, and takes up
\* a new UIDVALIDITY only when empty.
THEOREM SoloImplementsMirror == Solo => (Spec => ImplementsMirror)
<1> SUFFICES ASSUME Solo PROVE Spec => Mirror!MirrorSpec
  BY DEF ImplementsMirror
<1>1. Init => Mirror!MirrorInit
  BY DEF Init, MailboxInit, Mirror!MirrorInit, Mirror!MailboxInit, Mirror!Uids, Mirror!Epochs
<1>2. TypeOK /\ Selected /\ SoloInv /\ [Next]_vars =>
        [Mirror!MirrorNext]_(Mirror!mirrorVars)
  BY SoloStepRefines
<1> QED
  BY <1>1, <1>2, SoloAlways, TypeCorrect, PTL DEF Spec, Mirror!MirrorSpec

-----------------------------------------------------------------------------
(***************************************************************************)
(* The operations of MessageOps next to the syncers.                       *)
(***************************************************************************)


USE MailboxAssumption, FolderSyncAssumption, MessageOpsAssumption
USE DEF MailboxAssumption, FolderSyncAssumption, MessageOpsAssumption, Uids, Epochs

\* Message m was given a UID at some time.
Known(m) == \E e \in Epochs, u \in Uids : assign[e][u] = m

\* Message m need not be in the folder any more.
MayGo(m) == m \in removed \cup wanted \/ copies[m] > 0

\* UIDs are given under the current UIDVALIDITY, never under a later one.
Past == \A e \in Epochs, u \in Uids : assign[e][u] # NoMsg => e <= epoch

\* Rows, and so operations, show messages that were delivered.
RowsKnown == \A u \in Uids : rows[u] # NoMsg => Known(rows[u])
OpsKnown ==
    \A o \in Ops : opc[o] # "idle" =>
        /\ shown[o] \in Msgs /\ Known(shown[o])
        /\ kind[o] = "delete" => shown[o] \in wanted

\* Sessions select what the server has at that time.
OpsSelected ==
    \A o \in Ops :
        /\ osel[o] <= epoch
        /\ opc[o] \notin {"idle", "select"} => osel[o] # 0
        /\ opc[o] \in {"move", "copy"} => kind[o] = "move"

\* A move that marks its message has copied it, or the message was gone, or
\* the UID names another message by now.
Copied ==
    \A o \in Ops :
        /\ opc[o] \in {"mark", "expunge"} /\ kind[o] = "move"
        /\ osel[o] = epoch /\ assign[epoch][ouid[o]] = shown[o]
        => copies[shown[o]] > 0 \/ ouid[o] \notin live

\* What is marked may go: some plain EXPUNGE may take it.
MarkedMayGo == \A u \in marked : MayGo(assign[epoch][u])

Accounted == \A m \in Msgs : Known(m) => m \in Present \/ MayGo(m)

\* The inductive invariant behind NoMailLost.
IInv ==
    /\ OpsTypeOK /\ Selected /\ Past /\ RowsKnown /\ OpsKnown /\ OpsSelected
    /\ Copied /\ MarkedMayGo /\ Accounted

-----------------------------------------------------------------------------
(* Type correctness.                                                       *)

LEMMA OpLiterals ==
    /\ {"idle", "select", "check", "move", "copy", "mark", "expunge", "purge"} \subseteq OpPCs
    /\ Kinds \subseteq {"move", "delete"}
    /\ \A o : Destroy(o) \in OpPCs
  BY DEF OpPCs, Destroy

\* Fewer UIDs on the server.
LEMMA DropKeepsType ==
    ASSUME OpsTypeOK, NEW S, DropAtServer(S)
    PROVE  MailboxTypeOK' /\ marked' \subseteq live'
  BY DEF OpsTypeOK, TypeOK, MailboxTypeOK, DropAtServer

LEMMA ReturnKeepsType ==
    ASSUME OpsTypeOK, NEW o \in Ops, Return(o)
    PROVE  /\ opc' \in [Ops -> OpPCs]
           /\ kind' \in [Ops -> {"move", "delete"}]
           /\ ouid' \in [Ops -> Uids]
           /\ osel' \in [Ops -> 0..MaxEpoch]
           /\ shown' \in [Ops -> Msgs \cup {NoMsg}]
           /\ unheard' \subseteq Ops
  BY OpLiterals DEF OpsTypeOK, Return, OpGoto

\* One step of an operation keeps every variable's type.
LEMMA OpKeepsType ==
    ASSUME OpsTypeOK, NEW o \in Ops, LoadContext(o) \/ OpRuns(o) \/ OpFails(o)
    PROVE  OpsTypeOK' /\ UNCHANGED task
<1> USE OpLiterals DEF OpsTypeOK, OpGoto
<1>1. CASE LoadContext(o)
  <2>1. PICK u \in Cached, k \in Kinds :
           /\ ouid' = [ouid EXCEPT ![o] = u]
           /\ shown' = [shown EXCEPT ![o] = rows[u]]
           /\ kind' = [kind EXCEPT ![o] = k]
           /\ wanted' = IF k = "delete" THEN wanted \cup {rows[u]} ELSE wanted
    BY <1>1 DEF LoadContext
  <2>2. rows[u] \in Msgs /\ u \in Uids
    BY DEF Cached, TypeOK
  <2>3. ouid' \in [Ops -> Uids] /\ shown' \in [Ops -> Msgs \cup {NoMsg}] /\ wanted' \subseteq Msgs
    BY <2>1, <2>2
  <2>4. kind' \in [Ops -> {"move", "delete"}]
    BY <2>1
  <2>5. opc' \in [Ops -> OpPCs] /\ UNCHANGED <<vars, caps, marked, copies, removed, osel, unheard>>
    BY <1>1 DEF LoadContext
  <2> QED
    BY <2>3, <2>4, <2>5 DEF vars, server, db, task, TypeOK, MailboxTypeOK
<1>2. CASE SelectSource(o)
  <2>1. osel' \in [Ops -> 0..MaxEpoch] /\ opc' \in [Ops -> OpPCs]
    BY <1>2 DEF SelectSource, TypeOK, MailboxTypeOK
  <2>2. UNCHANGED <<vars, world, kind, ouid, shown, unheard>>
    BY <1>2 DEF SelectSource
  <2> QED
    BY <2>1, <2>2 DEF vars, world, server, db, task, TypeOK, MailboxTypeOK
<1>3. CASE ConfirmUidGone(o)
  <2>1. faults' \in 0..MaxFaults
    BY <1>3 DEF ConfirmUidGone, CommandFails, TypeOK
  <2>3. opc' \in [Ops -> OpPCs]
    BY <1>3 DEF ConfirmUidGone
  <2>2. UNCHANGED <<server, db, task, world, kind, ouid, osel, shown, unheard>>
    BY <1>3 DEF ConfirmUidGone
  <2> QED
    BY <2>1, <2>2, <2>3 DEF world, server, db, task, TypeOK, MailboxTypeOK
<1>4. CASE UidMove(o)
  <2>1. copies' \in [Msgs -> Nat] /\ opc' \in [Ops -> OpPCs]
    BY <1>4 DEF UidMove, CountCopy
  <2>2. MailboxTypeOK' /\ marked' \subseteq live'
    BY <1>4, DropKeepsType DEF UidMove, server, TypeOK, MailboxTypeOK
  <2>3. UNCHANGED <<db, task, faults, caps, removed, wanted, kind, ouid, osel, shown, unheard>>
    BY <1>4 DEF UidMove
  <2> QED
    BY <2>1, <2>2, <2>3 DEF db, task, TypeOK
<1>5. CASE MoveRefused(o)
  <2>1. faults' \in 0..MaxFaults
    BY <1>5 DEF MoveRefused, CommandFails, TypeOK
  <2>2. UNCHANGED <<server, db, task, world, kind, ouid, osel, shown, unheard>> /\ opc' \in [Ops -> OpPCs]
    BY <1>5 DEF MoveRefused
  <2> QED
    BY <2>1, <2>2 DEF world, server, db, task, TypeOK, MailboxTypeOK
<1>6. CASE UidCopy(o)
  <2>1. copies' \in [Msgs -> Nat] /\ opc' \in [Ops -> OpPCs]
    BY <1>6 DEF UidCopy, CountCopy
  <2> QED
    BY <1>6, <2>1 DEF UidCopy, vars, server, db, task, TypeOK, MailboxTypeOK
<1>7. CASE UidStoreDeleted(o)
  <2>1. wanted' \subseteq Msgs
    <3>1. \A u \in live : assign[epoch][u] \in Msgs
      BY DEF TypeOK, MailboxTypeOK
    <3>2. Takes(o, live) \/ UNCHANGED wanted
      BY <1>7 DEF UidStoreDeleted
    <3> QED
      BY <3>1, <3>2 DEF Takes
  <2>2. UNCHANGED <<server, db, task, caps, copies, removed, kind, ouid, osel, shown>>
    BY <1>7 DEF UidStoreDeleted
  <2>3. marked' \subseteq live
    BY <1>7 DEF UidStoreDeleted
  <2>4. opc' \in [Ops -> OpPCs] /\ unheard' \subseteq Ops
    BY <1>7 DEF UidStoreDeleted
  <2>5. faults' \in 0..MaxFaults
    BY <1>7 DEF UidStoreDeleted, CommandFails, TypeOK
  <2> QED
    BY <2>1, <2>2, <2>3, <2>4, <2>5 DEF server, db, task, TypeOK, MailboxTypeOK
<1>8. CASE ExpungeUidOrAll(o)
  <2>0. \/ \E S : Expunge(o, S)
        \/ UNCHANGED <<server, marked, wanted>>
    BY <1>8 DEF ExpungeUidOrAll
  <2>1. wanted' \subseteq Msgs
    <3>1. \A u \in marked : assign[epoch][u] \in Msgs
      BY DEF TypeOK, MailboxTypeOK
    <3>2. UNCHANGED wanted \/ Takes(o, marked)
      BY <2>0 DEF Expunge
    <3> QED
      BY <3>1, <3>2 DEF Takes
  <2>2. MailboxTypeOK' /\ marked' \subseteq live'
    BY <2>0, DropKeepsType DEF Expunge, server, TypeOK, MailboxTypeOK
  <2>3. opc' \in [Ops -> OpPCs] /\ faults' \in 0..MaxFaults
    BY <1>8 DEF ExpungeUidOrAll, CommandFails, TypeOK
  <2>4. UNCHANGED <<db, task, caps, copies, removed, kind, ouid, osel, shown, unheard>>
    BY <1>8 DEF ExpungeUidOrAll
  <2> QED
    BY <2>1, <2>2, <2>3, <2>4 DEF db, task, TypeOK
<1>9. CASE PurgeEnvelopeLocal(o)
  <2>1. rows' \in [Uids -> Msgs \cup {NoMsg}]
    BY <1>9 DEF PurgeEnvelopeLocal, RowsWithout, TypeOK
  <2>2. Return(o) /\ UNCHANGED <<server, uidValidity, fresh, mixed, task, faults, world>>
    BY <1>9 DEF PurgeEnvelopeLocal
  <2> QED
    BY <2>1, <2>2, ReturnKeepsType DEF world, server, task, TypeOK, MailboxTypeOK
<1>10. CASE OpFails(o)
  <2>1. faults' \in 0..MaxFaults
    BY <1>10 DEF OpFails, CommandFails, TypeOK
  <2>2. Return(o) /\ UNCHANGED <<server, db, task, world>>
    BY <1>10 DEF OpFails
  <2> QED
    BY <2>1, <2>2, ReturnKeepsType DEF world, server, db, task, TypeOK, MailboxTypeOK
<1>11. UNCHANGED task
  BY DEF LoadContext, OpRuns, OpFails, SelectSource, ConfirmUidGone, UidMove, MoveRefused, UidCopy,
         UidStoreDeleted, ExpungeUidOrAll, PurgeEnvelopeLocal, vars
<1> QED
  BY <1>1, <1>2, <1>3, <1>4, <1>5, <1>6, <1>7, <1>8, <1>9, <1>10, <1>11 DEF OpRuns

LEMMA OpsNextType ==
    ASSUME OpsTypeOK, Selected, [OpsNext]_opsVars
    PROVE  OpsTypeOK' /\ Selected'
<1> USE DEF OpsTypeOK
<1>1. CASE ServerEvent
  <2>1. MailboxTypeOK'
    BY <1>1, ServerKeepsType DEF ServerEvent, TypeOK
  <2>2. marked' \subseteq live' /\ removed' \subseteq Msgs
    BY <1>1 DEF ServerEvent, Present, TypeOK, MailboxTypeOK
  <2> QED
    BY <1>1, <2>1, <2>2 DEF ServerEvent, db, task, opTask, TypeOK, Selected
<1>2. ASSUME NEW u \in Uids, MarkedElsewhere(u) PROVE OpsTypeOK' /\ Selected'
  <2>1. marked' \subseteq live' /\ removed' \subseteq Msgs
    BY <1>2 DEF MarkedElsewhere, vars, server, TypeOK, MailboxTypeOK
  <2> QED
    BY <1>2, <2>1 DEF MarkedElsewhere, vars, server, db, task, opTask, TypeOK, MailboxTypeOK, Selected
<1>3. ASSUME NEW s \in Syncers, Progress(s), UNCHANGED <<opTask, world>> PROVE OpsTypeOK' /\ Selected'
  <2>1. TypeOK' /\ Selected'
    BY <1>3, ProgressKeepsType, ProgressKeepsSelected
  <2>2. live' = live
    BY <1>3 DEF Progress, Start, Select, CheckValidity, Purge, Persist, Search, Reconcile, Prune,
                SearchSince, Fetch, Store, Finish, server
  <2> QED
    BY <1>3, <2>1, <2>2 DEF opTask, world
<1>4. ASSUME NEW s \in Syncers, Abort(s) \/ Disconnected(s), UNCHANGED <<opTask, world>>
      PROVE  OpsTypeOK' /\ Selected'
  <2>1. UNCHANGED <<server, db>> /\ faults' \in 0..MaxFaults /\ Leave(s)
    BY <1>4 DEF Abort, Disconnected, TypeOK
  <2>2. TypeOK'
    BY <2>1, LeaveKeepsType DEF server, db, MailboxTypeOK, TypeOK
  <2>3. Selected'
    BY <2>1 DEF Leave, Goto, TypeOK, Selected
  <2> QED
    BY <1>4, <2>1, <2>2, <2>3 DEF opTask, world, server
<1>5. ASSUME NEW o \in Ops, LoadContext(o) \/ OpRuns(o) \/ OpFails(o) PROVE OpsTypeOK' /\ Selected'
  BY <1>5, OpKeepsType DEF task, Selected
<1>6. CASE AppCrash
  <2>1. TypeOK' /\ Selected'
    BY <1>6, Literals DEF AppCrash, server, db, MailboxTypeOK, TypeOK, Selected
  <2>2. /\ opc' \in [Ops -> OpPCs] /\ kind' \in [Ops -> {"move", "delete"}] /\ ouid' \in [Ops -> Uids]
        /\ osel' \in [Ops -> 0..MaxEpoch] /\ shown' \in [Ops -> Msgs \cup {NoMsg}]
        /\ unheard' \subseteq Ops
    BY <1>6, OpLiterals DEF AppCrash
  <2> QED
    BY <1>6, <2>1, <2>2 DEF AppCrash, world, server
<1>7. CASE UNCHANGED opsVars
  BY <1>7 DEF opsVars, vars, opTask, world, server, db, task, TypeOK, MailboxTypeOK, Selected
<1> QED
  BY <1>1, <1>2, <1>3, <1>4, <1>5, <1>6, <1>7 DEF OpsNext

-----------------------------------------------------------------------------
(* The server and the syncers.                                             *)

\* What a server event does to the messages that were ever delivered.
LEMMA ServerKnows ==
    ASSUME MailboxTypeOK, Past, ServerStep
    PROVE  /\ Past'
           /\ \A m \in Msgs : Known(m) => Known(m)'
           /\ \A m \in Msgs : Known(m)' => Known(m) \/ m \in Present'
           /\ epoch' = epoch => \A u \in Uids :
                 assign'[epoch][u] = assign[epoch][u] \/ ~Known(assign'[epoch][u])
<1> USE DEF MailboxTypeOK, Past, Known, Present
<1>1. ASSUME NEW m \in Msgs, Arrive(m)
      PROVE  /\ Past'
             /\ \A n \in Msgs : Known(n) => Known(n)'
             /\ \A n \in Msgs : Known(n)' => Known(n) \/ n \in Present'
             /\ \A u \in Uids : assign'[epoch][u] = assign[epoch][u] \/ ~Known(assign'[epoch][u])
  <2>1. PICK w \in Uids : /\ assign[epoch][w] = NoMsg
                          /\ assign' = [assign EXCEPT ![epoch][w] = m]
                          /\ live' = live \cup {w}
    BY <1>1 DEF Arrive
  <2>2. epoch' = epoch /\ ~Known(m)
    BY <1>1 DEF Arrive
  <2>3. \A e \in Epochs, u \in Uids : assign'[e][u] = IF e = epoch /\ u = w THEN m ELSE assign[e][u]
    BY <2>1
  <2>4. m \in Present'
    BY <2>1, <2>2, <2>3
  <2>5. Past'
    BY <2>2, <2>3
  <2>6. ASSUME NEW n \in Msgs, Known(n) PROVE Known(n)'
    <3>1. PICK e \in Epochs, u \in Uids : assign[e][u] = n
      BY <2>6
    <3>2. assign'[e][u] = n
      BY <2>1, <2>3, <3>1
    <3> QED
      BY <3>2
  <2>7. ASSUME NEW n \in Msgs, Known(n)' PROVE Known(n) \/ n = m
    <3>1. PICK e \in Epochs, u \in Uids : assign'[e][u] = n
      BY <2>7
    <3>2. n = m \/ assign[e][u] = n
      BY <2>3, <3>1
    <3> QED
      BY <3>2
  <2>8. \A u \in Uids : assign'[epoch][u] = assign[epoch][u] \/ ~Known(assign'[epoch][u])
    BY <2>2, <2>3
  <2> HIDE DEF Known, Past, Present
  <2> QED
    BY <2>4, <2>5, <2>6, <2>7, <2>8
<1>2. ASSUME NEW w \in Uids, ExpungeAtServer(w) PROVE epoch' = epoch /\ assign' = assign
  BY <1>2 DEF ExpungeAtServer
<1>3. CASE Renumber
  <2>1. PICK f \in [Uids -> Msgs \cup {NoMsg}] :
           /\ IsNumbering(f, {assign[epoch][u] : u \in live})
           /\ epoch' = epoch + 1
           /\ assign' = [assign EXCEPT ![epoch + 1] = f]
    BY <1>3 DEF Renumber
  <2>2. \A e \in Epochs, u \in Uids : assign'[e][u] = IF e = epoch + 1 THEN f[u] ELSE assign[e][u]
    BY <2>1
  <2>3. \A u \in Uids : f[u] # NoMsg => Known(f[u])
    BY <2>1, SMTT(20) DEF IsNumbering
  <2>4. Past'
    BY <2>1, <2>2
  <2>5. ASSUME NEW n \in Msgs, Known(n) PROVE Known(n)'
    <3>1. PICK e \in Epochs, u \in Uids : assign[e][u] = n
      BY <2>5
    <3>2. assign'[e][u] = n
      BY <2>2, <3>1
    <3> QED
      BY <3>2
  <2>6. ASSUME NEW n \in Msgs, Known(n)' PROVE Known(n)
    <3>1. PICK e \in Epochs, u \in Uids : assign'[e][u] = n
      BY <2>6
    <3>2. f[u] = n \/ assign[e][u] = n
      BY <2>2, <3>1
    <3>3. f[u] # NoMsg => Known(f[u])
      BY <2>3
    <3> QED
      BY <3>2, <3>3
  <2>7. epoch' # epoch
    BY <2>1
  <2> QED
    BY <2>4, <2>5, <2>6, <2>7
<1>4. ASSUME UNCHANGED <<epoch, assign>> PROVE Past' /\ \A n \in Msgs : Known(n) <=> Known(n)'
  BY <1>4
<1> QED
  BY <1>1, <1>2, <1>3, <1>4 DEF ServerStep

LEMMA ServerKeepsMail ==
    ASSUME IInv, OpsTypeOK', ServerEvent
    PROVE  Past' /\ RowsKnown' /\ OpsKnown' /\ OpsSelected' /\ Copied' /\ MarkedMayGo' /\ Accounted'
<1> USE DEF IInv, OpsTypeOK
<1>1. ServerStep /\ MailboxTypeOK
  BY DEF ServerEvent, TypeOK
<1>2. Past' /\ \A m \in Msgs : Known(m) => Known(m)'
  BY <1>1, ServerKnows
<1>3. UNCHANGED <<rows, caps, copies, wanted, opc, kind, ouid, osel, shown>>
  BY DEF ServerEvent, db, opTask
<1>4. removed' = removed \cup (Present \ Present')
  BY DEF ServerEvent
<1>5. \A m \in Msgs : MayGo(m) => MayGo(m)'
  BY <1>3, <1>4 DEF MayGo
<1>6. RowsKnown'
  BY <1>2, <1>3 DEF RowsKnown, TypeOK
<1>7. OpsKnown'
  BY <1>2, <1>3 DEF OpsKnown
<1>8. epoch \in Epochs /\ epoch' \in {epoch, epoch + 1}
  BY <1>1, ServerRemembers DEF MailboxTypeOK
<1>9. OpsSelected'
  BY <1>3, <1>8 DEF OpsSelected, MailboxTypeOK
<1>10. Copied'
  <2> SUFFICES ASSUME NEW o \in Ops, opc[o] \in {"mark", "expunge"}, kind[o] = "move",
                      osel[o] = epoch', assign'[epoch'][ouid[o]] = shown[o], ouid[o] \in live'
               PROVE  copies[shown[o]] > 0
    BY <1>3 DEF Copied
  <2>1. epoch' = epoch /\ ouid[o] \in Uids
    BY <1>8 DEF OpsSelected
  <2>2. Known(shown[o]) /\ shown[o] \in Msgs
    BY DEF OpsKnown
  <2>3. assign[epoch][ouid[o]] = shown[o]
    BY <1>1, <2>1, <2>2, ServerKnows
  <2>4. ouid[o] \in live
    BY <1>1, <2>1, <2>2, <2>3, ServerRemembers
  <2> QED
    BY <2>1, <2>3, <2>4 DEF Copied
<1>11. MarkedMayGo'
  <2> SUFFICES ASSUME NEW u \in marked'
               PROVE  assign'[epoch'][u] \in removed' \cup wanted' \/ copies'[assign'[epoch'][u]] > 0
    BY <1>3 DEF MarkedMayGo, MayGo
  <2>1. PICK w \in marked : assign'[epoch'][u] = assign[epoch][w]
    BY DEF ServerEvent
  <2>2. assign[epoch][w] \in Msgs /\ MayGo(assign[epoch][w])
    BY DEF MarkedMayGo, TypeOK, MailboxTypeOK
  <2> QED
    BY <1>3, <1>4, <2>1, <2>2 DEF MayGo
<1>12. Accounted'
  <2> SUFFICES ASSUME NEW m \in Msgs, Known(m)', m \notin Present' PROVE MayGo(m)'
    BY DEF Accounted
  <2>1. Known(m)
    BY <1>1, ServerKnows
  <2>2. CASE m \in Present
    BY <1>4, <2>2 DEF MayGo
  <2> QED
    BY <1>5, <2>1, <2>2 DEF Accounted
<1> QED
  BY <1>2, <1>6, <1>7, <1>9, <1>10, <1>11, <1>12

\* Syncers leave the server alone; a row they store shows what a UID names.
LEMMA SyncKeepsMail ==
    ASSUME IInv, UNCHANGED <<opTask, world>>,
           NEW s \in Syncers, Progress(s) \/ Abort(s) \/ Disconnected(s)
    PROVE  Past' /\ RowsKnown' /\ OpsKnown' /\ OpsSelected' /\ Copied' /\ MarkedMayGo' /\ Accounted'
<1> USE DEF IInv
<1>1. UNCHANGED server
  BY DEF Progress, Start, Select, CheckValidity, Purge, Persist, Search, Reconcile, Prune,
         SearchSince, Fetch, Store, Finish, Abort, Disconnected
<1>2. RowsKnown'
  <2>1. CASE UNCHANGED rows
    BY <1>1, <2>1 DEF RowsKnown, Known, server
  <2>2. CASE rows' = RowsWithout(doomed[s])
    BY <1>1, <2>2 DEF RowsKnown, Known, server, RowsWithout
  <2>3. ASSUME NEW u \in Uids, pc[s] = "store", rows' = [rows EXCEPT ![u] = assign[sel[s]][u]] PROVE RowsKnown'
    <3>1. sel[s] \in Epochs
      <4>1. sel[s] # 0
        BY <2>3 DEF Selected
      <4>2. sel[s] \in 0..MaxEpoch
        BY DEF OpsTypeOK, TypeOK
      <4> QED
        BY <4>1, <4>2
    <3> QED
      BY <1>1, <2>3, <3>1, ZenonT(40) DEF RowsKnown, Known, server, OpsTypeOK, TypeOK
  <2>4. \/ UNCHANGED rows \/ rows' = RowsWithout(doomed[s])
        \/ \E u \in Uids : pc[s] = "store" /\ rows' = [rows EXCEPT ![u] = assign[sel[s]][u]]
    BY DEF Progress, Start, Select, CheckValidity, Purge, Persist, Search, Reconcile, Prune,
           SearchSince, Fetch, Store, Finish, Abort, Disconnected, db
  <2> QED
    BY <2>1, <2>2, <2>3, <2>4
<1> QED
  BY <1>1, <1>2 DEF server, opTask, world, Past, OpsKnown, OpsSelected, Copied, MarkedMayGo, Accounted,
                    Known, MayGo, Present

-----------------------------------------------------------------------------
(* The operations.                                                         *)

\* The UIDs that were handed out stay, and what may go goes on to.
OpFrame(o) ==
    /\ UNCHANGED <<epoch, assign, caps, removed>>
    /\ live' \subseteq live
    /\ wanted \subseteq wanted'
    /\ \A m \in Msgs : copies'[m] >= copies[m]
    /\ \A u \in Uids : rows'[u] \in {rows[u], NoMsg}
    /\ \A p \in Ops \ {o} : /\ opc'[p] = opc[p] /\ kind'[p] = kind[p] /\ ouid'[p] = ouid[p]
                           /\ osel'[p] = osel[p] /\ shown'[p] = shown[p]

LEMMA OpFrames ==
    ASSUME OpsTypeOK, NEW o \in Ops, LoadContext(o) \/ OpRuns(o) \/ OpFails(o)
    PROVE  OpFrame(o)
<1> USE DEF OpsTypeOK, TypeOK, OpFrame, OpGoto, server, db, world, vars
<1>1. CASE LoadContext(o)
  BY <1>1 DEF LoadContext
<1>2. CASE SelectSource(o)
  BY <1>2 DEF SelectSource
<1>3. CASE ConfirmUidGone(o) \/ MoveRefused(o)
  <2>1. UNCHANGED <<server, db, world, kind, ouid, osel, shown>>
    BY <1>3 DEF ConfirmUidGone, MoveRefused
  <2>2. \A p \in Ops \ {o} : opc'[p] = opc[p]
    BY <1>3 DEF ConfirmUidGone, MoveRefused
  <2> QED
    BY <2>1, <2>2
<1>4. CASE UidMove(o) \/ UidCopy(o)
  <2>1. /\ UNCHANGED <<epoch, assign, caps, removed, wanted, rows, kind, ouid, osel, shown>>
        /\ live' \subseteq live
    BY <1>4 DEF UidMove, UidCopy, DropAtServer
  <2>2. \A m \in Msgs : copies'[m] >= copies[m]
    BY <1>4 DEF UidMove, UidCopy, CountCopy
  <2>3. \A p \in Ops \ {o} : opc'[p] = opc[p]
    BY <1>4 DEF UidMove, UidCopy
  <2> QED
    BY <2>1, <2>2, <2>3
<1>5. CASE UidStoreDeleted(o) \/ ExpungeUidOrAll(o)
  <2>1. /\ UNCHANGED <<epoch, assign, caps, removed, copies, rows, kind, ouid, osel, shown>>
        /\ live' \subseteq live
    BY <1>5 DEF UidStoreDeleted, ExpungeUidOrAll, Expunge, DropAtServer
  <2>2. wanted \subseteq wanted'
    BY <1>5 DEF UidStoreDeleted, ExpungeUidOrAll, Expunge, Takes
  <2>3. \A p \in Ops \ {o} : opc'[p] = opc[p]
    BY <1>5 DEF UidStoreDeleted, ExpungeUidOrAll
  <2> QED
    BY <2>1, <2>2, <2>3
<1>6. CASE PurgeEnvelopeLocal(o) \/ OpFails(o)
  <2>1. UNCHANGED <<server, world>> /\ Return(o)
    BY <1>6 DEF PurgeEnvelopeLocal, OpFails
  <2>2. \A u \in Uids : rows'[u] \in {rows[u], NoMsg}
    BY <1>6 DEF PurgeEnvelopeLocal, OpFails, RowsWithout
  <2> QED
    BY <2>1, <2>2 DEF Return
<1> QED
  BY <1>1, <1>2, <1>3, <1>4, <1>5, <1>6 DEF OpRuns

LEMMA MayGoStays ==
    ASSUME OpsTypeOK, OpsTypeOK', NEW o \in Ops, OpFrame(o), NEW m \in Msgs, MayGo(m)
    PROVE  MayGo(m)'
<1>1. copies[m] \in Nat /\ copies'[m] \in Nat /\ copies'[m] >= copies[m]
  BY DEF OpsTypeOK, OpFrame
<1> QED
  BY <1>1 DEF OpFrame, MayGo

\* What an operation that has come to mark or expunge acts on may go: it was
\* copied, or asked for, or (Misled) is taken for what was asked for.
LEMMA TakenMayGo ==
    ASSUME IInv, OpsTypeOK', NEW o \in Ops, OpFrame(o), opc[o] \in {"mark", "expunge"}, osel[o] = epoch,
           ouid[o] \in live, NEW S, ouid[o] \in S, Takes(o, S),
           NEW m \in Msgs, m = assign[epoch][ouid[o]]
    PROVE  MayGo(m)'
<1> USE DEF IInv
<1>1. CASE Misled(o)
  BY <1>1 DEF Takes, MayGo
<1>2. CASE ~Misled(o)
  <2>1. m = shown[o]
    BY <1>2 DEF Misled
  <2>2. kind[o] \in {"move", "delete"}
    BY DEF OpsTypeOK
  <2>3. kind[o] = "delete" => m \in wanted
    BY <2>1 DEF OpsKnown
  <2>4. kind[o] = "move" => copies[m] > 0
    BY <2>1 DEF Copied
  <2>5. MayGo(m)
    BY <2>2, <2>3, <2>4 DEF MayGo
  <2> QED
    BY <2>5, MayGoStays
<1> QED
  BY <1>1, <1>2

\* An operation keeps the message it was called for in mind until it returns.
LEMMA OpKeepsKnown ==
    ASSUME IInv, OpsTypeOK', NEW o \in Ops, OpFrame(o), LoadContext(o) \/ OpRuns(o) \/ OpFails(o)
    PROVE  Past' /\ RowsKnown' /\ OpsKnown' /\ OpsSelected'
<1> USE DEF IInv
<1>1. Past' /\ RowsKnown' /\ \A m \in Msgs : Known(m) => Known(m)'
  <2>1. Past' /\ \A m \in Msgs : Known(m) => Known(m)'
    BY DEF OpFrame, Past, Known
  <2>2. ASSUME NEW u \in Uids, rows'[u] # NoMsg PROVE Known(rows[u]) /\ rows'[u] = rows[u]
    BY <2>2 DEF OpFrame, RowsKnown
  <2>3. RowsKnown'
    BY <2>2 DEF OpFrame, RowsKnown, Known
  <2> QED
    BY <2>1, <2>3
<1>2. ASSUME NEW p \in Ops, p # o
      PROVE  /\ opc'[p] # "idle" =>
                 /\ shown'[p] \in Msgs /\ Known(shown[p])
                 /\ kind'[p] = "delete" => shown'[p] \in wanted'
             /\ osel'[p] <= epoch'
             /\ opc'[p] \notin {"idle", "select"} => osel'[p] # 0
             /\ opc'[p] \in {"move", "copy"} => kind'[p] = "move"
             /\ opc'[p] = opc[p] /\ shown'[p] = shown[p]
  BY <1>2 DEF OpFrame, OpsKnown, OpsSelected
<1>3. CASE LoadContext(o)
  <2>1. PICK u \in Cached, k \in Kinds :
           /\ shown' = [shown EXCEPT ![o] = rows[u]]
           /\ kind' = [kind EXCEPT ![o] = k]
           /\ wanted' = IF k = "delete" THEN wanted \cup {rows[u]} ELSE wanted
    BY <1>3 DEF LoadContext
  <2>2. rows[u] \in Msgs /\ Known(rows[u])
    BY DEF Cached, OpsTypeOK, TypeOK, RowsKnown
  <2>3. shown'[o] = rows[u] /\ kind'[o] = k /\ opc'[o] = "select" /\ osel' = osel
    BY <1>3, <2>1 DEF LoadContext, OpGoto, OpsTypeOK
  <2>4. OpsKnown'
    BY <1>2, <2>1, <2>2, <2>3 DEF OpsKnown, Known, OpFrame
  <2>5. OpsSelected'
    BY <1>2, <2>3 DEF OpsSelected, OpFrame
  <2> QED
    BY <1>1, <2>4, <2>5
<1>4. CASE Return(o)
  <2>1. opc'[o] = "idle" /\ osel'[o] = 0
    BY <1>4 DEF Return, OpGoto, OpsTypeOK
  <2>2. OpsKnown'
    BY <1>2, <2>1 DEF OpsKnown, Known, OpFrame
  <2>3. OpsSelected'
    BY <1>2, <2>1 DEF OpsSelected, OpFrame, OpsTypeOK, TypeOK, MailboxTypeOK
  <2> QED
    BY <1>1, <2>2, <2>3
<1>5. CASE /\ opc[o] # "idle" /\ shown' = shown /\ kind' = kind
           /\ osel'[o] <= epoch
           /\ opc'[o] # "idle" => osel'[o] # 0
           /\ opc'[o] \in {"move", "copy"} => kind[o] = "move"
  <2>1. OpsKnown'
    BY <1>2, <1>5 DEF OpsKnown, Known, OpFrame
  <2>2. OpsSelected'
    BY <1>2, <1>5 DEF OpsSelected, OpFrame
  <2> QED
    BY <1>1, <2>1, <2>2
<1>6. CASE SelectSource(o)
  <2>1. /\ opc[o] # "idle" /\ shown' = shown /\ kind' = kind
        /\ osel'[o] = epoch /\ opc'[o] = "check"
    BY <1>6 DEF SelectSource, OpGoto, OpsTypeOK
  <2> QED
    BY <1>5, <2>1 DEF OpsTypeOK, TypeOK, MailboxTypeOK
<1>7. CASE \/ ConfirmUidGone(o) \/ UidMove(o) \/ MoveRefused(o) \/ UidCopy(o)
           \/ UidStoreDeleted(o) \/ ExpungeUidOrAll(o)
  <2>1. /\ opc[o] \notin {"idle", "select"} /\ shown' = shown /\ kind' = kind /\ osel' = osel
    BY <1>7 DEF ConfirmUidGone, UidMove, MoveRefused, UidCopy, UidStoreDeleted, ExpungeUidOrAll
  <2>2. opc'[o] \in {"move", "copy"} => kind[o] = "move"
    BY <1>7 DEF ConfirmUidGone, UidMove, MoveRefused, UidCopy, UidStoreDeleted, ExpungeUidOrAll,
                OpGoto, Destroy, OpsSelected, OpsTypeOK
  <2>3. osel[o] # 0 /\ osel[o] <= epoch
    BY <2>1 DEF OpsSelected
  <2> QED
    BY <1>5, <2>1, <2>2, <2>3
<1>8. PurgeEnvelopeLocal(o) \/ OpFails(o) => Return(o)
  BY DEF PurgeEnvelopeLocal, OpFails
<1> QED
  BY <1>3, <1>4, <1>6, <1>7, <1>8 DEF OpRuns

\* The copy comes before the mark.
LEMMA OpKeepsCopied ==
    ASSUME IInv, OpsTypeOK', NEW o \in Ops, OpFrame(o), LoadContext(o) \/ OpRuns(o) \/ OpFails(o)
    PROVE  Copied'
<1> USE DEF IInv
<1> SUFFICES ASSUME NEW p \in Ops, opc'[p] \in {"mark", "expunge"}, kind'[p] = "move",
                    osel'[p] = epoch, assign[epoch][ouid'[p]] = shown'[p], ouid'[p] \in live
             PROVE  copies'[shown'[p]] > 0
  BY DEF OpFrame, Copied
<1>1. shown'[p] \in Msgs
  BY DEF OpsTypeOK, TypeOK, MailboxTypeOK
<1>2. copies[shown'[p]] > 0 => copies'[shown'[p]] > 0
  BY <1>1 DEF OpFrame, OpsTypeOK
<1>3. CASE /\ opc[p] \in {"mark", "expunge"} /\ kind'[p] = kind[p] /\ ouid'[p] = ouid[p]
           /\ osel'[p] = osel[p] /\ shown'[p] = shown[p]
  BY <1>2, <1>3 DEF Copied
<1>4. CASE p # o
  BY <1>3, <1>4 DEF OpFrame
<1>5. CASE p = o
  <2>1. CASE UidStoreDeleted(o)
    BY <1>3, <1>5, <2>1 DEF UidStoreDeleted
  <2>2. CASE UidCopy(o)
    <3>1. copies' = [copies EXCEPT ![assign[epoch][ouid[o]]] = @ + 1] /\ UNCHANGED <<ouid, shown>>
      BY <1>5, <2>2 DEF UidCopy, CountCopy
    <3>2. assign[epoch][ouid[o]] = shown[o] /\ shown[o] \in Msgs
      BY <1>1, <1>5, <3>1
    <3> QED
      BY <1>5, <3>1, <3>2 DEF OpsTypeOK
  <2>3. CASE ConfirmUidGone(o)
    BY <1>5, <2>3 DEF ConfirmUidGone, OpGoto, Destroy, OpsTypeOK
  <2>4. CASE LoadContext(o) \/ SelectSource(o) \/ UidMove(o) \/ MoveRefused(o) \/ ExpungeUidOrAll(o)
    BY <1>5, <2>4 DEF LoadContext, SelectSource, UidMove, MoveRefused, ExpungeUidOrAll, OpGoto, OpsTypeOK
  <2>5. CASE PurgeEnvelopeLocal(o) \/ OpFails(o)
    BY <1>5, <2>5 DEF PurgeEnvelopeLocal, OpFails, Return, OpGoto, OpsTypeOK
  <2> QED
    BY <2>1, <2>2, <2>3, <2>4, <2>5 DEF OpRuns
<1> QED
  BY <1>4, <1>5

\* What an operation takes out of the folder, and what it marks, may go.
LEMMA OpTakes ==
    ASSUME IInv, OpsTypeOK', NEW o \in Ops, OpFrame(o), LoadContext(o) \/ OpRuns(o) \/ OpFails(o)
    PROVE  /\ \A u \in live \ live' : MayGo(assign[epoch][u])'
           /\ \A u \in marked' : MayGo(assign[epoch][u])'
<1> DEFINE Gone(m) == m \in removed' \cup wanted' \/ copies'[m] > 0
<1> USE DEF IInv
<1>1. \A u \in live : assign[epoch][u] \in Msgs
  BY DEF OpsTypeOK, TypeOK, MailboxTypeOK
<1>2. \A m \in Msgs : MayGo(m) => Gone(m)
  BY MayGoStays DEF MayGo
<1>3. marked \subseteq live /\ assign' = assign /\ epoch' = epoch
  BY DEF OpsTypeOK, OpFrame
<1> SUFFICES /\ \A u \in live \ live' : Gone(assign[epoch][u])
             /\ \A u \in marked' : Gone(assign[epoch][u])
  BY <1>3 DEF MayGo
<1>4. \A u \in marked : Gone(assign[epoch][u])
  BY <1>1, <1>2, <1>3 DEF MarkedMayGo
<1> HIDE DEF Gone
<1>5. CASE UNCHANGED <<live, marked>>
  BY <1>4, <1>5
<1>6. CASE UidMove(o) /\ ouid[o] \in live
  <2>1. live' = live \ {ouid[o]} /\ marked' = marked \ {ouid[o]}
    BY <1>6 DEF UidMove, DropAtServer
  <2>2. copies' = [copies EXCEPT ![assign[epoch][ouid[o]]] = @ + 1]
    BY <1>6 DEF UidMove, CountCopy
  <2>3. Gone(assign[epoch][ouid[o]])
    BY <1>1, <1>6, <2>2 DEF Gone, OpsTypeOK
  <2> QED
    BY <1>4, <2>1, <2>3
<1>7. CASE UidStoreDeleted(o) /\ Takes(o, live) /\ osel[o] = epoch
  <2>1. marked' \subseteq marked \cup ({ouid[o]} \cap live) /\ live' = live
    BY <1>7 DEF UidStoreDeleted, server
  <2>2. ouid[o] \in live => Gone(assign[epoch][ouid[o]])
    BY <1>1, <1>7, TakenMayGo DEF UidStoreDeleted, MayGo, Gone
  <2> QED
    BY <1>4, <2>1, <2>2
<1>8. CASE live \ live' \subseteq marked /\ marked' \subseteq marked
  BY <1>4, <1>8
<1>9. \/ UNCHANGED <<live, marked>>
      \/ UidMove(o) /\ ouid[o] \in live
      \/ UidStoreDeleted(o) /\ Takes(o, live) /\ osel[o] = epoch
      \/ live \ live' \subseteq marked /\ marked' \subseteq marked
  <2>1. ExpungeUidOrAll(o) => live \ live' \subseteq marked /\ marked' \subseteq marked
    BY DEF ExpungeUidOrAll, Expunge, DropAtServer, server
  <2>2. \/ LoadContext(o) \/ SelectSource(o) \/ ConfirmUidGone(o) \/ MoveRefused(o) \/ UidCopy(o)
        \/ PurgeEnvelopeLocal(o) \/ OpFails(o)
        => UNCHANGED <<live, marked>>
    BY DEF LoadContext, SelectSource, ConfirmUidGone, MoveRefused, UidCopy, PurgeEnvelopeLocal, OpFails,
           vars, server, world
  <2>3. UidMove(o) /\ ouid[o] \notin live => UNCHANGED <<live, marked>>
    BY DEF UidMove, server
  <2>4. UidStoreDeleted(o) => \/ Takes(o, live) /\ osel[o] = epoch
                            \/ UNCHANGED <<live, marked>>
    BY DEF UidStoreDeleted, server
  <2> QED
    BY <2>1, <2>2, <2>3, <2>4 DEF OpRuns
<1> QED
  BY <1>5, <1>6, <1>7, <1>8, <1>9

LEMMA OpKeepsMail ==
    ASSUME IInv, OpsTypeOK', NEW o \in Ops, LoadContext(o) \/ OpRuns(o) \/ OpFails(o)
    PROVE  Past' /\ RowsKnown' /\ OpsKnown' /\ OpsSelected' /\ Copied' /\ MarkedMayGo' /\ Accounted'
<1>1. OpFrame(o)
  BY OpFrames DEF IInv
<1>2. Past' /\ RowsKnown' /\ OpsKnown' /\ OpsSelected' /\ Copied'
  BY <1>1, OpKeepsKnown, OpKeepsCopied
<1>3. assign' = assign /\ epoch' = epoch /\ caps' = caps /\ live' \subseteq live
  BY <1>1 DEF OpFrame
<1>4. /\ \A u \in live \ live' : MayGo(assign[epoch][u])'
      /\ \A u \in marked' : MayGo(assign[epoch][u])'
  BY <1>1, OpTakes
<1>5. MarkedMayGo'
  BY <1>3, <1>4 DEF MarkedMayGo, MayGo
<1>6. Accounted'
  <2> SUFFICES ASSUME NEW m \in Msgs, Known(m)', m \notin Present' PROVE MayGo(m)'
    BY DEF Accounted
  <2>1. Known(m)
    BY <1>3 DEF Known
  <2>2. CASE MayGo(m)
    BY <1>1, <2>2, MayGoStays DEF IInv
  <2>3. ASSUME NEW u \in live, m = assign[epoch][u] PROVE MayGo(m)'
    <3>1. u \notin live'
      BY <1>3, <2>3 DEF Present
    <3> QED
      BY <1>3, <1>4, <2>3, <3>1 DEF MayGo
  <2> QED
    BY <2>1, <2>2, <2>3 DEF IInv, Accounted, Present
<1> QED
  BY <1>2, <1>5, <1>6

-----------------------------------------------------------------------------
(* The theorem.                                                            *)

LEMMA OpsInitIInv == OpsInit => IInv
<1> SUFFICES ASSUME OpsInit PROVE IInv
  OBVIOUS
<1> USE DEF OpsInit
<1>1. MailboxTypeOK /\ Past /\ Accounted
  BY DEF Init, MailboxInit, MailboxTypeOK, Past, Accounted, Known
<1>2. TypeOK /\ Selected
  <2>1. rows \in [Uids -> Msgs \cup {NoMsg}]
    BY DEF Init
  <2>5. uidValidity \in 0..MaxEpoch /\ fresh \in BOOLEAN /\ mixed \in BOOLEAN
    <3>1. uidValidity = 0 /\ fresh = FALSE /\ mixed = FALSE
      BY DEF Init
    <3>2. 0 \in 0..MaxEpoch
      OBVIOUS
    <3> QED
      BY <3>1, <3>2
  <2>2. pc \in [Syncers -> PCs] /\ mode \in [Syncers -> AllModes]
    BY Literals DEF Init
  <2>3. /\ before \in [Syncers -> 0..MaxUid] /\ sel \in [Syncers -> 0..MaxEpoch]
        /\ doomed \in [Syncers -> SUBSET Uids] /\ todo \in [Syncers -> SUBSET Uids]
        /\ faults \in 0..MaxFaults
    BY DEF Init
  <2>4. Selected
    BY DEF Init, Selected
  <2> QED
    BY <1>1, <2>1, <2>2, <2>3, <2>4, <2>5, Zenon DEF TypeOK
<1>3. OpsTypeOK
  BY <1>2, OpLiterals DEF OpsTypeOK
<1>4. RowsKnown /\ OpsKnown /\ OpsSelected /\ Copied /\ MarkedMayGo
  BY DEF Init, MailboxInit, RowsKnown, OpsKnown, OpsSelected, Copied, MarkedMayGo
<1> QED
  BY <1>1, <1>2, <1>3, <1>4 DEF IInv

LEMMA OpsNextIInv == IInv /\ [OpsNext]_opsVars => IInv'
<1> SUFFICES ASSUME IInv, [OpsNext]_opsVars PROVE IInv'
  OBVIOUS
<1>1. OpsTypeOK' /\ Selected'
  BY OpsNextType DEF IInv
<1> DEFINE Rest == /\ Past' /\ RowsKnown' /\ OpsKnown' /\ OpsSelected'
                   /\ Copied' /\ MarkedMayGo' /\ Accounted'
<1>2. CASE ServerEvent
  BY <1>1, <1>2, ServerKeepsMail DEF IInv
<1>3. ASSUME NEW u \in Uids, MarkedElsewhere(u) PROVE Rest
  <2>1. UNCHANGED <<epoch, assign, live, rows, caps, copies, wanted, opc, kind, ouid, osel, shown>>
    BY <1>3 DEF MarkedElsewhere, vars, server, db, opTask
  <2>2. removed \subseteq removed'
    BY <1>3 DEF MarkedElsewhere
  <2>3. MarkedMayGo'
    BY <1>3, <2>1, <2>2 DEF IInv, MarkedElsewhere, MarkedMayGo, MayGo
  <2>4. Accounted'
    BY <2>1, <2>2 DEF IInv, Accounted, Known, MayGo, Present
  <2>5. Past' /\ RowsKnown' /\ OpsKnown' /\ OpsSelected' /\ Copied'
    BY <2>1 DEF IInv, Past, RowsKnown, Known, OpsKnown, OpsSelected, Copied
  <2> QED
    BY <2>3, <2>4, <2>5
<1>4. ASSUME NEW s \in Syncers, Progress(s) \/ Abort(s) \/ Disconnected(s), UNCHANGED <<opTask, world>> PROVE Rest
  BY <1>4, SyncKeepsMail
<1>5. ASSUME NEW o \in Ops, LoadContext(o) \/ OpRuns(o) \/ OpFails(o) PROVE Rest
  BY <1>1, <1>5, OpKeepsMail
<1>6. ASSUME AppCrash PROVE Rest
  <2>1. UNCHANGED <<epoch, assign, live, rows, caps, marked, copies, removed, wanted>>
    BY <1>6 DEF AppCrash, server, db, world
  <2>2. Past' /\ RowsKnown' /\ MarkedMayGo' /\ Accounted'
    BY <2>1 DEF IInv, Past, RowsKnown, Known, MarkedMayGo, Accounted, MayGo, Present
  <2>3. \A o \in Ops : opc'[o] = "idle" /\ osel'[o] = 0
    BY <1>6 DEF AppCrash
  <2>4. OpsKnown' /\ Copied'
    BY <2>3 DEF OpsKnown, Copied
  <2>5. OpsSelected'
    BY <2>1, <2>3 DEF OpsSelected, IInv, OpsTypeOK, TypeOK, MailboxTypeOK
  <2> QED
    BY <2>2, <2>4, <2>5
<1>7. ASSUME UNCHANGED opsVars PROVE Rest
  <2>1. UNCHANGED <<epoch, assign, live, rows, caps, marked, copies, removed, wanted, opc, kind, ouid, osel, shown>>
    BY <1>7 DEF opsVars, vars, opTask, server, db, world
  <2>2. Past' /\ RowsKnown' /\ MarkedMayGo' /\ Accounted'
    BY <2>1 DEF IInv, Past, RowsKnown, Known, MarkedMayGo, Accounted, MayGo, Present
  <2>3. OpsKnown' /\ OpsSelected' /\ Copied'
    BY <2>1 DEF IInv, OpsKnown, OpsSelected, Copied, Known
  <2> QED
    BY <2>2, <2>3
<1> QED
  BY <1>1, <1>2, <1>3, <1>4, <1>5, <1>6, <1>7 DEF OpsNext, IInv

\* The invariant of the operations next to the syncers.
THEOREM MessageOpsIInvAlways == OpsSpec => []IInv
<1>1. OpsInit => IInv
  BY OpsInitIInv
<1>2. IInv /\ [OpsNext]_opsVars => IInv'
  BY OpsNextIInv
<1> QED
  BY <1>1, <1>2, PTL DEF OpsSpec

\* No message disappears, on any kind of server, whatever operations, syncs,
\* failures, restarts and renumberings interleave.
THEOREM MailIsNeverLost == OpsSpec => []NoMailLost
<1>1. IInv => NoMailLost
  <2> SUFFICES ASSUME IInv, NEW e \in Epochs, NEW u \in Uids, assign[e][u] # NoMsg
               PROVE  assign[e][u] \in Present \cup removed \cup wanted \/ copies[assign[e][u]] > 0
    BY DEF NoMailLost
  <2>1. assign[e][u] \in Msgs
    BY DEF IInv, OpsTypeOK, TypeOK, MailboxTypeOK
  <2> QED
    BY <2>1 DEF IInv, Accounted, Known, MayGo
<1> QED
  BY <1>1, MessageOpsIInvAlways, PTL

-----------------------------------------------------------------------------
(* What an operation does to the folder, and when it drops a row.          *)

\* A step after which operation o is elsewhere is a step of o, or a restart.
LEMMA OpMoves ==
    ASSUME OpsTypeOK, [OpsNext]_opsVars, NEW o \in Ops, opc'[o] # opc[o]
    PROVE  \/ LoadContext(o) \/ OpRuns(o) \/ OpFails(o)
           \/ AppCrash
<1>1. ASSUME NEW p \in Ops, LoadContext(p) \/ OpRuns(p) \/ OpFails(p) PROVE p = o
  BY <1>1, OpFrames DEF OpFrame
<1>2. ~ServerEvent /\ ~UNCHANGED opsVars
  BY DEF ServerEvent, opsVars, opTask
<1>3. \A u \in Uids : ~MarkedElsewhere(u)
  BY DEF MarkedElsewhere, opTask
<1>4. ~UNCHANGED <<opTask, world>>
  BY DEF opTask
<1> QED
  BY <1>1, <1>2, <1>3, <1>4 DEF OpsNext

LEMMA OpTouches ==
    ASSUME IInv, [OpsNext]_opsVars, NEW o \in Ops, opc[o] \notin {"idle", "select"}, opc'[o] # opc[o], ~Misled(o)
    PROVE  /\ Present \ Present' \subseteq {shown[o]} \cup IF UidExpunges /\ faults' = faults THEN {} ELSE Condemned
           /\ \A m \in Msgs : copies'[m] # copies[m] => m = shown[o]
<1> USE DEF IInv
<1>1. OpsTypeOK /\ marked \subseteq live
  BY DEF OpsTypeOK
<1>2. CASE UNCHANGED <<epoch, assign, live, copies>>
  BY <1>2 DEF Present
<1>3. CASE UidMove(o) /\ ouid[o] \in live
  <2>1. assign[epoch][ouid[o]] = shown[o]
    BY <1>3 DEF UidMove, Misled
  <2>2. live' = live \ {ouid[o]} /\ UNCHANGED <<epoch, assign>>
    BY <1>3 DEF UidMove, DropAtServer
  <2>3. copies' = [copies EXCEPT ![shown[o]] = @ + 1]
    BY <1>3, <2>1 DEF UidMove, CountCopy
  <2> QED
    BY <2>1, <2>2, <2>3 DEF Present, OpsTypeOK
<1>4. CASE UidCopy(o) /\ ouid[o] \in live
  <2>1. assign[epoch][ouid[o]] = shown[o] /\ UNCHANGED <<epoch, assign, live>>
    BY <1>4 DEF UidCopy, Misled, vars, server
  <2>2. copies' = [copies EXCEPT ![shown[o]] = @ + 1]
    BY <1>4, <2>1 DEF UidCopy, CountCopy
  <2> QED
    BY <2>1, <2>2 DEF Present, OpsTypeOK
<1>5. CASE ExpungeUidOrAll(o) /\ UidExpunges /\ Expunge(o, {ouid[o]})
  <2>1. assign[epoch][ouid[o]] = shown[o] /\ UNCHANGED <<epoch, assign, copies>>
    BY <1>5 DEF ExpungeUidOrAll, Expunge, Misled, DropAtServer
  <2>2. live' = live \ ({ouid[o]} \cap marked)
    BY <1>5 DEF Expunge, DropAtServer
  <2> QED
    BY <2>1, <2>2 DEF Present
<1>6. CASE ExpungeUidOrAll(o) /\ Expunge(o, Uids) /\ IF UidExpunges THEN CommandFails(o) ELSE UNCHANGED faults
  <2>1. UNCHANGED <<epoch, assign, copies>> /\ live' = live \ (Uids \cap marked)
    BY <1>6 DEF ExpungeUidOrAll, Expunge, DropAtServer
  <2>2. ~(UidExpunges /\ faults' = faults)
    BY <1>6 DEF Expunge, CommandFails, OpsTypeOK, TypeOK
  <2>3. Present \ Present' \subseteq Condemned
    BY <2>1 DEF Present, Condemned
  <2> QED
    BY <2>1, <2>2, <2>3
<1>7. CASE OpRuns(o) \/ OpFails(o) \/ AppCrash
  <2>1. \/ UNCHANGED <<epoch, assign, live, copies>>
        \/ UidMove(o) /\ ouid[o] \in live
        \/ UidCopy(o) /\ ouid[o] \in live
        \/ ExpungeUidOrAll(o)
    BY <1>7 DEF OpRuns, OpFails, AppCrash, SelectSource, ConfirmUidGone, UidMove, MoveRefused, UidCopy,
                UidStoreDeleted, PurgeEnvelopeLocal, vars, server, world
  <2>2. ExpungeUidOrAll(o) =>
           \/ UidExpunges /\ Expunge(o, {ouid[o]})
           \/ Expunge(o, Uids) /\ IF UidExpunges THEN CommandFails(o) ELSE UNCHANGED faults
           \/ UNCHANGED <<epoch, assign, live, copies>>
    BY DEF ExpungeUidOrAll, server
  <2> QED
    BY <1>2, <1>3, <1>4, <1>5, <1>6, <2>1, <2>2
<1>8. ~LoadContext(o)
  BY DEF LoadContext
<1> QED
  BY <1>7, <1>8, OpMoves DEF OpsTypeOK

\* An operation moves or destroys the message its row showed and no other.
THEOREM OpsTouchWhatIsShown == OpsSpec => OnlyShownMessageTouched
<1> DEFINE A == \A o \in Ops :
           /\ opc[o] \notin {"idle", "select"} /\ opc'[o] # opc[o]
           /\ ~Misled(o)
         =>
           /\ Present \ Present' \subseteq {shown[o]} \cup IF UidExpunges /\ faults' = faults THEN {} ELSE Condemned
           /\ \A m \in Msgs : copies'[m] # copies[m] => m = shown[o]
<1>1. IInv /\ [OpsNext]_opsVars => [A]_opsVars
  BY OpTouches
<1>2. ([][A]_opsVars) => OnlyShownMessageTouched
  BY DEF OnlyShownMessageTouched
<1> QED
  BY <1>1, <1>2, MessageOpsIInvAlways, PTL DEF OpsSpec

\* An operation past its mark has marked the message, or it is gone, unless the
\* mark failed unheard.
Spent ==
    \A o \in Ops :
        /\ opc[o] \in {"expunge", "purge"} /\ o \notin unheard
        /\ osel[o] = epoch /\ assign[epoch][ouid[o]] = shown[o]
        => ouid[o] \notin live \ marked

LEMMA MarksStay ==
    ASSUME IInv, [OpsNext]_opsVars, epoch' = epoch, NEW u \in Uids, assign[epoch][u] # NoMsg,
           u \notin live \ marked
    PROVE  u \notin live' \ marked'
<1> USE DEF IInv
<1>1. CASE ServerEvent
  <2>1. ServerStep /\ MailboxTypeOK
    BY <1>1 DEF ServerEvent, OpsTypeOK, TypeOK
  <2>2. u \in live' => u \in live
    BY <2>1, ServerRemembers
  <2>3. assign'[epoch][u] = assign[epoch][u]
    BY <2>1, ServerRemembers DEF MailboxTypeOK
  <2> QED
    BY <1>1, <2>2, <2>3 DEF ServerEvent
<1>2. ASSUME NEW w \in Uids, MarkedElsewhere(w) PROVE u \notin live' \ marked'
  BY <1>2 DEF MarkedElsewhere, vars, server
<1>3. ASSUME NEW s \in Syncers, Progress(s) \/ Abort(s) \/ Disconnected(s), UNCHANGED <<opTask, world>>
      PROVE  UNCHANGED <<live, marked>>
  BY <1>3 DEF Progress, Start, Select, CheckValidity, Purge, Persist, Search, Reconcile, Prune,
              SearchSince, Fetch, Store, Finish, Abort, Disconnected, server, world
<1>4. ASSUME NEW o \in Ops, LoadContext(o) \/ OpRuns(o) \/ OpFails(o)
      PROVE  u \notin live' \ marked'
  <2>1. ExpungeUidOrAll(o) => UNCHANGED <<live, marked>> \/ \E S : DropAtServer(S)
    BY DEF ExpungeUidOrAll, Expunge, server
  <2>2. UidStoreDeleted(o) => live' = live /\ marked \subseteq marked'
    BY DEF UidStoreDeleted, server
  <2>3. UidMove(o) => UNCHANGED <<live, marked>> \/ \E S : DropAtServer(S)
    BY DEF UidMove, server
  <2>4. \/ LoadContext(o) \/ SelectSource(o) \/ ConfirmUidGone(o) \/ MoveRefused(o) \/ UidCopy(o)
        \/ PurgeEnvelopeLocal(o) \/ OpFails(o)
        => UNCHANGED <<live, marked>>
    BY DEF LoadContext, SelectSource, ConfirmUidGone, MoveRefused, UidCopy, PurgeEnvelopeLocal, OpFails,
           vars, server, world
  <2> QED
    BY <1>4, <2>1, <2>2, <2>3, <2>4 DEF OpRuns, DropAtServer
<1>5. CASE AppCrash \/ UNCHANGED opsVars
  BY <1>5 DEF AppCrash, opsVars, vars, server, world
<1> QED
  BY <1>1, <1>2, <1>3, <1>4, <1>5 DEF OpsNext

LEMMA EpochGrows ==
    ASSUME IInv, IInv', [OpsNext]_opsVars
    PROVE  epoch \in Nat /\ epoch' \in Nat /\ epoch' >= epoch
<1>1. epoch \in Nat /\ epoch' \in Nat
  BY DEF IInv, OpsTypeOK, TypeOK, MailboxTypeOK
<1>2. CASE ServerEvent
  BY <1>1, <1>2, ServerRemembers DEF ServerEvent, IInv, OpsTypeOK, TypeOK
<1>3. CASE ~ServerEvent
  <2>1. ASSUME NEW o \in Ops, LoadContext(o) \/ OpRuns(o) \/ OpFails(o) PROVE epoch' = epoch
    BY <2>1, OpFrames DEF OpFrame, IInv
  <2>2. ASSUME NEW s \in Syncers, Progress(s) \/ Abort(s) \/ Disconnected(s) PROVE epoch' = epoch
    BY <2>2 DEF Progress, Start, Select, CheckValidity, Purge, Persist, Search, Reconcile, Prune,
                SearchSince, Fetch, Store, Finish, Abort, Disconnected, server
  <2>3. ASSUME NEW u \in Uids, MarkedElsewhere(u) PROVE epoch' = epoch
    BY <2>3 DEF MarkedElsewhere, vars, server
  <2>4. AppCrash \/ UNCHANGED opsVars => epoch' = epoch
    BY DEF AppCrash, opsVars, vars, server
  <2> QED
    BY <1>1, <1>3, <2>1, <2>2, <2>3, <2>4 DEF OpsNext
<1> QED
  BY <1>2, <1>3

\* An operation that stays where it is keeps what it holds.
LEMMA OpRests ==
    ASSUME OpsTypeOK, [OpsNext]_opsVars, NEW o \in Ops, opc'[o] = opc[o], opc[o] # "idle"
    PROVE  osel'[o] = osel[o] /\ ouid'[o] = ouid[o] /\ shown'[o] = shown[o] /\ (o \in unheard => o \in unheard')
<1>1. ASSUME NEW p \in Ops, LoadContext(p) \/ OpRuns(p) \/ OpFails(p)
      PROVE  osel'[o] = osel[o] /\ ouid'[o] = ouid[o] /\ shown'[o] = shown[o] /\ (o \in unheard => o \in unheard')
  <2>1. CASE p # o
    <3>1. unheard \ {p} \subseteq unheard'
      BY <1>1 DEF LoadContext, OpRuns, OpFails, SelectSource, ConfirmUidGone, UidMove, MoveRefused, UidCopy,
                  UidStoreDeleted, ExpungeUidOrAll, PurgeEnvelopeLocal, Return
    <3> QED
      BY <1>1, <2>1, <3>1, OpFrames DEF OpFrame
  <2>2. opc'[p] # opc[p]
    BY <1>1 DEF LoadContext, OpRuns, OpFails, SelectSource, ConfirmUidGone, UidMove, MoveRefused, UidCopy,
                UidStoreDeleted, ExpungeUidOrAll, PurgeEnvelopeLocal, Return, OpGoto, Destroy, OpsTypeOK
  <2> QED
    BY <2>1, <2>2
<1>2. AppCrash => opc'[o] = "idle"
  BY DEF AppCrash
<1>3. ServerEvent \/ UNCHANGED opsVars \/ UNCHANGED <<opTask, world>> \/ (\E u \in Uids : MarkedElsewhere(u))
      => UNCHANGED opTask
  BY DEF ServerEvent, opsVars, MarkedElsewhere
<1> QED
  BY <1>1, <1>2, <1>3 DEF OpsNext, opTask

LEMMA SpentStays ==
    ASSUME IInv, IInv', Spent, [OpsNext]_opsVars
    PROVE  Spent'
<1> USE DEF IInv
<1> SUFFICES ASSUME NEW o \in Ops, opc'[o] \in {"expunge", "purge"}, o \notin unheard',
                    osel'[o] = epoch', assign'[epoch'][ouid'[o]] = shown'[o]
             PROVE  ouid'[o] \notin live' \ marked'
  BY DEF Spent
<1>1. shown'[o] \in Msgs /\ ouid'[o] \in Uids
  BY DEF OpsKnown, OpsTypeOK
<1>2. CASE opc'[o] = opc[o]
  <2>1. osel'[o] = osel[o] /\ ouid'[o] = ouid[o] /\ shown'[o] = shown[o] /\ o \notin unheard
    BY <1>2, OpRests
  <2>2. epoch' = epoch
    BY <2>1, EpochGrows DEF OpsSelected, OpsTypeOK
  <2>3. assign[epoch][ouid[o]] = shown[o]
    <3>1. CASE ServerEvent
      <4>1. ServerStep /\ MailboxTypeOK
        BY <3>1 DEF ServerEvent, OpsTypeOK, TypeOK
      <4>2. Known(shown[o])
        BY <1>2 DEF OpsKnown
      <4> QED
        BY <1>1, <2>1, <2>2, <4>1, <4>2, ServerKnows
    <3>2. assign' = assign \/ ServerEvent
      <4>1. ASSUME NEW p \in Ops, LoadContext(p) \/ OpRuns(p) \/ OpFails(p) PROVE assign' = assign
        BY <4>1, OpFrames DEF OpFrame
      <4>2. ASSUME NEW s \in Syncers, Progress(s) \/ Abort(s) \/ Disconnected(s) PROVE assign' = assign
        BY <4>2 DEF Progress, Start, Select, CheckValidity, Purge, Persist, Search, Reconcile, Prune,
                    SearchSince, Fetch, Store, Finish, Abort, Disconnected, server
      <4>3. ASSUME NEW u \in Uids, MarkedElsewhere(u) PROVE assign' = assign
        BY <4>3 DEF MarkedElsewhere, vars, server
      <4>4. AppCrash \/ UNCHANGED opsVars => assign' = assign
        BY DEF AppCrash, opsVars, vars, server
      <4> QED
        BY <4>1, <4>2, <4>3, <4>4 DEF OpsNext
    <3> QED
      BY <2>1, <2>2, <3>1, <3>2
  <2> QED
    BY <1>1, <1>2, <2>1, <2>2, <2>3, MarksStay DEF Spent
<1>3. CASE opc'[o] # opc[o]
  <2>1. ~AppCrash
    BY DEF AppCrash
  <2>2. ~LoadContext(o) /\ ~SelectSource(o) /\ ~MoveRefused(o) /\ ~UidCopy(o) /\ ~PurgeEnvelopeLocal(o) /\ ~OpFails(o)
    BY DEF LoadContext, SelectSource, MoveRefused, UidCopy, PurgeEnvelopeLocal, OpFails, Return, OpGoto, OpsTypeOK
  <2>3. CASE ConfirmUidGone(o)
    <3>1. opc'[o] = "purge" /\ ouid[o] \notin live
      BY <2>3 DEF ConfirmUidGone, OpGoto, Destroy, OpsTypeOK
    <3> QED
      BY <2>3, <3>1 DEF ConfirmUidGone, server
  <2>4. CASE UidMove(o)
    BY <2>4 DEF UidMove, DropAtServer, server
  <2>5. CASE UidStoreDeleted(o)
    BY <2>5 DEF UidStoreDeleted, server
  <2>6. CASE ExpungeUidOrAll(o)
    <3>1. /\ opc[o] = "expunge" /\ UNCHANGED <<epoch, assign, ouid, osel, shown, unheard>>
      BY <2>6 DEF ExpungeUidOrAll, Expunge, DropAtServer, server
    <3> QED
      BY <1>1, <3>1, MarksStay DEF Spent
  <2> QED
    BY <1>3, <2>1, <2>2, <2>3, <2>4, <2>5, <2>6, OpMoves DEF OpRuns
<1> QED
  BY <1>2, <1>3

\* A row that is dropped by an operation leaves no live, undeleted message.
THEOREM PurgesAreJustified == OpsSpec => PurgeJustified
<1> DEFINE A == \A o \in Ops :
           /\ opc[o] = "purge" /\ opc'[o] = "idle" /\ rows' # rows
           /\ osel[o] = epoch /\ ~Misled(o) /\ o \notin unheard
         =>
           ouid[o] \notin live \ marked
<1>1. OpsInit => Spent
  BY DEF OpsInit, Spent
<1>2. IInv /\ IInv' /\ Spent /\ [OpsNext]_opsVars => Spent'
  BY SpentStays
<1>3. Spent => A
  BY DEF Spent, Misled
<1>4. ([][A]_opsVars) => PurgeJustified
  BY DEF PurgeJustified
<1> QED
  BY <1>1, <1>2, <1>3, <1>4, MessageOpsIInvAlways, PTL DEF OpsSpec

-----------------------------------------------------------------------------
(* The rows, with operations next to the syncers.                          *)

\* A step of an operation, as the syncers and the rows see it.
LEMMA OpLeavesSync ==
    ASSUME OpsTypeOK, NEW o \in Ops, LoadContext(o) \/ OpRuns(o) \/ OpFails(o)
    PROVE  /\ UNCHANGED <<epoch, assign, uidValidity, mixed, pc, mode, before, sel, doomed, todo>>
           /\ live' \subseteq live
           /\ \A u \in Uids : rows'[u] \in {rows[u], NoMsg}
<1>1. UNCHANGED <<uidValidity, mixed, pc, mode, before, sel, doomed, todo>>
  BY DEF LoadContext, OpRuns, OpFails, SelectSource, ConfirmUidGone, UidMove, MoveRefused, UidCopy,
         UidStoreDeleted, ExpungeUidOrAll, PurgeEnvelopeLocal, vars, db, task
<1> QED
  BY <1>1, OpFrames DEF OpFrame

\* The steps that are not those of FolderSync.
LEMMA OpsNextIs ==
    ASSUME OpsTypeOK, [OpsNext]_opsVars
    PROVE  \/ ServerStep /\ UNCHANGED <<db, task, faults>>
           \/ \E s \in Syncers : Progress(s) \/ Abort(s) \/ Disconnected(s)
           \/ /\ UNCHANGED <<epoch, assign, uidValidity, mixed, pc, mode, before, sel, doomed, todo>>
              /\ live' \subseteq live
              /\ \A u \in Uids : rows'[u] \in {rows[u], NoMsg}
           \/ AppCrash
<1>1. ServerEvent => ServerStep /\ UNCHANGED <<db, task, faults>>
  BY DEF ServerEvent
<1>2. \A u \in Uids : MarkedElsewhere(u) => UNCHANGED vars
  BY DEF MarkedElsewhere
<1>3. UNCHANGED opsVars => UNCHANGED vars
  BY DEF opsVars
<1>4. UNCHANGED vars => /\ UNCHANGED <<epoch, assign, uidValidity, mixed, pc, mode, before, sel, doomed, todo>>
                       /\ live' \subseteq live
                       /\ \A u \in Uids : rows'[u] \in {rows[u], NoMsg}
  BY DEF vars, server, db, task
<1> QED
  BY <1>1, <1>2, <1>3, <1>4, OpLeavesSync DEF OpsNext

LEMMA OpsKeepShared ==
    ASSUME IInv, WritesLand, SharedInv, [OpsNext]_opsVars
    PROVE  SharedInv'
<1> USE DEF IInv, OpsTypeOK
<1>1. CASE ServerStep /\ UNCHANGED <<db, task, faults>>
  BY <1>1, ServerKeepsShared
<1>2. CASE \E s \in Syncers : Progress(s) \/ Abort(s) \/ Disconnected(s)
  BY <1>2, SharedInductive DEF Next
<1>3. CASE /\ UNCHANGED <<epoch, assign, uidValidity, mixed, pc, mode, before, sel, doomed, todo>>
           /\ live' \subseteq live
           /\ \A u \in Uids : rows'[u] \in {rows[u], NoMsg}
  <2>1. Cached' \subseteq Cached
    BY <1>3 DEF Cached
  <2>2. \A s \in Syncers : SharedTask(s) => SharedTask(s)'
    BY <1>3, <2>1 DEF SharedTask
  <2>3. RowsTruthful => RowsTruthful'
    BY <1>3 DEF RowsTruthful
  <2> QED
    BY <1>3, <2>2, <2>3 DEF SharedInv
<1>4. CASE AppCrash
  BY <1>4 DEF AppCrash, server, db, TypeOK, MailboxTypeOK, SharedInv, RowsTruthful,
              SharedTask, Cached
<1> QED
  BY <1>1, <1>2, <1>3, <1>4, OpsNextIs

\* Operations next to the syncs, however many and however they end, take
\* nothing from it: they only drop rows and mail.
THEOREM SharedTruthfulWithOps == WritesLand => (OpsSpec => []RowsTruthfulTogether)
<1> SUFFICES ASSUME WritesLand PROVE OpsSpec => []RowsTruthfulTogether
  OBVIOUS
<1>1. OpsInit => SharedInv
  BY InitShared DEF OpsInit
<1>2. IInv /\ SharedInv /\ [OpsNext]_opsVars => SharedInv'
  BY OpsKeepShared
<1>3. SharedInv => RowsTruthfulTogether
  BY DEF SharedInv, RowsTruthfulTogether
<1> QED
  BY <1>1, <1>2, <1>3, MessageOpsIInvAlways, PTL DEF OpsSpec

=============================================================================
