---------------------------- MODULE ComposeProofs ----------------------------
(***************************************************************************)
(* Proofs about Compose, for any mails, any number of calls under way and  *)
(* any number of clicks and faults.                                        *)
(***************************************************************************)
EXTENDS Compose, TLAPS

USE ComposeAssumption DEF ComposeAssumption

\* A snapshot without a text is the closed window, the empty slot.
Named(s) == s.text = None => s = Closed

\* The draft that s replaces is still stored and holds the text of s, unless
\* an overlap met its mail.
OpenedIn(s, D, C) == s.replaces # 0 => D[s.replaces] # None /\ D[s.replaces] \in C \cup {s.text}

\* What draft d holds was delivered, or is in a later draft that is not in the
\* trash, unless an overlap met it.
KeptIn(d, D, X, C, T) ==
    \/ D[d] \in C
    \/ X[D[d]] > 0
    \/ \E e \in Ids : e > d /\ e \notin T /\ D[e] = D[d]

InOrder == \A d, e \in Ids : e < d /\ drafts[d] # None => drafts[e] # None
Names ==
    /\ Named(window) /\ Named(pending)
    /\ \A t \in Tasks : tpc[t] # "idle" => job[t].text \in Mails
Origins ==
    /\ OpenedIn(window, drafts, crossed) /\ OpenedIn(pending, drafts, crossed)
    /\ \A t \in Tasks : OpenedIn(job[t], drafts, crossed)
    /\ opening # 0 => drafts[opening] # None
Trashed == \A d \in trash : drafts[d] # None /\ KeptIn(d, drafts, delivered, crossed, trash)
Finishing ==
    \A t \in Tasks :
        /\ tpc[t] \in {"append", "marks"} => delivered[job[t].text] > 0
        /\ tpc[t] = "clean" /\ job[t].replaces # 0 => KeptIn(job[t].replaces, drafts, delivered, crossed, trash)
Attempts ==
    \A t \in Tasks :
        /\ hits[t] <= 1
        /\ tpc[t] \in {"first", "save"} => hits[t] = 0
        /\ tpc[t] = "second" => hits[t] = 0 \/ account.port = "configured"

\* The inductive invariant behind the three theorems.
IInv == TypeOK /\ InOrder /\ Names /\ Origins /\ Trashed /\ Finishing /\ Attempts /\ WrittenIsKept

-----------------------------------------------------------------------------
(* Type correctness.                                                       *)

LEMMA SnapshotFacts ==
    /\ Closed \in Snapshots
    /\ Closed.text = None /\ Closed.replaces = 0
    /\ \A m \in Mails : /\ Blank(m) \in Snapshots /\ Blank(m).text = m /\ Blank(m).replaces = 0
                        /\ [Closed EXCEPT !.text = m] \in Snapshots
                        /\ [Closed EXCEPT !.text = m].text = m
                        /\ [Closed EXCEPT !.text = m].replaces = 0
    /\ \A m \in Mails, d \in Ids : [text |-> m, parent |-> None, replaces |-> d] \in Snapshots
  BY DEF Closed, Snapshots, Blank, Ids

\* What setComposeDraft does to the window, and to the mail it should show.
LEMMA ShowChanges ==
    ASSUME TypeOK, NEW s \in Snapshots, Show(s)
    PROVE  /\ window' \in Snapshots
           /\ crossed' \subseteq Mails
           /\ crossed \subseteq crossed'
           /\ window.text # None => window'.text = window.text
           /\ window.text = None => window' = s
           /\ s.text # None => window'.text = s.text \/ s.text \in crossed'
           /\ window'.replaces = s.replaces
  BY DEF TypeOK, Show, Cross, Snapshots

LEMMA StoreDraftChanges ==
    ASSUME TypeOK, InOrder, NEW m \in Mails, StoreDraft(m)
    PROVE  /\ drafts' \in [Ids -> Mails \cup {None}]
           /\ InOrder'
           /\ \E d \in Ids : /\ drafts[d] = None
                             /\ drafts'[d] = m
                             /\ \A e \in Ids : e # d => drafts'[e] = drafts[e]
                             /\ \A e \in Ids : drafts[e] # None => e < d
<1>1. PICK d \in Ids : /\ drafts[d] = None
                       /\ \A e \in Ids : e < d => drafts[e] # None
                       /\ drafts' = [drafts EXCEPT ![d] = m]
  BY DEF StoreDraft
<1>2. \A e \in Ids : drafts[e] # None => e < d
  BY <1>1 DEF InOrder, Ids
<1>3. drafts' \in [Ids -> Mails \cup {None}]
  BY <1>1 DEF TypeOK
<1>4. drafts'[d] = m /\ \A e \in Ids : e # d => drafts'[e] = drafts[e]
  BY <1>1 DEF TypeOK
<1>5. InOrder'
  BY <1>1, <1>2, <1>4 DEF InOrder, Ids
<1> QED
  BY <1>1, <1>2, <1>3, <1>4, <1>5

LEMMA ComposeInitType == Init => TypeOK
  BY SnapshotFacts DEF Init, TypeOK, Ids

LEMMA TrySendKeepsType ==
    ASSUME TypeOK, NEW t \in Tasks, job[t].text \in Mails,
           NEW right, NEW again \in {"second", "rescue"}, TrySend(t, right, again)
    PROVE  /\ tpc' \in [Tasks -> {"idle", "first", "second", "append", "marks", "rescue", "save", "clean"}]
           /\ delivered' \in [Mails -> Nat] /\ filed' \in [Mails -> Nat] /\ hits' \in [Tasks -> Nat]
           /\ faults' \in 0..MaxFaults
<1> USE DEF TypeOK, Goto, Fault, Accept
<1>1. CASE UNCHANGED <<delivered, filed, hits>>
  BY <1>1 DEF TrySend
<1>2. CASE Accept(t)
  <2>1. delivered' \in [Mails -> Nat] /\ filed' \in [Mails -> Nat] /\ hits' \in [Tasks -> Nat]
    BY <1>2
  <2> QED
    BY <2>1 DEF TrySend
<1> QED
  BY <1>1, <1>2 DEF TrySend

LEMMA CallKeepsType ==
    ASSUME TypeOK, InOrder, Names, NEW t \in Tasks, Call(t)
    PROVE  TypeOK' /\ InOrder'
<1> USE DEF TypeOK, Goto, Return, Fault, user, history
<1>1. CASE TryPrimary(t)
  <2>1. TrySend(t, account.port = "configured", "second") /\ job[t].text \in Mails
    BY <1>1 DEF TryPrimary, Names
  <2> QED
    BY <1>1, <2>1, TrySendKeepsType DEF TryPrimary, InOrder
<1>2. CASE TryFallback(t)
  <2>1. TrySend(t, account.port = "other", "rescue") /\ job[t].text \in Mails
    BY <1>2 DEF TryFallback, Names
  <2> QED
    BY <1>2, <2>1, TrySendKeepsType DEF TryFallback, InOrder
<1>3. CASE AppendToSent(t)
  BY <1>3 DEF AppendToSent, InOrder
<1>4. CASE MarkParent(t)
  <2>1. job[t].parent \in Mails \cup {None}
    BY DEF Snapshots
  <2> QED
    BY <1>4, <2>1 DEF MarkParent, servers, InOrder
<1>5. CASE RemoveReplaced(t)
  <2>1. job[t].replaces \in Ids \cup {0}
    BY DEF Snapshots
  <2> QED
    BY <1>5, <2>1, SnapshotFacts DEF RemoveReplaced, servers, InOrder
<1>6. CASE SaveAsDraft(t)
  <2>1. job[t] \in Snapshots /\ job[t].text \in Mails /\ tpc[t] = "save"
    BY <1>6 DEF SaveAsDraft, Names
  <2>2. drafts' \in [Ids -> Mails \cup {None}] /\ InOrder'
    BY <1>6, <2>1, StoreDraftChanges DEF SaveAsDraft, InOrder
  <2>3. window' \in Snapshots /\ crossed' \subseteq Mails
    BY <1>6, <2>1, ShowChanges DEF SaveAsDraft
  <2> QED
    BY <1>6, <2>2, <2>3, SnapshotFacts DEF SaveAsDraft
<1>7. CASE Rescue(t)
  <2>1. job[t] \in Snapshots /\ job[t].text \in Mails /\ tpc[t] = "rescue"
    BY <1>7 DEF Rescue, Names
  <2>2. drafts' \in [Ids -> Mails \cup {None}] /\ InOrder'
    BY <1>7, <2>1, StoreDraftChanges DEF Rescue, InOrder
  <2>3. window' \in Snapshots /\ crossed' \subseteq Mails
    BY <1>7, <2>1, ShowChanges DEF Rescue
  <2> QED
    BY <1>7, <2>2, <2>3, SnapshotFacts DEF Rescue
<1> QED
  BY <1>1, <1>2, <1>3, <1>4, <1>5, <1>6, <1>7 DEF Call

LEMMA ImportKeepsType ==
    ASSUME TypeOK, NEW m \in Mails, Import(m)
    PROVE  TypeOK'
<1> USE DEF TypeOK, Fault, calls, servers
<1>1. CASE HandOver(m)
  BY <1>1 DEF HandOver
<1>2. CASE Built(m)
  <2>1. UNCHANGED <<account, pending, opening, front, calls, servers, trash, answered, discarded, hits, sends>>
    BY <1>2 DEF Import, HandOver, Built
  <2>2. import' \in [Mails -> {"none", "cold", "live", "buffered"}] /\ written' \subseteq Mails /\ faults' \in 0..MaxFaults
    BY <1>2 DEF Built
  <2>3. window' \in Snapshots /\ crossed' \subseteq Mails
    <3>1. CASE Show([Closed EXCEPT !.text = m])
      <4>1. [Closed EXCEPT !.text = m] \in Snapshots
        BY SnapshotFacts
      <4> QED
        BY <3>1, <4>1, ShowChanges
    <3>2. CASE UNCHANGED window /\ \E S \in SUBSET Mails : crossed' = crossed \cup S
      BY <3>2
    <3>3. \/ Show([Closed EXCEPT !.text = m])
          \/ UNCHANGED window /\ (Cross({m}) \/ Cross({}) \/ UNCHANGED crossed)
      BY <1>2 DEF Built
    <3> QED
      BY <3>1, <3>2, <3>3 DEF Cross
  <2> QED
    BY <2>1, <2>2, <2>3
<1> QED
  BY <1>1, <1>2 DEF Import

LEMMA ComposeNextType ==
    ASSUME TypeOK, InOrder, Names, Origins, [Next]_vars
    PROVE  TypeOK' /\ InOrder'
<1> USE DEF TypeOK, Fault, calls, servers, user, history
<1>1. ASSUME NEW m \in Mails, Write(m) PROVE TypeOK' /\ InOrder'
  BY <1>1, SnapshotFacts DEF Write, InOrder
<1>2. ASSUME NEW m \in Mails, Import(m) PROVE TypeOK' /\ InOrder'
  <2>1. UNCHANGED drafts
    BY <1>2 DEF Import, HandOver, Built
  <2> QED
    BY <1>2, <2>1, ImportKeepsType DEF InOrder
<1>3. ASSUME NEW d \in Ids, EditDraft(d) PROVE TypeOK' /\ InOrder'
  BY <1>3 DEF EditDraft, InOrder
<1>4. CASE DraftOpened
  <2>1. drafts[opening] \in Mails /\ opening \in Ids
    BY <1>4 DEF DraftOpened, Origins
  <2>2. window' \in Snapshots /\ crossed' \subseteq Mails
    BY <1>4, <2>1, ShowChanges, SnapshotFacts DEF DraftOpened
  <2> QED
    BY <1>4, <2>2 DEF DraftOpened, InOrder
<1>5. CASE Discard
  <2>1. window.text \in Mails
    BY <1>5 DEF Discard, Names, Named, Snapshots
  <2> QED
    BY <1>5, <2>1, SnapshotFacts DEF Discard, InOrder
<1>6. CASE Send
  BY <1>6, SnapshotFacts DEF Send, Cross, InOrder, Snapshots
<1>7. CASE Undo
  BY <1>7, SnapshotFacts, ShowChanges DEF Undo, InOrder
<1>8. CASE Listen
  BY <1>8 DEF Listen, InOrder
<1>9. CASE Drain
  <2>1. window' \in Snapshots /\ crossed' \subseteq Mails
    BY <1>9, ShowChanges, SnapshotFacts DEF Drain
  <2> QED
    BY <1>9, <2>1 DEF Drain, InOrder
<1>10. ASSUME NEW t \in Tasks, Timeout(t) PROVE TypeOK' /\ InOrder'
  BY <1>10, SnapshotFacts DEF Timeout, Start, InOrder
<1>11. ASSUME NEW t \in Tasks, Save(t) PROVE TypeOK' /\ InOrder'
  BY <1>11, SnapshotFacts DEF Save, Start, InOrder
<1>12. ASSUME NEW t \in Tasks, Call(t) PROVE TypeOK' /\ InOrder'
  BY <1>12, CallKeepsType
<1>13. CASE Restart
  <2>1. crossed' \subseteq Mails
    BY <1>13 DEF Restart, Cross, Snapshots
  <2> QED
    BY <1>13, <2>1, SnapshotFacts DEF Restart, InOrder
<1>14. CASE UNCHANGED vars
  BY <1>14 DEF vars, InOrder
<1> QED
  BY <1>1, <1>2, <1>3, <1>4, <1>5, <1>6, <1>7, <1>8, <1>9, <1>10, <1>11, <1>12, <1>13, <1>14 DEF Next

-----------------------------------------------------------------------------
(* What only grows: deliveries, overlaps and the drafts with their ids.    *)

\* A draft keeps its text for good; ids are not used again.
DraftsGrow == \A d \in Ids : drafts[d] # None => drafts'[d] = drafts[d]
HistoriesGrow ==
    /\ crossed \subseteq crossed'
    /\ \A m \in Mails : delivered'[m] >= delivered[m]

LEMMA TrySendGrows ==
    ASSUME TypeOK, NEW t \in Tasks, job[t].text \in Mails, NEW right, NEW again, TrySend(t, right, again)
    PROVE  \A m \in Mails : delivered'[m] >= delivered[m]
  BY DEF TypeOK, TrySend, Accept

LEMMA CallGrows ==
    ASSUME TypeOK, InOrder, Names, NEW t \in Tasks, Call(t)
    PROVE  DraftsGrow /\ HistoriesGrow
<1> USE DEF DraftsGrow, HistoriesGrow, TypeOK, user, servers, history
<1>1. CASE TryPrimary(t) \/ TryFallback(t)
  <2>1. job[t].text \in Mails
    BY <1>1 DEF TryPrimary, TryFallback, Names
  <2>2. \A m \in Mails : delivered'[m] >= delivered[m]
    BY <1>1, <2>1, TrySendGrows DEF TryPrimary, TryFallback
  <2> QED
    BY <1>1, <2>2 DEF TryPrimary, TryFallback
<1>2. CASE AppendToSent(t) \/ MarkParent(t) \/ RemoveReplaced(t)
  BY <1>2 DEF AppendToSent, MarkParent, RemoveReplaced
<1>3. CASE SaveAsDraft(t) \/ Rescue(t)
  <2>1. job[t] \in Snapshots /\ job[t].text \in Mails
    BY <1>3 DEF SaveAsDraft, Rescue, Names
  <2>2. DraftsGrow
    BY <1>3, <2>1, StoreDraftChanges DEF SaveAsDraft, Rescue
  <2>3. crossed \subseteq crossed' /\ UNCHANGED delivered
    BY <1>3, <2>1, ShowChanges DEF SaveAsDraft, Rescue
  <2> QED
    BY <2>2, <2>3
<1> QED
  BY <1>1, <1>2, <1>3 DEF Call

LEMMA StepGrows ==
    ASSUME TypeOK, InOrder, Names, Origins, [Next]_vars
    PROVE  DraftsGrow /\ HistoriesGrow
<1> USE DEF DraftsGrow, HistoriesGrow, TypeOK, user, servers, history, calls
<1>1. ASSUME NEW m \in Mails, Write(m) \/ Import(m) PROVE DraftsGrow /\ HistoriesGrow
  <2>1. UNCHANGED servers
    BY <1>1 DEF Write, Import, HandOver, Built
  <2>2. crossed \subseteq crossed'
    BY <1>1, ShowChanges, SnapshotFacts, SMTT(20) DEF Write, Import, HandOver, Built, Cross
  <2> QED
    BY <2>1, <2>2
<1>2. ASSUME NEW d \in Ids, EditDraft(d) PROVE DraftsGrow /\ HistoriesGrow
  BY <1>2 DEF EditDraft
<1>3. CASE DraftOpened
  <2>1. drafts[opening] \in Mails /\ opening \in Ids
    BY <1>3 DEF DraftOpened, Origins
  <2>2. crossed \subseteq crossed'
    BY <1>3, <2>1, ShowChanges, SnapshotFacts DEF DraftOpened
  <2> QED
    BY <1>3, <2>2 DEF DraftOpened
<1>4. CASE Discard \/ Send \/ Listen
  BY <1>4 DEF Discard, Send, Listen, Cross
<1>5. CASE Undo \/ Drain
  <2>1. crossed \subseteq crossed'
    BY <1>5, ShowChanges, SnapshotFacts DEF Undo, Drain
  <2> QED
    BY <1>5, <2>1 DEF Undo, Drain
<1>6. ASSUME NEW t \in Tasks, Timeout(t) \/ Save(t) PROVE DraftsGrow /\ HistoriesGrow
  BY <1>6 DEF Timeout, Save
<1>7. ASSUME NEW t \in Tasks, Call(t) PROVE DraftsGrow /\ HistoriesGrow
  BY <1>7, CallGrows
<1>8. CASE Restart
  BY <1>8 DEF Restart, Cross
<1>9. CASE UNCHANGED vars
  BY <1>9 DEF vars
<1> QED
  BY <1>1, <1>2, <1>3, <1>4, <1>5, <1>6, <1>7, <1>8, <1>9 DEF Next

\* So a snapshot keeps its draft, and a kept draft stays kept while nothing is
\* moved to the trash.
LEMMA OpenedStays ==
    ASSUME TypeOK, DraftsGrow, HistoriesGrow, NEW s \in Snapshots, OpenedIn(s, drafts, crossed)
    PROVE  OpenedIn(s, drafts', crossed')
  BY DEF TypeOK, DraftsGrow, HistoriesGrow, OpenedIn, Snapshots

LEMMA KeptStays ==
    ASSUME TypeOK, TypeOK', DraftsGrow, HistoriesGrow, trash' = trash, NEW d \in Ids, drafts[d] # None,
           KeptIn(d, drafts, delivered, crossed, trash)
    PROVE  KeptIn(d, drafts', delivered', crossed', trash')
<1>1. drafts'[d] = drafts[d] /\ drafts[d] \in Mails
  BY DEF TypeOK, DraftsGrow
<1>2. CASE drafts[d] \in crossed
  BY <1>1, <1>2 DEF KeptIn, HistoriesGrow
<1>3. CASE delivered[drafts[d]] > 0
  BY <1>1, <1>3 DEF KeptIn, HistoriesGrow, TypeOK
<1>4. ASSUME NEW e \in Ids, e > d, e \notin trash, drafts[e] = drafts[d]
      PROVE  KeptIn(d, drafts', delivered', crossed', trash')
  BY <1>1, <1>4 DEF KeptIn, DraftsGrow
<1> QED
  BY <1>2, <1>3, <1>4 DEF KeptIn

-----------------------------------------------------------------------------
(* Names and origins.                                                      *)

\* The window shows a mail after setComposeDraft.
LEMMA ShowNames ==
    ASSUME TypeOK, NEW s \in Snapshots, s.text # None, Show(s)
    PROVE  Named(window')
<1>1. window'.text # None
  BY ShowChanges
<1> QED
  BY <1>1 DEF Named

LEMMA NamesStay ==
    ASSUME TypeOK, Names, Origins, [Next]_vars
    PROVE  Names'
<1> USE DEF Names, Named, TypeOK, Goto, Return, Start, user, calls
<1>1. ASSUME NEW m \in Mails, Write(m) PROVE Names'
  BY <1>1, SnapshotFacts DEF Write
<1>2. ASSUME NEW m \in Mails, Import(m) PROVE Names'
  <2>1. UNCHANGED window \/ Show([Closed EXCEPT !.text = m])
    BY <1>2 DEF Import, HandOver, Built
  <2>2. Named(window')
    <3>1. CASE UNCHANGED window
      BY <3>1
    <3>2. CASE Show([Closed EXCEPT !.text = m])
      <4> HIDE DEF TypeOK, Named
      <4> QED
        BY <3>2, ShowNames, SnapshotFacts, ZenonT(40)
    <3> QED
      BY <2>1, <3>1, <3>2
  <2> QED
    BY <1>2, <2>2 DEF Import, HandOver, Built
<1>3. ASSUME NEW d \in Ids, EditDraft(d) PROVE Names'
  BY <1>3 DEF EditDraft
<1>4. CASE DraftOpened
  <2>1. drafts[opening] \in Mails /\ opening \in Ids
    BY <1>4 DEF DraftOpened, Origins
  <2>2. Named(window')
    BY <1>4, <2>1, ShowChanges, SnapshotFacts DEF DraftOpened
  <2> QED
    BY <1>4, <2>2 DEF DraftOpened
<1>5. CASE Discard \/ Send \/ Listen
  BY <1>5, SnapshotFacts DEF Discard, Send, Listen
<1>6. CASE Undo
  <2>1. Named(window')
    <3>1. Show(pending) /\ pending \in Snapshots /\ pending.text # None
      BY <1>6 DEF Undo
    <3> HIDE DEF TypeOK, Named
    <3> QED
      BY <3>1, ShowNames
  <2> QED
    BY <1>6, <2>1, SnapshotFacts DEF Undo
<1>7. CASE Drain
  <2>1. UNCHANGED window \/ \E m \in Mails : Show([Closed EXCEPT !.text = m])
    BY <1>7 DEF Drain
  <2>2. Named(window')
    <3>1. CASE UNCHANGED window
      BY <3>1
    <3>2. ASSUME NEW m \in Mails, Show([Closed EXCEPT !.text = m]) PROVE Named(window')
      <4> HIDE DEF TypeOK, Named
      <4> QED
        BY <3>2, ShowNames, SnapshotFacts, ZenonT(40)
    <3> QED
      BY <2>1, <3>1, <3>2
  <2> QED
    BY <1>7, <2>2 DEF Drain
<1>8. ASSUME NEW t \in Tasks, Timeout(t) PROVE Names'
  <2>1. pending.text \in Mails
    BY <1>8 DEF Timeout, Snapshots
  <2> QED
    BY <1>8, <2>1, SnapshotFacts DEF Timeout
<1>9. ASSUME NEW t \in Tasks, Save(t) PROVE Names'
  <2>1. window.text \in Mails
    BY <1>9 DEF Save, Snapshots
  <2> QED
    BY <1>9, <2>1, SnapshotFacts DEF Save
<1>10. ASSUME NEW t \in Tasks, TryPrimary(t) \/ TryFallback(t) \/ AppendToSent(t) \/ MarkParent(t) PROVE Names'
  BY <1>10 DEF TryPrimary, TryFallback, AppendToSent, MarkParent, TrySend
<1>11. ASSUME NEW t \in Tasks, RemoveReplaced(t) PROVE Names'
  BY <1>11 DEF RemoveReplaced
<1>12. ASSUME NEW t \in Tasks, SaveAsDraft(t) \/ Rescue(t) PROVE Names'
  <2>1. job[t] \in Snapshots /\ job[t].text \in Mails
    BY <1>12 DEF SaveAsDraft, Rescue
  <2>2. Named(window')
    BY <1>12, <2>1, ShowChanges DEF SaveAsDraft, Rescue
  <2> QED
    BY <1>12, <2>2 DEF SaveAsDraft, Rescue
<1>13. CASE Restart
  BY <1>13, SnapshotFacts DEF Restart
<1>14. CASE UNCHANGED vars
  BY <1>14 DEF vars
<1> QED
  BY <1>1, <1>2, <1>3, <1>4, <1>5, <1>6, <1>7, <1>8, <1>9, <1>10, <1>11, <1>12, <1>13, <1>14 DEF Next, Call

\* The window, when a mail comes into it from a snapshot that keeps its draft.
LEMMA ShowOrigins ==
    ASSUME TypeOK, Origins, DraftsGrow, HistoriesGrow,
           NEW s \in Snapshots, s.text # None, OpenedIn(s, drafts, crossed), Show(s)
    PROVE  OpenedIn(window', drafts', crossed')
<1>1. window'.replaces = s.replaces /\ (window'.text = s.text \/ s.text \in crossed')
  BY ShowChanges
<1>2. OpenedIn(s, drafts', crossed')
  BY OpenedStays
<1> QED
  BY <1>1, <1>2 DEF OpenedIn

LEMMA OriginsStay ==
    ASSUME TypeOK, TypeOK', Names, Origins, DraftsGrow, HistoriesGrow, [Next]_vars
    PROVE  Origins'
<1>1. OpenedIn(window, drafts', crossed') /\ OpenedIn(pending, drafts', crossed')
  BY OpenedStays DEF TypeOK, Origins
<1>2. \A t \in Tasks : OpenedIn(job[t], drafts', crossed')
  BY OpenedStays DEF TypeOK, Origins
<1>3. opening # 0 => drafts'[opening] # None
  BY DEF TypeOK, Origins, DraftsGrow
<1>4. OpenedIn(Closed, drafts', crossed')
  BY SnapshotFacts DEF OpenedIn
<1>5. \A m \in Mails : OpenedIn([Closed EXCEPT !.text = m], drafts, crossed)
                     /\ OpenedIn(Blank(m), drafts', crossed')
  BY SnapshotFacts DEF OpenedIn
<1> SUFFICES /\ OpenedIn(window', drafts', crossed') /\ OpenedIn(pending', drafts', crossed')
             /\ \A t \in Tasks : OpenedIn(job'[t], drafts', crossed')
             /\ opening' # 0 => drafts'[opening'] # None
  BY DEF Origins, OpenedIn
<1> DEFINE Goal == /\ OpenedIn(window', drafts', crossed') /\ OpenedIn(pending', drafts', crossed')
                   /\ \A t \in Tasks : OpenedIn(job'[t], drafts', crossed')
                   /\ opening' # 0 => drafts'[opening'] # None
<1>6. ASSUME NEW m \in Mails, Write(m) PROVE Goal
  BY <1>1, <1>2, <1>3, <1>5, <1>6 DEF Write, calls
<1>7. ASSUME NEW m \in Mails, Import(m) PROVE Goal
  <2>1. UNCHANGED <<pending, opening, job>>
    BY <1>7 DEF Import, HandOver, Built, calls
  <2>2. UNCHANGED window \/ Show([Closed EXCEPT !.text = m])
    BY <1>7 DEF Import, HandOver, Built
  <2>3. OpenedIn(window', drafts', crossed')
    BY <1>1, <1>5, <2>2, ShowOrigins, SnapshotFacts
  <2> QED
    BY <1>1, <1>2, <1>3, <2>1, <2>3
<1>8. ASSUME NEW d \in Ids, EditDraft(d) PROVE Goal
  <2>1. drafts'[d] # None
    BY <1>8 DEF EditDraft, OpenDrafts, servers
  <2> QED
    BY <1>1, <1>2, <1>8, <2>1 DEF EditDraft, calls
<1>9. CASE DraftOpened
  <2>1. drafts[opening] \in Mails /\ opening \in Ids
    BY <1>9 DEF DraftOpened, Origins, TypeOK
  <2> DEFINE s == [text |-> drafts[opening], parent |-> None, replaces |-> opening]
  <2>2. s \in Snapshots /\ s.text # None /\ OpenedIn(s, drafts, crossed)
    BY <2>1, SnapshotFacts DEF OpenedIn
  <2>3. UNCHANGED window \/ Show(s)
    BY <1>9 DEF DraftOpened
  <2> HIDE DEF s
  <2>4. OpenedIn(window', drafts', crossed')
    BY <1>1, <2>2, <2>3, ShowOrigins
  <2> QED
    BY <1>1, <1>2, <1>9, <2>4 DEF DraftOpened, calls
<1>10. CASE Discard \/ Send \/ Listen
  BY <1>1, <1>2, <1>3, <1>4, <1>10 DEF Discard, Send, Listen, calls
<1>11. CASE Undo
  <2>1. pending \in Snapshots /\ pending.text # None /\ Show(pending) /\ OpenedIn(pending, drafts, crossed)
    BY <1>11 DEF Undo, TypeOK, Names, Named, Origins
  <2>2. OpenedIn(window', drafts', crossed')
    BY <2>1, ShowOrigins
  <2> QED
    BY <1>2, <1>3, <1>4, <1>11, <2>2 DEF Undo, calls
<1>12. CASE Drain
  <2>1. UNCHANGED window \/ \E m \in Mails : Show([Closed EXCEPT !.text = m])
    BY <1>12 DEF Drain
  <2>2. OpenedIn(window', drafts', crossed')
    BY <1>1, <1>5, <2>1, ShowOrigins, SnapshotFacts, ZenonT(40)
  <2> QED
    BY <1>1, <1>2, <1>3, <1>12, <2>2 DEF Drain, calls
<1>13. ASSUME NEW t \in Tasks, Timeout(t) PROVE Goal
  BY <1>1, <1>2, <1>3, <1>4, <1>13 DEF Timeout, Start, TypeOK
<1>14. ASSUME NEW t \in Tasks, Save(t) PROVE Goal
  BY <1>1, <1>2, <1>3, <1>4, <1>14 DEF Save, Start, TypeOK
<1>15. ASSUME NEW t \in Tasks, TryPrimary(t) \/ TryFallback(t) \/ AppendToSent(t) \/ MarkParent(t) PROVE Goal
  <2>1. UNCHANGED <<window, pending, opening, job>>
    BY <1>15 DEF TryPrimary, TryFallback, AppendToSent, MarkParent, user
  <2> QED
    BY <1>1, <1>2, <1>3, <2>1
<1>16. ASSUME NEW t \in Tasks, RemoveReplaced(t) PROVE Goal
  <2>1. UNCHANGED <<window, pending, opening>> /\ job' = [job EXCEPT ![t] = Closed]
    BY <1>16 DEF RemoveReplaced, Return, user
  <2> QED
    BY <1>1, <1>2, <1>3, <1>4, <2>1 DEF TypeOK
<1>17. ASSUME NEW t \in Tasks, SaveAsDraft(t) \/ Rescue(t) PROVE Goal
  <2>1. job[t] \in Snapshots /\ job[t].text # None /\ OpenedIn(job[t], drafts, crossed)
    BY <1>17 DEF SaveAsDraft, Rescue, TypeOK, Names, Origins
  <2>2. UNCHANGED window \/ Show(job[t])
    BY <1>17 DEF SaveAsDraft, Rescue
  <2>3. OpenedIn(window', drafts', crossed')
    BY <1>1, <2>1, <2>2, ShowOrigins
  <2>4. UNCHANGED <<pending, opening>> /\ (UNCHANGED job \/ job' = [job EXCEPT ![t] = Closed])
    BY <1>17 DEF SaveAsDraft, Rescue, Return
  <2> QED
    BY <1>1, <1>2, <1>3, <1>4, <2>3, <2>4 DEF TypeOK
<1>18. CASE Restart
  BY <1>4, <1>18 DEF Restart
<1>19. CASE UNCHANGED vars
  BY <1>1, <1>2, <1>3, <1>19 DEF vars, user, calls
<1> QED
  BY <1>6, <1>7, <1>8, <1>9, <1>10, <1>11, <1>12, <1>13, <1>14, <1>15, <1>16, <1>17, <1>18, <1>19 DEF Next, Call

-----------------------------------------------------------------------------
(* The calls.                                                              *)

\* A call moves by its own steps only.
LEMMA TaskSteps ==
    ASSUME TypeOK, [Next]_vars, NEW u \in Tasks
    PROVE  /\ account' = account
           /\ \/ tpc'[u] = tpc[u] /\ job'[u] = job[u] /\ hits'[u] = hits[u]
              \/ Timeout(u) \/ Save(u) \/ Call(u) \/ Restart
<1> DEFINE Same == tpc'[u] = tpc[u] /\ job'[u] = job[u] /\ hits'[u] = hits[u]
<1>1. ASSUME NEW m \in Mails, Write(m) \/ Import(m) PROVE account' = account /\ Same
  BY <1>1 DEF Write, Import, HandOver, Built, calls
<1>2. ASSUME NEW d \in Ids, EditDraft(d) PROVE account' = account /\ Same
  BY <1>2 DEF EditDraft, calls
<1>3. CASE DraftOpened \/ Discard \/ Send \/ Undo \/ Listen \/ Drain
  BY <1>3 DEF DraftOpened, Discard, Send, Undo, Listen, Drain, calls
<1>4. ASSUME NEW t \in Tasks, Timeout(t) \/ Save(t) PROVE account' = account /\ (t = u \/ Same)
  BY <1>4 DEF Timeout, Save, Start, TypeOK
<1>5. ASSUME NEW t \in Tasks, TryPrimary(t) \/ TryFallback(t) PROVE account' = account /\ (t = u \/ Same)
  <2>1. UNCHANGED <<account, job>>
    BY <1>5 DEF TryPrimary, TryFallback
  <2>2. UNCHANGED hits \/ hits' = [hits EXCEPT ![t] = @ + 1]
    BY <1>5 DEF TryPrimary, TryFallback, TrySend, Accept
  <2>3. t = u \/ tpc'[u] = tpc[u]
    BY <1>5 DEF TryPrimary, TryFallback, TrySend, Goto, TypeOK
  <2> QED
    BY <2>1, <2>2, <2>3 DEF TypeOK
<1>6. ASSUME NEW t \in Tasks,
             AppendToSent(t) \/ MarkParent(t) \/ RemoveReplaced(t) \/ SaveAsDraft(t) \/ Rescue(t)
      PROVE  account' = account /\ (t = u \/ Same)
  <2>1. UNCHANGED <<account, hits>>
    BY <1>6 DEF AppendToSent, MarkParent, RemoveReplaced, SaveAsDraft, Rescue
  <2>2. UNCHANGED job \/ job' = [job EXCEPT ![t] = Closed]
    BY <1>6 DEF AppendToSent, MarkParent, RemoveReplaced, SaveAsDraft, Rescue, Return
  <2>3. t = u \/ tpc'[u] = tpc[u]
    BY <1>6 DEF AppendToSent, MarkParent, RemoveReplaced, SaveAsDraft, Rescue, Return, Goto, TypeOK
  <2> QED
    BY <2>1, <2>2, <2>3 DEF TypeOK
<1>7. CASE Restart
  BY <1>7 DEF Restart
<1>8. CASE UNCHANGED vars
  BY <1>8 DEF vars, calls
<1> QED
  BY <1>1, <1>2, <1>3, <1>4, <1>5, <1>6, <1>7, <1>8 DEF Next, Call

\* Every attempt is accepted at most once, and the second only when the first
\* went out in the variant that does not get through.
LEMMA AttemptsStay ==
    ASSUME TypeOK, Attempts, [Next]_vars
    PROVE  Attempts'
<1> SUFFICES ASSUME NEW u \in Tasks
             PROVE  /\ hits'[u] <= 1
                    /\ tpc'[u] \in {"first", "save"} => hits'[u] = 0
                    /\ tpc'[u] = "second" => hits'[u] = 0 \/ account'.port = "configured"
  BY DEF Attempts
<1>1. account' = account
  BY TaskSteps
<1>2. CASE tpc'[u] = tpc[u] /\ job'[u] = job[u] /\ hits'[u] = hits[u]
  BY <1>1, <1>2 DEF Attempts
<1>3. CASE Timeout(u) \/ Save(u)
  BY <1>3 DEF Timeout, Save, Start, TypeOK
<1>4. CASE TryPrimary(u)
  BY <1>1, <1>4 DEF TryPrimary, TrySend, Accept, Goto, Attempts, TypeOK
<1>5. CASE TryFallback(u)
  <2>1. hits[u] = 0 \/ account.port # "other"
    BY <1>5 DEF TryFallback, Attempts
  <2> QED
    BY <1>1, <1>5, <2>1 DEF TryFallback, TrySend, Accept, Goto, Attempts, TypeOK
<1>6. CASE AppendToSent(u) \/ MarkParent(u) \/ RemoveReplaced(u) \/ SaveAsDraft(u) \/ Rescue(u)
  <2>1. hits' = hits
    BY <1>6 DEF AppendToSent, MarkParent, RemoveReplaced, SaveAsDraft, Rescue
  <2>2. tpc'[u] \notin {"first", "save", "second"}
    BY <1>6 DEF AppendToSent, MarkParent, RemoveReplaced, SaveAsDraft, Rescue, Return, Goto, TypeOK
  <2> QED
    BY <2>1, <2>2 DEF Attempts
<1>7. CASE Restart
  BY <1>7 DEF Restart
<1> QED
  BY <1>2, <1>3, <1>4, <1>5, <1>6, <1>7, TaskSteps DEF Call

\* Drafts go to the trash by delete_message after a call, one at a time.
LEMMA TrashSteps ==
    ASSUME TypeOK, [Next]_vars
    PROVE  \/ trash' = trash
           \/ \E t \in Tasks : /\ RemoveReplaced(t)
                               /\ tpc[t] = "clean" /\ job[t].replaces \in Ids
                               /\ trash' = trash \cup {job[t].replaces}
                               /\ UNCHANGED <<drafts, delivered, crossed>>
<1>1. ASSUME NEW m \in Mails, Write(m) \/ Import(m) PROVE trash' = trash
  BY <1>1 DEF Write, Import, HandOver, Built
<1>2. ASSUME NEW d \in Ids, EditDraft(d) PROVE trash' = trash
  BY <1>2 DEF EditDraft
<1>3. CASE DraftOpened \/ Discard \/ Send \/ Undo \/ Listen \/ Drain \/ Restart
  BY <1>3 DEF DraftOpened, Discard, Send, Undo, Listen, Drain, Restart
<1>4. ASSUME NEW t \in Tasks, Timeout(t) \/ Save(t) PROVE trash' = trash
  BY <1>4 DEF Timeout, Save
<1>5. ASSUME NEW t \in Tasks,
             TryPrimary(t) \/ TryFallback(t) \/ AppendToSent(t) \/ MarkParent(t) \/ SaveAsDraft(t) \/ Rescue(t)
      PROVE  trash' = trash
  BY <1>5 DEF TryPrimary, TryFallback, AppendToSent, MarkParent, SaveAsDraft, Rescue
<1>6. ASSUME NEW t \in Tasks, RemoveReplaced(t), trash' # trash
      PROVE  /\ tpc[t] = "clean" /\ job[t].replaces \in Ids
             /\ trash' = trash \cup {job[t].replaces}
             /\ UNCHANGED <<drafts, delivered, crossed>>
  <2>1. job[t].replaces \in Ids \cup {0}
    BY DEF TypeOK, Snapshots
  <2> QED
    BY <1>6, <2>1 DEF RemoveReplaced, servers, history
<1>7. CASE UNCHANGED vars
  BY <1>7 DEF vars
<1> QED
  BY <1>1, <1>2, <1>3, <1>4, <1>5, <1>6, <1>7 DEF Next, Call

\* What is kept stays kept: when its later draft goes to the trash, there is
\* one later still.
LEMMA KeptNext ==
    ASSUME TypeOK, TypeOK', Finishing, DraftsGrow, HistoriesGrow, [Next]_vars,
           NEW d \in Ids, drafts[d] # None, KeptIn(d, drafts, delivered, crossed, trash)
    PROVE  KeptIn(d, drafts', delivered', crossed', trash')
<1>1. CASE trash' = trash
  BY <1>1, KeptStays
<1>2. ASSUME NEW t \in Tasks, tpc[t] = "clean", job[t].replaces \in Ids,
             trash' = trash \cup {job[t].replaces}, UNCHANGED <<drafts, delivered, crossed>>
      PROVE  KeptIn(d, drafts', delivered', crossed', trash')
  <2> DEFINE r == job[t].replaces
  <2>1. r \in Ids /\ r # 0 /\ KeptIn(r, drafts, delivered, crossed, trash)
    BY <1>2 DEF Finishing, Ids
  <2> HIDE DEF r
  <2>2. ASSUME NEW e \in Ids, e > d, e \notin trash, drafts[e] = drafts[d]
        PROVE  KeptIn(d, drafts, delivered, crossed, trash \cup {r})
    <3>1. CASE e # r
      BY <2>2, <3>1 DEF KeptIn
    <3>2. CASE e = r
      <4>1. ASSUME NEW f \in Ids, f > r, f \notin trash, drafts[f] = drafts[r]
            PROVE  KeptIn(d, drafts, delivered, crossed, trash \cup {r})
        BY <2>1, <2>2, <3>2, <4>1 DEF KeptIn, Ids
      <4> QED
        BY <2>1, <2>2, <3>2, <4>1 DEF KeptIn
    <3> QED
      BY <3>1, <3>2
  <2>3. KeptIn(d, drafts, delivered, crossed, trash \cup {r})
    BY <2>2 DEF KeptIn
  <2> QED
    BY <1>2, <2>3 DEF r
<1> QED
  BY <1>1, <1>2, TrashSteps

LEMMA TrashedStays ==
    ASSUME TypeOK, TypeOK', Origins, Finishing, Trashed, DraftsGrow, HistoriesGrow, [Next]_vars
    PROVE  Trashed'
<1> SUFFICES ASSUME NEW d \in trash'
             PROVE  drafts'[d] # None /\ KeptIn(d, drafts', delivered', crossed', trash')
  BY DEF Trashed, KeptIn
<1>1. CASE d \in trash
  BY <1>1, KeptNext DEF Trashed, DraftsGrow, TypeOK
<1>2. ASSUME NEW t \in Tasks, tpc[t] = "clean", job[t].replaces \in Ids, d = job[t].replaces
      PROVE  drafts'[d] # None /\ KeptIn(d, drafts', delivered', crossed', trash')
  <2>1. d \in Ids /\ d # 0 /\ drafts[d] # None /\ KeptIn(d, drafts, delivered, crossed, trash)
    BY <1>2 DEF Finishing, Origins, OpenedIn, Ids
  <2> QED
    BY <2>1, KeptNext DEF DraftsGrow, TypeOK
<1> QED
  BY <1>1, <1>2, TrashSteps

LEMMA FinishingStays ==
    ASSUME TypeOK, TypeOK', InOrder, Names, Origins, Finishing, Trashed,
           DraftsGrow, HistoriesGrow, [Next]_vars
    PROVE  Finishing'
<1> SUFFICES ASSUME NEW u \in Tasks
             PROVE  /\ tpc'[u] \in {"append", "marks"} => delivered'[job'[u].text] > 0
                    /\ tpc'[u] = "clean" /\ job'[u].replaces # 0 =>
                          KeptIn(job'[u].replaces, drafts', delivered', crossed', trash')
  BY DEF Finishing, KeptIn
<1>1. job[u] \in Snapshots /\ (tpc[u] # "idle" => job[u].text \in Mails)
  BY DEF TypeOK, Names
<1>2. job[u].replaces # 0 => job[u].replaces \in Ids /\ drafts[job[u].replaces] # None
                              /\ drafts[job[u].replaces] \in crossed \cup {job[u].text}
  BY <1>1 DEF Origins, OpenedIn, Snapshots
<1>3. CASE tpc'[u] = tpc[u] /\ job'[u] = job[u]
  <2>1. tpc[u] \in {"append", "marks"} => delivered'[job[u].text] > 0
    BY <1>1 DEF Finishing, HistoriesGrow, TypeOK
  <2>2. tpc[u] = "clean" /\ job[u].replaces # 0 =>
           KeptIn(job[u].replaces, drafts', delivered', crossed', trash')
    BY <1>2, KeptNext DEF Finishing
  <2> QED
    BY <1>3, <2>1, <2>2
<1>4. CASE Timeout(u) \/ Save(u) \/ Restart
  <2>1. tpc'[u] \in {"first", "save", "idle"}
    BY <1>4 DEF Timeout, Save, Start, Restart, TypeOK
  <2> QED
    BY <2>1
<1>5. CASE TryPrimary(u) \/ TryFallback(u)
  <2>1. job' = job /\ tpc'[u] \in {"append", "second", "rescue"} /\ job[u].text \in Mails
    BY <1>1, <1>5 DEF TryPrimary, TryFallback, TrySend, Goto, TypeOK
  <2>2. tpc'[u] = "append" => delivered' = [delivered EXCEPT ![job[u].text] = @ + 1]
    BY <1>5 DEF TryPrimary, TryFallback, TrySend, Accept, Goto, TypeOK
  <2> QED
    BY <2>1, <2>2 DEF TypeOK
<1>6. CASE AppendToSent(u)
  <2>1. job' = job /\ delivered' = delivered /\ tpc[u] = "append" /\ tpc'[u] = "marks"
    BY <1>6 DEF AppendToSent, Goto, TypeOK
  <2> QED
    BY <2>1 DEF Finishing
<1>7. CASE MarkParent(u)
  <2>1. /\ job' = job /\ tpc[u] = "marks" /\ tpc'[u] \in {"clean", "rescue"}
        /\ UNCHANGED <<drafts, delivered, crossed, trash>>
    BY <1>7 DEF MarkParent, Goto, servers, history, TypeOK
  <2>2. delivered[job[u].text] > 0
    BY <2>1 DEF Finishing
  <2> QED
    BY <1>2, <2>1, <2>2 DEF KeptIn
<1>8. CASE RemoveReplaced(u) \/ Rescue(u)
  <2>1. tpc'[u] = "idle"
    BY <1>8 DEF RemoveReplaced, Rescue, Return, Goto, TypeOK
  <2> QED
    BY <2>1
<1>9. CASE SaveAsDraft(u)
  <2>1. tpc'[u] \in {"idle", "clean"} /\ trash' = trash
    BY <1>9 DEF SaveAsDraft, Return, Goto, TypeOK
  <2>2. ASSUME tpc'[u] = "clean", job'[u].replaces # 0
        PROVE  KeptIn(job'[u].replaces, drafts', delivered', crossed', trash')
    <3>1. job' = job /\ StoreDraft(job[u].text) /\ tpc[u] = "save"
      BY <1>9, <2>2 DEF SaveAsDraft, Return, Goto, TypeOK
    <3>2. job[u].text \in Mails
      BY <1>1, <3>1
    <3>3. PICK e \in Ids : /\ drafts[e] = None /\ drafts'[e] = job[u].text
                           /\ \A f \in Ids : drafts[f] # None => f < e
      BY <3>1, <3>2, StoreDraftChanges
    <3>4. e \notin trash /\ job[u].replaces < e
      BY <1>2, <2>2, <3>1, <3>3 DEF Trashed
    <3>5. drafts'[job[u].replaces] = drafts[job[u].replaces]
      BY <1>2, <2>2, <3>1 DEF DraftsGrow
    <3>6. job[u].replaces \in Ids /\ drafts'[job[u].replaces] \in crossed' \cup {drafts'[e]}
      BY <1>2, <2>2, <3>1, <3>3, <3>5 DEF HistoriesGrow
    <3> QED
      BY <2>1, <3>1, <3>3, <3>4, <3>6 DEF KeptIn, Ids
  <2> QED
    BY <2>1, <2>2
<1> QED
  BY <1>3, <1>4, <1>5, <1>6, <1>7, <1>8, <1>9, TaskSteps DEF Call

-----------------------------------------------------------------------------
(* What was written stays somewhere.                                       *)

Safe(m) == delivered[m] > 0 \/ \E d \in OpenDrafts : drafts[d] = m
Held(m) == window.text = m \/ Waiting(m) \/ import[m] # "none" \/ Safe(m)

LEMMA SafeStays ==
    ASSUME TypeOK, TypeOK', Finishing, DraftsGrow, HistoriesGrow, [Next]_vars,
           NEW m \in Mails, Safe(m), m \notin crossed'
    PROVE  Safe(m)'
<1>1. CASE delivered[m] > 0
  BY <1>1 DEF Safe, HistoriesGrow, TypeOK
<1>2. ASSUME NEW d \in Ids, d \notin trash, drafts[d] = m PROVE Safe(m)'
  <2>1. \A e \in Ids : drafts[e] = m => drafts'[e] = m
    BY ComposeAssumption DEF DraftsGrow
  <2>2. CASE d \notin trash'
    BY <1>2, <2>1, <2>2 DEF Safe, OpenDrafts
  <2>3. ASSUME NEW t \in Tasks, tpc[t] = "clean", job[t].replaces = d, trash' = trash \cup {d}
        PROVE  Safe(m)'
    <3>1. KeptIn(d, drafts, delivered, crossed, trash)
      BY <1>2, <2>3 DEF Finishing, Ids
    <3>2. CASE delivered[m] > 0
      BY <1>1, <3>2
    <3>3. ASSUME NEW e \in Ids, e > d, e \notin trash, drafts[e] = m PROVE Safe(m)'
      BY <2>1, <2>3, <3>3 DEF Safe, OpenDrafts, Ids
    <3> QED
      BY <1>2, <3>1, <3>2, <3>3 DEF KeptIn, HistoriesGrow
  <2> QED
    BY <1>2, <2>2, <2>3, TrashSteps
<1> QED
  BY <1>1, <1>2 DEF Safe, OpenDrafts

\* What a call carries it still carries, or has brought somewhere.
LEMMA BusyStays ==
    ASSUME TypeOK, TypeOK', InOrder, Names, Trashed, Finishing, DraftsGrow, HistoriesGrow, [Next]_vars,
           NEW m \in Mails, Busy(m), m \notin crossed'
    PROVE  Held(m)'
<1>1. PICK u \in Tasks : tpc[u] \notin {"idle", "clean"} /\ job[u].text = m
  BY DEF Busy
<1>2. job[u] \in Snapshots
  BY DEF TypeOK
<1>3. CASE tpc'[u] = tpc[u] /\ job'[u] = job[u]
  BY <1>1, <1>3 DEF Held, Waiting, Busy
<1>4. CASE Timeout(u) \/ Save(u)
  BY <1>1, <1>4 DEF Timeout, Save, Start
<1>5. CASE TryPrimary(u) \/ TryFallback(u)
  <2>1. job' = job /\ tpc'[u] \in {"append", "second", "rescue"}
    BY <1>5 DEF TryPrimary, TryFallback, TrySend, Goto, TypeOK
  <2> QED
    BY <1>1, <2>1 DEF Held, Waiting, Busy
<1>6. CASE AppendToSent(u)
  <2>1. job' = job /\ tpc'[u] = "marks"
    BY <1>6 DEF AppendToSent, Goto, TypeOK
  <2> QED
    BY <1>1, <2>1 DEF Held, Waiting, Busy
<1>7. CASE MarkParent(u)
  <2>1. delivered'[m] > 0
    BY <1>1, <1>7 DEF MarkParent, Finishing, HistoriesGrow, TypeOK
  <2> QED
    BY <2>1 DEF Held, Safe
<1>8. CASE RemoveReplaced(u)
  BY <1>1, <1>8 DEF RemoveReplaced
<1>9. CASE (SaveAsDraft(u) \/ Rescue(u)) /\ Show(job[u])
  <2>1. window'.text = m
    BY <1>1, <1>2, <1>9, ShowChanges, ComposeAssumption
  <2> QED
    BY <2>1 DEF Held
<1>10. CASE SaveAsDraft(u) /\ StoreDraft(job[u].text) /\ trash' = trash
  <2>1. PICK e \in Ids : drafts[e] = None /\ drafts'[e] = m
    BY <1>1, <1>10, StoreDraftChanges
  <2>2. e \notin trash'
    BY <1>10, <2>1 DEF Trashed
  <2> QED
    BY <2>1, <2>2, ComposeAssumption DEF Held, Safe, OpenDrafts
<1>11. CASE Restart
  BY <1>1, <1>11, ComposeAssumption DEF Restart, Cross
<1>12. SaveAsDraft(u) \/ Rescue(u) => Show(job[u]) \/ (SaveAsDraft(u) /\ StoreDraft(job[u].text) /\ trash' = trash)
  BY DEF SaveAsDraft, Rescue
<1> QED
  BY <1>3, <1>4, <1>5, <1>6, <1>7, <1>8, <1>9, <1>10, <1>11, <1>12, TaskSteps DEF Call

\* The one window: what it is told to show, it shows, or an overlap met it;
\* what it showed, it goes on showing.
LEMMA ShowHolds ==
    ASSUME TypeOK, NEW s \in Snapshots, Show(s), NEW m \in Mails, m \notin crossed',
           window.text = m \/ s.text = m
    PROVE  window'.text = m
  BY ShowChanges, ComposeAssumption

LEMMA HeldStays ==
    ASSUME TypeOK, TypeOK', InOrder, Names, Origins, Trashed, Finishing, DraftsGrow, HistoriesGrow,
           [Next]_vars, NEW m \in Mails, Held(m),
           m \in written', m \notin crossed', m \notin discarded'
    PROVE  Held(m)'
<1> USE ComposeAssumption
<1>1. CASE Safe(m)
  BY <1>1, SafeStays DEF Held
<1>2. CASE Busy(m)
  BY <1>2, BusyStays
<1> DEFINE Near == window.text = m \/ pending.text = m \/ import[m] # "none"
<1>3. ASSUME Near PROVE Held(m)'
  <2>1. ASSUME NEW n \in Mails, Write(n) PROVE Held(m)'
    BY <1>3, <2>1, SnapshotFacts DEF Write, Held, Waiting
  <2>2. ASSUME NEW n \in Mails, Import(n) PROVE Held(m)'
    <3>1. pending' = pending
      BY <2>2 DEF Import, HandOver, Built
    <3>2. CASE HandOver(n)
      BY <1>3, <3>2 DEF HandOver, Held, Waiting, TypeOK
    <3>3. CASE Built(n) /\ import[n] = "cold" /\ import' = [import EXCEPT ![n] = "buffered"] /\ UNCHANGED window
      BY <1>3, <3>1, <3>3 DEF Held, Waiting, TypeOK
    <3>4. CASE import' = [import EXCEPT ![n] = "none"] /\ UNCHANGED window /\ (n \in crossed' \/ n \notin written')
      BY <1>3, <3>1, <3>4 DEF Held, Waiting, TypeOK
    <3>5. CASE import' = [import EXCEPT ![n] = "none"] /\ Show([Closed EXCEPT !.text = n])
      <4>1. window.text = m \/ n = m => window'.text = m
        BY <3>5, ShowHolds, SnapshotFacts
      <4>2. import[m] # "none" /\ n # m => import'[m] # "none"
        BY <3>5 DEF TypeOK
      <4> QED
        BY <1>3, <3>1, <4>1, <4>2 DEF Held, Waiting
    <3> QED
      BY <2>2, <3>2, <3>3, <3>4, <3>5 DEF Import, Built, Cross
  <2>3. ASSUME NEW d \in Ids, EditDraft(d) PROVE Held(m)'
    BY <1>3, <2>3 DEF EditDraft, Held, Waiting
  <2>4. CASE DraftOpened
    <3> DEFINE s == [text |-> drafts[opening], parent |-> None, replaces |-> opening]
    <3>1. s \in Snapshots
      BY <2>4, SnapshotFacts DEF DraftOpened, Origins, TypeOK
    <3>2. UNCHANGED window \/ Show(s)
      BY <2>4 DEF DraftOpened
    <3> HIDE DEF s
    <3>3. window.text = m => window'.text = m
      BY <3>1, <3>2, ShowHolds
    <3> QED
      BY <1>3, <2>4, <3>3 DEF DraftOpened, Held, Waiting
  <2>5. CASE Discard
    BY <1>3, <2>5 DEF Discard, Held, Waiting
  <2>6. CASE Send
    BY <1>3, <2>6 DEF Send, Cross, Held, Waiting
  <2>7. CASE Undo
    <3>1. window.text = m \/ pending.text = m => window'.text = m
      BY <2>7, ShowHolds DEF Undo, TypeOK
    <3> QED
      BY <1>3, <2>7, <3>1 DEF Undo, Held
  <2>8. CASE Listen
    BY <1>3, <2>8 DEF Listen, Held, Waiting
  <2>9. CASE Drain
    <3>1. pending' = pending
      BY <2>9 DEF Drain
    <3>2. CASE UNCHANGED <<import, window>>
      BY <1>3, <3>1, <3>2 DEF Held, Waiting
    <3>3. ASSUME NEW n \in Mails, import' = [import EXCEPT ![n] = "none"], Show([Closed EXCEPT !.text = n])
          PROVE  Held(m)'
      <4>1. window.text = m \/ n = m => window'.text = m
        BY <3>3, ShowHolds, SnapshotFacts
      <4>2. import[m] # "none" /\ n # m => import'[m] # "none"
        BY <3>3 DEF TypeOK
      <4> QED
        BY <1>3, <3>1, <4>1, <4>2 DEF Held, Waiting
    <3> QED
      BY <2>9, <3>2, <3>3 DEF Drain
  <2>10. ASSUME NEW t \in Tasks, Timeout(t) PROVE Held(m)'
    <3>1. tpc'[t] = "first" /\ job'[t] = pending /\ UNCHANGED <<window, import>>
      BY <2>10 DEF Timeout, Start, TypeOK
    <3> QED
      BY <1>3, <3>1 DEF Held, Waiting, Busy
  <2>11. ASSUME NEW t \in Tasks, Save(t) PROVE Held(m)'
    <3>1. tpc'[t] = "save" /\ job'[t] = window /\ UNCHANGED <<pending, import>>
      BY <2>11 DEF Save, Start, TypeOK
    <3> QED
      BY <1>3, <3>1 DEF Held, Waiting, Busy
  <2>12. ASSUME NEW t \in Tasks, TryPrimary(t) \/ TryFallback(t) \/ AppendToSent(t) \/ MarkParent(t) \/ RemoveReplaced(t)
         PROVE  Held(m)'
    <3>1. UNCHANGED <<window, pending, import>>
      BY <2>12 DEF TryPrimary, TryFallback, AppendToSent, MarkParent, RemoveReplaced, user
    <3> QED
      BY <1>3, <3>1 DEF Held, Waiting
  <2>13. ASSUME NEW t \in Tasks, SaveAsDraft(t) \/ Rescue(t) PROVE Held(m)'
    <3>1. UNCHANGED <<pending, import>> /\ (UNCHANGED window \/ Show(job[t]))
      BY <2>13 DEF SaveAsDraft, Rescue
    <3>2. window.text = m => window'.text = m
      BY <3>1, ShowHolds DEF TypeOK
    <3> QED
      BY <1>3, <3>1, <3>2 DEF Held, Waiting
  <2>14. CASE Restart
    BY <1>3, <2>14 DEF Restart, Cross
  <2>15. CASE UNCHANGED vars
    BY <1>3, <2>15 DEF vars, user, Held, Waiting
  <2> QED
    BY <2>1, <2>2, <2>3, <2>4, <2>5, <2>6, <2>7, <2>8, <2>9, <2>10, <2>11, <2>12, <2>13, <2>14, <2>15 DEF Next, Call
<1> QED
  BY <1>1, <1>2, <1>3 DEF Held, Waiting

\* A mail that is begun or handed over is in the window or being imported.
LEMMA NewIsHeld ==
    ASSUME TypeOK, TypeOK', [Next]_vars, NEW m \in written', m \notin written
    PROVE  Held(m)'
<1>1. m \in Mails
  BY DEF TypeOK
<1>2. ASSUME NEW n \in Mails, Write(n) PROVE Held(m)'
  BY <1>2, SnapshotFacts DEF Write, Held
<1>3. ASSUME NEW n \in Mails, Import(n) PROVE Held(m)'
  <2>1. m = n /\ import' = [import EXCEPT ![n] = "live"]
    BY <1>3 DEF Import, HandOver, Built
  <2> QED
    BY <1>1, <2>1 DEF Held, TypeOK
<1>4. ASSUME NEW d \in Ids, EditDraft(d) PROVE FALSE
  BY <1>4 DEF EditDraft, history
<1>5. ASSUME DraftOpened \/ Discard \/ Send \/ Undo \/ Listen \/ Drain \/ Restart PROVE FALSE
  BY <1>5 DEF DraftOpened, Discard, Send, Undo, Listen, Drain, Restart, history
<1>6. ASSUME NEW t \in Tasks, Timeout(t) \/ Save(t) \/ Call(t) PROVE FALSE
  BY <1>6 DEF Timeout, Save, Call, TryPrimary, TryFallback, AppendToSent, MarkParent, RemoveReplaced,
              SaveAsDraft, Rescue, history
<1>7. ASSUME UNCHANGED vars PROVE FALSE
  BY <1>7 DEF vars, history
<1> QED
  BY <1>2, <1>3, <1>4, <1>5, <1>6, <1>7 DEF Next

-----------------------------------------------------------------------------
(* The theorems.                                                           *)

LEMMA ComposeInit == Init => IInv
<1> SUFFICES ASSUME Init PROVE IInv
  OBVIOUS
<1>1. TypeOK
  BY ComposeInitType
<1>2. InOrder /\ Trashed
  BY DEF Init, InOrder, Trashed
<1>3. Names /\ Origins
  BY SnapshotFacts DEF Init, Names, Named, Origins, OpenedIn
<1>4. Finishing /\ Attempts
  BY DEF Init, Finishing, Attempts
<1>5. WrittenIsKept
  BY DEF Init, WrittenIsKept
<1> QED
  BY <1>1, <1>2, <1>3, <1>4, <1>5 DEF IInv

LEMMA ComposeNext == IInv /\ [Next]_vars => IInv'
<1> SUFFICES ASSUME IInv, [Next]_vars PROVE IInv'
  OBVIOUS
<1> USE DEF IInv
<1>1. TypeOK' /\ InOrder'
  BY ComposeNextType
<1>2. DraftsGrow /\ HistoriesGrow
  BY StepGrows
<1>3. Names' /\ Attempts'
  BY NamesStay, AttemptsStay
<1>4. Origins' /\ Trashed' /\ Finishing'
  BY <1>1, <1>2, OriginsStay, TrashedStays, FinishingStays
<1>5. WrittenIsKept'
  <2> SUFFICES ASSUME NEW m \in written', m \notin crossed', m \notin discarded'
               PROVE  Held(m)'
    BY DEF WrittenIsKept, Held, Safe
  <2>1. CASE m \notin written
    BY <1>1, <2>1, NewIsHeld
  <2>2. CASE m \in written
    <3>1. m \in Mails /\ m \notin crossed
      BY <1>1, <1>2, <2>2 DEF TypeOK, HistoriesGrow
    <3>2. m \notin discarded
      BY DEF Next, vars, history, Write, Import, HandOver, Built, EditDraft, DraftOpened, Discard, Send, Undo,
             Listen, Drain, Timeout, Save, Call, TryPrimary, TryFallback, AppendToSent, MarkParent,
             RemoveReplaced, SaveAsDraft, Rescue, Restart
    <3>3. Held(m)
      BY <2>2, <3>1, <3>2 DEF WrittenIsKept, Held, Safe
    <3> QED
      BY <1>1, <1>2, <3>1, <3>3, HeldStays
  <2> QED
    BY <2>1, <2>2
<1> QED
  BY <1>1, <1>3, <1>4, <1>5

\* The invariant of the compose window, the calls and the drafts.
THEOREM ComposeIInvAlways == Spec => []IInv
<1>1. Init => IInv
  BY ComposeInit
<1>2. IInv /\ [Next]_vars => IInv'
  BY ComposeNext
<1> QED
  BY <1>1, <1>2, PTL DEF Spec

\* What the user wrote or another program handed over is in the window, on its
\* way, in Drafts or delivered, but for discarded mails and the named overlaps.
THEOREM NothingWrittenIsLost == Spec => []WrittenIsKept
<1>1. IInv => WrittenIsKept
  BY DEF IInv
<1> QED
  BY <1>1, ComposeIInvAlways, PTL

\* One click on Send is accepted by SMTP at most once, whatever the attempts
\* and their lost answers.
THEOREM SendDeliversOnce == Spec => []AtMostOncePerSend
<1>1. IInv => AtMostOncePerSend
  BY DEF IInv, Attempts, AtMostOncePerSend
<1> QED
  BY <1>1, ComposeIInvAlways, PTL

\* A draft goes to the trash only when its mail was delivered or is in another
\* draft, or an overlap met the mail.
THEOREM DraftsOutliveMails == Spec => DraftOutlivesMail
<1> DEFINE Kept(d) == \/ drafts[d] \in crossed
                      \/ delivered[drafts[d]] > 0
                      \/ \E e \in OpenDrafts \ {d} : drafts[e] = drafts[d]
<1> DEFINE A == \A d \in trash' \ trash : Kept(d)
<1>1. IInv /\ [Next]_vars => [A]_vars
  <2> SUFFICES ASSUME IInv, [Next]_vars, NEW d \in trash', d \notin trash PROVE Kept(d)
    OBVIOUS
  <2>1. PICK t \in Tasks : tpc[t] = "clean" /\ job[t].replaces \in Ids /\ d = job[t].replaces
    BY TrashSteps DEF IInv
  <2>2. d \in Ids /\ drafts[d] # None /\ KeptIn(d, drafts, delivered, crossed, trash)
    BY <2>1 DEF IInv, Finishing, Origins, OpenedIn, Ids
  <2>3. ASSUME NEW e \in Ids, e > d, e \notin trash, drafts[e] = drafts[d] PROVE Kept(d)
    BY <2>2, <2>3 DEF OpenDrafts, Ids
  <2> QED
    BY <2>2, <2>3 DEF KeptIn
<1>2. ([][A]_vars) => DraftOutlivesMail
  BY DEF DraftOutlivesMail
<1> QED
  BY <1>1, <1>2, ComposeIInvAlways, PTL DEF Spec

=============================================================================
