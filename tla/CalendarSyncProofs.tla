------------------------- MODULE CalendarSyncProofs -------------------------
(***************************************************************************)
(* Proofs about CalendarSync, for any devices, events and bounds: the      *)
(* folder keeps the newest revision of each event, a run cancels nothing   *)
(* without cause, and one that is not disturbed keeps the edits.           *)
(***************************************************************************)
EXTENDS CalendarSync, FiniteSetTheorems, WellFoundedInduction, TLAPS

USE CalendarSyncAssumption DEF CalendarSyncAssumption, Unpublished

-----------------------------------------------------------------------------
(***************************************************************************)
(* The inductive invariant.                                                *)
(***************************************************************************)

\* Rows and messages after n commands.
RowsUpTo(n) ==
    {r \in [seq : 0..n, ver : 1..n, st : Statuses, pub : Unpublished..n] : r.pub <= r.seq}
MsgsUpTo(n) == [uid : Uids, id : 1..MaxMsgs, seq : 0..n, ver : 1..n, st : Statuses]

\* Tables, runs and commands after n commands.
Tables(n) == [Uids -> RowsUpTo(n) \cup {NoRow}]
Cmds(n) == {NoCmd} \cup [uid : Uids, row : RowsUpTo(n)]
Runs(n) ==
    [pc : {"idle", "listed", "apply", "persist", "copy", "delete"},
     winners : [Uids -> MsgsUpTo(n) \cup {NoMsg}], whole : BOOLEAN, locals : Tables(n),
     todo : SUBSET Uids, moving : SUBSET MsgsUpTo(n), at : Uids \cup {Nothing},
     dirty : BOOLEAN]

\* Every variable has its type, and nothing is newer than the commands so far.
Typed ==
    /\ edits \in 0..MaxEdits
    /\ sent \subseteq MsgsUpTo(edits)
    /\ folder \subseteq sent /\ archive \subseteq sent /\ removed \subseteq sent
    /\ rows \in [Devices -> Tables(edits)]
    /\ run \in [Devices -> Runs(edits)]
    /\ cmd \in [Devices -> Cmds(edits)]

\* A run that is about to persist has published a row of its copy.
AtOK ==
    \A d \in Devices : run[d].pc = "persist" =>
        /\ run[d].at \in Uids \ run[d].todo
        /\ run[d].locals[run[d].at] # NoRow

\* Messages are numbered in the order they came.
Numbered ==
    /\ IsFiniteSet(sent)
    /\ \A m \in sent : m.id <= Cardinality(sent)
    /\ \A m, n \in sent : m.id = n.id => m = n

\* What a run takes for the winner of an event is a message of that event.
WinnersSent ==
    \A d \in Devices, u \in Uids :
        run[d].winners[u] # NoMsg => run[d].winners[u] \in {m \in sent : m.uid = u}

\* A newer revision of the event of m was sent.
Outdone(m) == \E n \in sent : n.uid = m.uid /\ Weight(n) > Weight(m)

\* Compaction only takes away, and only means to take away, what is outdone,
\* and deletes only what it has copied.
Compaction ==
    /\ sent \subseteq folder \cup archive \cup removed
    /\ \A m \in sent \ (folder \cup removed) : Outdone(m)
    /\ \A d \in Devices : \A m \in run[d].moving : m \in sent /\ Outdone(m)
    /\ \A d \in Devices : run[d].pc = "delete" => run[d].moving \cap folder \subseteq archive

\* Event u was sent once, its messages were once deleted by hand, a row of it
\* claims that it was published.
WasSent(u) == \E m \in sent : m.uid = u
WasRemoved(u) == \E m \in removed : m.uid = u
Published(r) == r # NoRow /\ r.pub # Unpublished

\* Only events that were sent are marked as published: in the table, in the copy
\* of a run, in the row of a command; and so is the one a run has just published.
TableWasSent == \A d \in Devices, u \in Uids : Published(rows[d][u]) => WasSent(u)
CopyWasSent == \A d \in Devices, u \in Uids : Published(run[d].locals[u]) => WasSent(u)
CmdWasSent ==
    \A d \in Devices : cmd[d] # NoCmd /\ Published(cmd[d].row) => WasSent(cmd[d].uid)
AtWasSent == \A d \in Devices : run[d].pc = "persist" => WasSent(run[d].at)
PublishedWasSent == TableWasSent /\ CopyWasSent /\ CmdWasSent /\ AtWasSent

\* Run d, which has a whole list of the folder, has found no message of u in it.
FoundNone(d, u) == run[d].whole /\ run[d].winners[u] = NoMsg

\* A published event that a whole list did not show was deleted by hand.
TableVanished ==
    \A d \in Devices, u \in Uids :
        run[d].pc = "listed" /\ FoundNone(d, u) /\ Published(rows[d][u]) => WasRemoved(u)
CmdVanished ==
    \A d \in Devices, u \in Uids :
        run[d].pc = "listed" /\ FoundNone(d, u)
            /\ cmd[d] # NoCmd /\ cmd[d].uid = u /\ Published(cmd[d].row) => WasRemoved(u)
CopyVanished ==
    \A d \in Devices, u \in Uids :
        run[d].pc \in {"apply", "persist"} /\ FoundNone(d, u)
            /\ u \in run[d].todo /\ Published(run[d].locals[u]) => WasRemoved(u)
VanishedWasRemoved == TableVanished /\ CmdVanished /\ CopyVanished

\* As long as no command writes, the copy a run works with is the table, and
\* the row it has just published has the same content there.
TodoCurrent ==
    \A d \in Devices, u \in Uids :
        run[d].pc \in {"apply", "persist"} /\ ~run[d].dirty /\ u \in run[d].todo
        => rows[d][u] = run[d].locals[u]
AtCurrent ==
    \A d \in Devices : run[d].pc = "persist" /\ ~run[d].dirty =>
        LET u == run[d].at IN
        rows[d][u] # NoRow /\ rows[d][u].ver = run[d].locals[u].ver
CopyCurrent == TodoCurrent /\ AtCurrent

IInv ==
    /\ Typed /\ AtOK /\ Numbered /\ WinnersSent /\ Compaction
    /\ PublishedWasSent /\ VanishedWasRemoved /\ CopyCurrent

-----------------------------------------------------------------------------
(***************************************************************************)
(* The newest message of an event.                                         *)
(***************************************************************************)

\* A set of natural numbers that is not empty has a least element.
LEMMA LeastNatural ==
    ASSUME NEW S \in SUBSET Nat, S # {}
    PROVE  \E x \in S : \A y \in S : x <= y
<1>1. PICK x \in S : \A y \in S : ~(<<y, x>> \in OpToRel(<, Nat))
  BY NatLessThanWellFounded, WFMin
<1>2. \A y \in S : ~(y < x)
  BY <1>1 DEF OpToRel
<1> QED
  BY <1>2

\* Weights are natural numbers below a common bound.
LEMMA WeightBound ==
    ASSUME NEW m \in Msg
    PROVE  /\ Weight(m) \in Nat
           /\ Weight(m) <= MaxEdits * (MaxMsgs + 1) + MaxMsgs
<1>1. m.seq \in 0..MaxEdits /\ m.id \in 1..MaxMsgs
  BY DEF Msg
<1>2. m.seq * (MaxMsgs + 1) \in Nat /\ m.seq * (MaxMsgs + 1) <= MaxEdits * (MaxMsgs + 1)
  BY <1>1
<1>3. MaxEdits * (MaxMsgs + 1) \in Nat
  OBVIOUS
<1> QED
  BY <1>1, <1>2, <1>3 DEF Weight

\* Two messages of one weight have the same number.
LEMMA WeightTellsId ==
    ASSUME NEW m \in Msg, NEW n \in Msg, Weight(m) = Weight(n)
    PROVE  m.id = n.id
<1>1. /\ m.seq \in Nat /\ m.id \in 1..MaxMsgs
      /\ n.seq \in Nat /\ n.id \in 1..MaxMsgs
  BY DEF Msg
<1>2. ASSUME NEW a \in Nat, NEW b \in Nat, a < b
      PROVE  a * (MaxMsgs + 1) + MaxMsgs + 1 <= b * (MaxMsgs + 1)
  <2>1. PICK c \in Nat : b = a + 1 + c
    <3>1. b - a - 1 \in Nat /\ b = a + 1 + (b - a - 1)
      BY <1>2
    <3> QED
      BY <3>1
  <2>2. b * (MaxMsgs + 1) = a * (MaxMsgs + 1) + (MaxMsgs + 1) + c * (MaxMsgs + 1)
    BY <2>1
  <2>3. c * (MaxMsgs + 1) \in Nat /\ a * (MaxMsgs + 1) \in Nat
    OBVIOUS
  <2> QED
    BY <2>2, <2>3
<1> DEFINE A == m.seq * (MaxMsgs + 1)
           B == n.seq * (MaxMsgs + 1)
<1>3. A \in Nat /\ B \in Nat
  BY <1>1
<1>4. A + m.id = B + n.id
  BY DEF Weight
<1>5. m.seq < n.seq => A + MaxMsgs + 1 <= B
  BY <1>1, <1>2
<1>6. n.seq < m.seq => B + MaxMsgs + 1 <= A
  BY <1>1, <1>2
<1>7. m.seq = n.seq => A = B
  OBVIOUS
<1> HIDE DEF A, B
<1> QED
  BY <1>1, <1>3, <1>4, <1>5, <1>6, <1>7

\* Some message of a set that is not empty has the greatest weight.
LEMMA HeaviestExists ==
    ASSUME NEW S \in SUBSET Msg, S # {}
    PROVE  \E m \in S : \A n \in S : Weight(n) <= Weight(m)
<1> DEFINE B == MaxEdits * (MaxMsgs + 1) + MaxMsgs
           T == {B - Weight(m) : m \in S}
<1>1. B \in Nat
  OBVIOUS
<1>2. \A m \in S : Weight(m) \in Nat /\ Weight(m) <= B
  BY WeightBound
<1> HIDE DEF B
<1>3. T \in SUBSET Nat /\ T # {}
  BY <1>1, <1>2
<1>4. PICK x \in T : \A y \in T : x <= y
  <2> HIDE DEF T
  <2> QED
    BY <1>3, LeastNatural
<1>5. PICK m \in S : x = B - Weight(m)
  BY <1>4
<1>6. \A n \in S : B - Weight(m) <= B - Weight(n)
  BY <1>4, <1>5
<1> QED
  BY <1>1, <1>2, <1>5, <1>6

\* What Newest returns.
LEMMA NewestIs ==
    ASSUME NEW S \in SUBSET Msg, NEW u
    PROVE  /\ Newest(S, u) = NoMsg <=> \A m \in S : m.uid # u
           /\ Newest(S, u) # NoMsg =>
                 /\ Newest(S, u) \in S /\ Newest(S, u).uid = u
                 /\ \A m \in S : m.uid = u => Weight(m) <= Weight(Newest(S, u))
<1> DEFINE of == {m \in S : m.uid = u}
<1>1. CASE of = {}
  BY <1>1 DEF Newest
<1>2. CASE of # {}
  <2>1. Newest(S, u) = CHOOSE m \in of : \A n \in of : Weight(n) <= Weight(m)
    BY <1>2 DEF Newest, Max
  <2>2. \E m \in of : \A n \in of : Weight(n) <= Weight(m)
    BY <1>2, HeaviestExists
  <2>3. Newest(S, u) \in of /\ \A n \in of : Weight(n) <= Weight(Newest(S, u))
    BY <2>1, <2>2
  <2>4. NoMsg \notin of
    OBVIOUS
  <2> QED
    BY <2>3, <2>4
<1> QED
  BY <1>1, <1>2

-----------------------------------------------------------------------------
(***************************************************************************)
(* Type correctness.                                                       *)
(***************************************************************************)

\* What there is after m commands can also be there after more.
LEMMA UpToGrows ==
    ASSUME NEW m \in Nat, NEW n \in Nat, m <= n
    PROVE  /\ RowsUpTo(m) \subseteq RowsUpTo(n) /\ MsgsUpTo(m) \subseteq MsgsUpTo(n)
           /\ Tables(m) \subseteq Tables(n) /\ Cmds(m) \subseteq Cmds(n)
           /\ Runs(m) \subseteq Runs(n)
<1>1. RowsUpTo(m) \subseteq RowsUpTo(n)
  BY DEF RowsUpTo
<1>2. MsgsUpTo(m) \subseteq MsgsUpTo(n)
  BY DEF MsgsUpTo
<1>3. Tables(m) \subseteq Tables(n)
  BY <1>1 DEF Tables
<1>4. Cmds(m) \subseteq Cmds(n)
  BY <1>1 DEF Cmds
<1> QED
  BY <1>1, <1>2, <1>3, <1>4 DEF Runs

\* The bounds of the types.
LEMMA UpToBounds ==
    ASSUME NEW n \in 0..MaxEdits
    PROVE  /\ RowsUpTo(n) \subseteq Row /\ MsgsUpTo(n) \subseteq Msg
           /\ NoRow \notin RowsUpTo(n) /\ NoMsg \notin MsgsUpTo(n)
BY DEF RowsUpTo, MsgsUpTo, Row, Msg

\* What a run writes: a row that was published, cancelled or stamped, and the
\* row of a message, are rows; the message of a row is a message.
LEMMA Written ==
    ASSUME NEW n \in 0..MaxEdits
    PROVE  /\ \A m \in MsgsUpTo(n) : AsRow(m) \in RowsUpTo(n)
           /\ \A l \in RowsUpTo(n), r \in MsgsUpTo(n) \cup {NoMsg} :
                 /\ ToPublish(r, l) \in RowsUpTo(n)
                 /\ ToPublish(r, l).ver = l.ver
                 /\ [l EXCEPT !.pub = l.seq] \in RowsUpTo(n)
                 /\ [l EXCEPT !.pub = l.seq].ver = l.ver
                 /\ [l EXCEPT !.st = "CANCELLED"] \in RowsUpTo(n)
                 /\ [l EXCEPT !.st = "CANCELLED"].ver = l.ver
           /\ \A l \in RowsUpTo(n), u \in Uids, id \in 1..MaxMsgs :
                 AsMessage(u, id, l) \in MsgsUpTo(n)
BY DEF RowsUpTo, MsgsUpTo, AsRow, ToPublish, AsMessage, Statuses

\* What a command writes.
LEMMA Commanded ==
    ASSUME NEW n \in Nat, n = edits + 1, edits \in Nat
    PROVE  /\ FromForm \in RowsUpTo(n) /\ FromForm.pub = Unpublished
           /\ \A seq \in 0..1, st \in Statuses :
                 FromIcs(seq, st) \in RowsUpTo(n) /\ FromIcs(seq, st).pub = Unpublished
           /\ \A r \in RowsUpTo(edits) : \A q \in Edited(r) :
                 q \in RowsUpTo(n) /\ q.pub = r.pub
<1>1. FromForm \in RowsUpTo(n) /\ FromForm.pub = Unpublished
  BY DEF FromForm, FromIcs, RowsUpTo, Statuses
<1>2. ASSUME NEW seq \in 0..1, NEW st \in Statuses
      PROVE  FromIcs(seq, st) \in RowsUpTo(n) /\ FromIcs(seq, st).pub = Unpublished
  BY DEF FromIcs, RowsUpTo
<1>3. ASSUME NEW r \in RowsUpTo(edits), NEW q \in Edited(r)
      PROVE  q \in RowsUpTo(n) /\ q.pub = r.pub
  <2>1. /\ r \in [seq : 0..edits, ver : 1..edits, st : Statuses, pub : Unpublished..edits]
        /\ r.pub <= r.seq
    BY DEF RowsUpTo
  <2> DEFINE U == [r EXCEPT !.seq = @ + 1, !.ver = edits + 1, !.st = "CONFIRMED"]
             C == [r EXCEPT !.seq = @ + 1, !.st = "CANCELLED"]
             I == [r EXCEPT !.seq = @ + 1, !.ver = edits + 1]
             A == [r EXCEPT !.ver = edits + 1]
  <2>a. /\ r \in [seq : 0..n, ver : 1..n, st : Statuses, pub : Unpublished..n]
        /\ r.seq + 1 \in 0..n /\ edits + 1 \in 1..n
        /\ {"CONFIRMED", "CANCELLED"} \subseteq Statuses
    BY <2>1 DEF Statuses
  <2>2. q \in {U, C, I, A}
    BY DEF Edited, Updated, Deleted, Invited, Replied
  <2>3. /\ U \in [seq : 0..n, ver : 1..n, st : Statuses, pub : Unpublished..n]
        /\ U.pub = r.pub /\ U.seq = r.seq + 1
    BY <2>a
  <2>4. /\ C \in [seq : 0..n, ver : 1..n, st : Statuses, pub : Unpublished..n]
        /\ C.pub = r.pub /\ C.seq = r.seq + 1
    BY <2>a
  <2>5. /\ I \in [seq : 0..n, ver : 1..n, st : Statuses, pub : Unpublished..n]
        /\ I.pub = r.pub /\ I.seq = r.seq + 1
    BY <2>a
  <2>6. /\ A \in [seq : 0..n, ver : 1..n, st : Statuses, pub : Unpublished..n]
        /\ A.pub = r.pub /\ A.seq = r.seq
    BY <2>a
  <2> HIDE DEF U, C, I, A
  <2>7. r.seq \in Nat /\ r.pub \in Int
    BY <2>1
  <2> QED
    BY <2>1, <2>2, <2>3, <2>4, <2>5, <2>6, <2>7 DEF RowsUpTo
<1> QED
  BY <1>1, <1>2, <1>3

\* Writing one row.
LEMMA UpsertKeeps ==
    ASSUME NEW n, rows \in [Devices -> Tables(n)],
           NEW d \in Devices, NEW u \in Uids, NEW r \in RowsUpTo(n), Upsert(d, u, r)
    PROVE  /\ rows' \in [Devices -> Tables(n)]
           /\ \A e \in Devices, v \in Uids :
                 rows'[e][v] = IF e = d /\ v = u THEN r ELSE rows[e][v]
BY DEF Upsert, Tables

\* A command that writes tells the run of its device.
LEMMA SoilKeeps ==
    ASSUME NEW n, run \in [Devices -> Runs(n)], NEW d \in Devices, run' = Soil(d)
    PROVE  /\ run' \in [Devices -> Runs(n)]
           /\ \A e \in Devices :
                 /\ run'[e].pc = run[e].pc /\ run'[e].winners = run[e].winners
                 /\ run'[e].whole = run[e].whole /\ run'[e].locals = run[e].locals
                 /\ run'[e].todo = run[e].todo /\ run'[e].moving = run[e].moving
                 /\ run'[e].at = run[e].at
                 /\ run[e].dirty => run'[e].dirty
                 /\ e # d => run'[e] = run[e]
           /\ run[d].pc \in {"apply", "persist"} => run'[d].dirty
<1>1. run[d] \in Runs(n)
  OBVIOUS
<1>2. run' = [run EXCEPT ![d] = [run[d] EXCEPT
                 !.dirty = run[d].dirty \/ run[d].pc \in {"apply", "persist"}]]
  BY DEF Soil
<1>3. /\ run'[d] = [run[d] EXCEPT
                      !.dirty = run[d].dirty \/ run[d].pc \in {"apply", "persist"}]
      /\ \A e \in Devices : e # d => run'[e] = run[e]
  BY <1>2
<1>4. /\ run'[d] \in Runs(n)
      /\ run'[d].pc = run[d].pc /\ run'[d].winners = run[d].winners
      /\ run'[d].whole = run[d].whole /\ run'[d].locals = run[d].locals
      /\ run'[d].todo = run[d].todo /\ run'[d].moving = run[d].moving
      /\ run'[d].at = run[d].at
      /\ run'[d].dirty = (run[d].dirty \/ run[d].pc \in {"apply", "persist"})
  BY <1>1, <1>3 DEF Runs
<1>5. run' \in [Devices -> Runs(n)]
  BY <1>2, <1>4
<1> QED
  BY <1>3, <1>4, <1>5

\* A run that takes a step.
LEMMA AdvanceKeeps ==
    ASSUME NEW n, run \in [Devices -> Runs(n)],
           NEW d \in Devices, NEW r \in Runs(n), Advance(d, r)
    PROVE  /\ run' \in [Devices -> Runs(n)]
           /\ run'[d] = r /\ \A e \in Devices : e # d => run'[e] = run[e]
BY DEF Advance

\* No run is idle with anything in its hands.
LEMMA IdleIsRun == ASSUME NEW n PROVE Idle \in Runs(n)
BY DEF Idle, Runs, Tables, NoTable

\* Row u of device d becomes r, the run of d becomes r, a command tells run d.
Wrote(d, u, r) ==
    \A e \in Devices, v \in Uids :
        rows'[e][v] = IF e = d /\ v = u THEN r ELSE rows[e][v]
Stepped(d, r) == run'[d] = r /\ \A e \in Devices : e # d => run'[e] = run[e]
Soiled(d) ==
    /\ \A e \in Devices :
          /\ run'[e].pc = run[e].pc /\ run'[e].winners = run[e].winners
          /\ run'[e].whole = run[e].whole /\ run'[e].locals = run[e].locals
          /\ run'[e].todo = run[e].todo /\ run'[e].moving = run[e].moving
          /\ run'[e].at = run[e].at
          /\ run[e].dirty => run'[e].dirty
          /\ e # d => run'[e] = run[e]
    /\ run[d].pc \in {"apply", "persist"} => run'[d].dirty

\* One more command: what there was is still typed.
LEMMA EditKeepsType ==
    ASSUME Typed, NewEdit
    PROVE  /\ edits' = edits + 1 /\ edits' \in 0..MaxEdits /\ edits \in Nat
           /\ sent \subseteq MsgsUpTo(edits')
           /\ rows \in [Devices -> Tables(edits')]
           /\ run \in [Devices -> Runs(edits')]
           /\ cmd \in [Devices -> Cmds(edits')]
<1>1. edits' = edits + 1 /\ edits' \in 0..MaxEdits /\ edits \in Nat
  BY DEF Typed, NewEdit
<1>2. /\ RowsUpTo(edits) \subseteq RowsUpTo(edits') /\ MsgsUpTo(edits) \subseteq MsgsUpTo(edits')
      /\ Tables(edits) \subseteq Tables(edits') /\ Cmds(edits) \subseteq Cmds(edits')
      /\ Runs(edits) \subseteq Runs(edits')
  BY <1>1, UpToGrows
<1> QED
  BY <1>1, <1>2 DEF Typed

\* A new event, from the form or from a file: a row that was never published.
LEMMA NewRowStep ==
    ASSUME Typed, NEW d \in Devices, NEW u \in Uids, Create(d, u) \/ Import(d, u)
    PROVE  /\ Typed'
           /\ \E r : r.pub = Unpublished /\ r # NoRow /\ Wrote(d, u, r)
           /\ Soiled(d) /\ UNCHANGED <<server, cmd>>
<1>1. NewEdit /\ run' = Soil(d) /\ UNCHANGED <<server, cmd, faults>>
  BY DEF Create, Import
<1>2. PICK r \in RowsUpTo(edits + 1) : r.pub = Unpublished /\ Upsert(d, u, r)
  <2>1. edits \in Nat /\ edits + 1 \in Nat
    BY DEF Typed
  <2>2. CASE Create(d, u)
    BY <2>1, <2>2, Commanded DEF Create
  <2>3. CASE Import(d, u)
    BY <2>1, <2>3, Commanded DEF Import
  <2> QED
    BY <2>2, <2>3
<1>3. /\ edits' = edits + 1 /\ edits' \in 0..MaxEdits
      /\ sent \subseteq MsgsUpTo(edits')
      /\ rows \in [Devices -> Tables(edits')]
      /\ run \in [Devices -> Runs(edits')]
      /\ cmd \in [Devices -> Cmds(edits')]
  BY <1>1, EditKeepsType
<1>4. rows' \in [Devices -> Tables(edits')] /\ Wrote(d, u, r)
  BY <1>2, <1>3, UpsertKeeps DEF Wrote
<1>5. run' \in [Devices -> Runs(edits')] /\ Soiled(d)
  BY <1>1, <1>3, SoilKeeps DEF Soiled
<1>6. r # NoRow
  BY <1>2, <1>3, UpToBounds
<1> QED
  BY <1>1, <1>2, <1>3, <1>4, <1>5, <1>6 DEF Typed, server

\* A command reads a row: what it will write was published if the row was.
LEMMA ReadForEditStep ==
    ASSUME Typed, NEW d \in Devices, NEW u \in Uids, ReadForEdit(d, u)
    PROVE  /\ Typed'
           /\ rows[d][u] # NoRow
           /\ cmd'[d].uid = u /\ cmd'[d].row.pub = rows[d][u].pub /\ cmd'[d] # NoCmd
           /\ \A e \in Devices : e # d => cmd'[e] = cmd[e]
           /\ UNCHANGED <<server, rows, run>>
<1>1. /\ NewEdit /\ rows[d][u] # NoRow
      /\ UNCHANGED <<server, rows, run, faults>>
  BY DEF ReadForEdit
<1>2. PICK r \in Edited(rows[d][u]) : cmd' = [cmd EXCEPT ![d] = [uid |-> u, row |-> r]]
  BY DEF ReadForEdit
<1>3. /\ edits' = edits + 1 /\ edits' \in 0..MaxEdits /\ edits \in Nat
      /\ sent \subseteq MsgsUpTo(edits')
      /\ rows \in [Devices -> Tables(edits')]
      /\ run \in [Devices -> Runs(edits')]
      /\ cmd \in [Devices -> Cmds(edits')]
  BY <1>1, EditKeepsType
<1>4. rows[d][u] \in RowsUpTo(edits)
  BY <1>1 DEF Typed, Tables
<1>5. r \in RowsUpTo(edits') /\ r.pub = rows[d][u].pub
  BY <1>2, <1>3, <1>4, Commanded
<1>6. [uid |-> u, row |-> r] \in Cmds(edits')
  BY <1>5 DEF Cmds
<1>7. cmd' \in [Devices -> Cmds(edits')] /\ cmd'[d] = [uid |-> u, row |-> r]
  BY <1>2, <1>3, <1>6
<1>8. cmd'[d] # NoCmd
  <2>1. r # NoRow
    BY <1>3, <1>5, UpToBounds
  <2> QED
    BY <1>7, <2>1 DEF NoCmd
<1>9. \A e \in Devices : e # d => cmd'[e] = cmd[e]
  BY <1>2, <1>3
<1> QED
  BY <1>1, <1>3, <1>5, <1>7, <1>8, <1>9 DEF Typed, server

\* A command writes, and the run of its device loses its right to its copy.
LEMMA WriteEditStep ==
    ASSUME Typed, NEW d \in Devices, WriteEdit(d)
    PROVE  /\ Typed'
           /\ cmd[d] # NoCmd /\ cmd[d].uid \in Uids /\ cmd[d].row # NoRow
           /\ Wrote(d, cmd[d].uid, cmd[d].row)
           /\ cmd'[d] = NoCmd /\ \A e \in Devices : e # d => cmd'[e] = cmd[e]
           /\ Soiled(d) /\ UNCHANGED server
<1>1. /\ cmd[d] # NoCmd /\ Upsert(d, cmd[d].uid, cmd[d].row)
      /\ cmd' = [cmd EXCEPT ![d] = NoCmd] /\ run' = Soil(d)
      /\ UNCHANGED <<server, edits, faults>>
  BY DEF WriteEdit
<1>2. cmd[d].uid \in Uids /\ cmd[d].row \in RowsUpTo(edits)
  BY <1>1 DEF Typed, Cmds
<1>3. /\ cmd[d].row # NoRow
      /\ rows \in [Devices -> Tables(edits)] /\ run \in [Devices -> Runs(edits)]
  BY <1>2, UpToBounds DEF Typed
<1>4. rows' \in [Devices -> Tables(edits)] /\ Wrote(d, cmd[d].uid, cmd[d].row)
  BY <1>1, <1>2, <1>3, UpsertKeeps DEF Wrote
<1>5. run' \in [Devices -> Runs(edits)] /\ Soiled(d)
  BY <1>1, <1>3, SoilKeeps DEF Soiled
<1>6. /\ cmd' \in [Devices -> Cmds(edits)]
      /\ cmd'[d] = NoCmd /\ \A e \in Devices : e # d => cmd'[e] = cmd[e]
  BY <1>1 DEF Typed, Cmds
<1> QED
  BY <1>1, <1>2, <1>3, <1>4, <1>5, <1>6 DEF Typed, server

\* A run that takes a step, in a typed state, to a typed record.
LEMMA StepKeepsType ==
    ASSUME Typed, NEW d \in Devices, NEW r \in Runs(edits), Advance(d, r), UNCHANGED edits
    PROVE  run' \in [Devices -> Runs(edits')] /\ Stepped(d, r)
BY AdvanceKeeps DEF Typed, Stepped

\* Every message that was sent is one.
LEMMA SentAreMsgs == ASSUME Typed PROVE sent \subseteq Msg /\ MsgsUpTo(edits) \subseteq Msg
BY UpToBounds DEF Typed

\* A run lists the folder.
LEMMA ListStep ==
    ASSUME Typed, NEW d \in Devices, List(d)
    PROVE  /\ Typed'
           /\ \E seen \in SUBSET folder :
                 /\ run'[d].pc = "listed" /\ run'[d].moving = {}
                 /\ run'[d].winners = Winners(seen) /\ run'[d].whole = (seen = folder)
                 /\ run'[d].locals = NoTable
           /\ \A e \in Devices : e # d => run'[e] = run[e]
           /\ UNCHANGED <<server, rows, cmd>>
<1>1. PICK seen \in SUBSET folder :
        Advance(d, [Idle EXCEPT !.pc = "listed", !.winners = Winners(seen),
                                !.whole = seen = folder])
  BY DEF List
<1> DEFINE r == [Idle EXCEPT !.pc = "listed", !.winners = Winners(seen),
                             !.whole = seen = folder]
<1>2. Winners(seen) \in [Uids -> MsgsUpTo(edits) \cup {NoMsg}]
  <2>1. seen \in SUBSET Msg /\ seen \subseteq MsgsUpTo(edits)
    BY SentAreMsgs DEF Typed
  <2> QED
    BY <2>1, NewestIs DEF Winners
<1>3. /\ r \in Runs(edits)
      /\ r.pc = "listed" /\ r.winners = Winners(seen) /\ r.whole = (seen = folder)
      /\ r.moving = {} /\ r.locals = NoTable
  BY <1>2, IdleIsRun DEF Runs, Idle
<1>4. UNCHANGED <<server, rows, cmd, edits>>
  BY DEF List
<1> HIDE DEF r
<1>5. run' \in [Devices -> Runs(edits')] /\ Stepped(d, r)
  BY <1>1, <1>3, <1>4, StepKeepsType DEF r
<1> QED
  BY <1>3, <1>4, <1>5 DEF Typed, server, Stepped

\* A run reads the table.
LEMMA ReadTableStep ==
    ASSUME Typed, NEW d \in Devices, ReadTable(d)
    PROVE  /\ Typed'
           /\ run[d].pc = "listed"
           /\ run'[d].pc = "apply" /\ run'[d].locals = rows[d]
           /\ run'[d].todo = {u \in Uids : rows[d][u] # NoRow \/ run[d].winners[u] # NoMsg}
           /\ run'[d].winners = run[d].winners /\ run'[d].whole = run[d].whole
           /\ run'[d].moving = run[d].moving
           /\ \A e \in Devices : e # d => run'[e] = run[e]
           /\ UNCHANGED <<server, rows, cmd>>
<1> DEFINE todo == {u \in Uids : rows[d][u] # NoRow \/ run[d].winners[u] # NoMsg}
           r == [run[d] EXCEPT !.pc = "apply", !.locals = rows[d], !.todo = todo]
<1>1. /\ run[d].pc = "listed" /\ Advance(d, r)
      /\ UNCHANGED <<server, rows, cmd, edits, faults>>
  BY DEF ReadTable
<1>2. run[d] \in Runs(edits) /\ rows[d] \in Tables(edits) /\ todo \in SUBSET Uids
  BY DEF Typed
<1>3. /\ r \in Runs(edits)
      /\ r.pc = "apply" /\ r.locals = rows[d] /\ r.todo = todo
      /\ r.winners = run[d].winners /\ r.whole = run[d].whole /\ r.moving = run[d].moving
  BY <1>2 DEF Runs
<1> HIDE DEF r
<1>4. run' \in [Devices -> Runs(edits')] /\ Stepped(d, r)
  BY <1>1, <1>3, StepKeepsType
<1> QED
  BY <1>1, <1>3, <1>4 DEF Typed, server, Stepped

\* The run goes on to the other events.
WentOn(d, u) ==
    /\ run'[d].pc = "apply" /\ run'[d].todo = run[d].todo \ {u}
    /\ run'[d].winners = run[d].winners /\ run'[d].whole = run[d].whole
    /\ run'[d].locals = run[d].locals /\ run'[d].moving = run[d].moving
    /\ run'[d].dirty = run[d].dirty
    /\ \A e \in Devices : e # d => run'[e] = run[e]

\* A run goes on after an event.
LEMMA DoneStep ==
    ASSUME Typed, NEW d \in Devices, NEW u \in Uids, Pending(d, u),
           Advance(d, Done(d, u)), UNCHANGED edits
    PROVE  run' \in [Devices -> Runs(edits')] /\ WentOn(d, u)
<1>1. run[d] \in Runs(edits) /\ run[d].pc = "apply"
  BY DEF Typed, Pending
<1> DEFINE r == Done(d, u)
<1>2. /\ r \in Runs(edits)
      /\ r.pc = "apply" /\ r.todo = run[d].todo \ {u}
      /\ r.winners = run[d].winners /\ r.whole = run[d].whole
      /\ r.locals = run[d].locals /\ r.moving = run[d].moving
      /\ r.dirty = run[d].dirty
  BY <1>1 DEF Done, Runs
<1> HIDE DEF r
<1>3. run' \in [Devices -> Runs(edits')] /\ Stepped(d, r)
  BY <1>2, StepKeepsType DEF r
<1> QED
  BY <1>2, <1>3 DEF Stepped, WentOn

\* What a run holds of an event.
LEMMA Held ==
    ASSUME Typed, NEW d \in Devices, NEW u \in Uids
    PROVE  /\ run[d].winners[u] \in MsgsUpTo(edits) \cup {NoMsg}
           /\ run[d].locals[u] \in RowsUpTo(edits) \cup {NoRow}
           /\ rows[d][u] \in RowsUpTo(edits) \cup {NoRow}
           /\ NoRow \notin RowsUpTo(edits) /\ NoMsg \notin MsgsUpTo(edits)
           /\ edits \in 0..MaxEdits
<1>1. run[d].winners \in [Uids -> MsgsUpTo(edits) \cup {NoMsg}]
  BY DEF Typed, Runs
<1>2. run[d].locals \in Tables(edits) /\ rows[d] \in Tables(edits)
  BY DEF Typed, Runs
<1>3. edits \in 0..MaxEdits
  BY DEF Typed
<1> QED
  BY <1>1, <1>2, <1>3, UpToBounds DEF Tables

\* Three of the four outcomes for an event: the table gets a row or stays.
LEMMA WroteStep ==
    ASSUME Typed, NEW d \in Devices, NEW u \in Uids, NEW q \in RowsUpTo(edits),
           Pending(d, u), Upsert(d, u, q), Advance(d, Done(d, u)),
           UNCHANGED <<server, cmd, edits>>
    PROVE  Typed' /\ Wrote(d, u, q) /\ WentOn(d, u)
<1>1. rows' \in [Devices -> Tables(edits)] /\ Wrote(d, u, q)
  <2>1. rows \in [Devices -> Tables(edits)]
    BY DEF Typed
  <2> QED
    BY <2>1, UpsertKeeps DEF Wrote
<1>2. run' \in [Devices -> Runs(edits')] /\ WentOn(d, u)
  BY DoneStep
<1> QED
  BY <1>1, <1>2 DEF Typed, server

\* A newer message is imported.
LEMMA ImportRemoteStep ==
    ASSUME Typed, NEW d \in Devices, NEW u \in Uids, ImportRemote(d, u)
    PROVE  /\ Typed' /\ Pending(d, u)
           /\ run[d].winners[u] # NoMsg
           /\ run[d].locals[u] # NoRow => run[d].winners[u].seq > run[d].locals[u].seq
           /\ Wrote(d, u, AsRow(run[d].winners[u])) /\ WentOn(d, u)
           /\ UNCHANGED <<server, cmd>>
<1>1. /\ Pending(d, u) /\ run[d].winners[u] # NoMsg
      /\ run[d].locals[u] # NoRow => run[d].winners[u].seq > run[d].locals[u].seq
      /\ Upsert(d, u, AsRow(run[d].winners[u])) /\ Advance(d, Done(d, u))
      /\ UNCHANGED <<server, cmd, edits, faults>>
  BY DEF ImportRemote
<1>2. AsRow(run[d].winners[u]) \in RowsUpTo(edits)
  BY <1>1, Held, Written
<1> QED
  BY <1>1, <1>2, WroteStep

\* A row whose message vanished is cancelled; its content stays.
LEMMA CancelVanishedStep ==
    ASSUME Typed, NEW d \in Devices, NEW u \in Uids, CancelVanished(d, u)
    PROVE  /\ Typed' /\ Pending(d, u)
           /\ run[d].winners[u] = NoMsg /\ run[d].locals[u] # NoRow
           /\ Published(run[d].locals[u])
           /\ \E q : /\ q # NoRow /\ q.ver = run[d].locals[u].ver
                    /\ Wrote(d, u, q)
           /\ WentOn(d, u)
           /\ UNCHANGED <<server, cmd>>
<1> DEFINE l == run[d].locals[u]
           q == [l EXCEPT !.st = "CANCELLED"]
<1>1. /\ Pending(d, u) /\ run[d].winners[u] = NoMsg /\ l # NoRow
      /\ ~LocalNewer(NoMsg, l)
      /\ Upsert(d, u, q) /\ Advance(d, Done(d, u))
      /\ UNCHANGED <<server, cmd, edits, faults>>
  BY DEF CancelVanished
<1>2. q \in RowsUpTo(edits) /\ q.ver = l.ver
  BY <1>1, Held, Written
<1>3. Published(l)
  BY <1>1 DEF LocalNewer, Published
<1> HIDE DEF q
<1> QED
  BY <1>1, <1>2, <1>3, Held, WroteStep

\* Equal SEQUENCE: the row is stamped at most; its content stays.
LEMMA StampTieStep ==
    ASSUME Typed, NEW d \in Devices, NEW u \in Uids, StampTie(d, u)
    PROVE  /\ Typed' /\ Pending(d, u)
           /\ run[d].winners[u] # NoMsg /\ run[d].locals[u] # NoRow
           /\ \/ UNCHANGED rows
              \/ \E q : q # NoRow /\ q.ver = run[d].locals[u].ver /\ Wrote(d, u, q)
           /\ WentOn(d, u)
           /\ UNCHANGED <<server, cmd>>
<1> DEFINE l == run[d].locals[u]
           q == [l EXCEPT !.pub = l.seq]
<1>1. /\ Pending(d, u) /\ run[d].winners[u] # NoMsg /\ l # NoRow
      /\ UNCHANGED rows \/ Upsert(d, u, q)
      /\ Advance(d, Done(d, u))
      /\ UNCHANGED <<server, cmd, edits, faults>>
  BY DEF StampTie
<1>2. q \in RowsUpTo(edits) /\ q.ver = l.ver
  BY <1>1, Held, Written
<1> HIDE DEF q
<1>3. CASE UNCHANGED rows
  BY <1>1, <1>3, DoneStep DEF Typed, server
<1>4. CASE Upsert(d, u, q)
  BY <1>1, <1>2, <1>4, Held, WroteStep
<1> QED
  BY <1>1, <1>3, <1>4

\* The message that is appended for row l.
Fresh(d, u, m) ==
    /\ m \in MsgsUpTo(edits) /\ m.uid = u /\ m.id = Cardinality(sent) + 1
    /\ folder' = folder \cup {m} /\ sent' = sent \cup {m}
    /\ UNCHANGED <<archive, removed>>

\* A newer row is appended to the folder.
LEMMA PublishStep ==
    ASSUME Typed, Numbered, NEW d \in Devices, NEW u \in Uids, Publish(d, u)
    PROVE  /\ Typed' /\ Pending(d, u) /\ run[d].locals[u] # NoRow
           /\ \E m : Fresh(d, u, m)
           /\ run'[d].pc = "persist" /\ run'[d].at = u
           /\ run'[d].todo = run[d].todo \ {u}
           /\ run'[d].winners = run[d].winners /\ run'[d].whole = run[d].whole
           /\ run'[d].moving = run[d].moving /\ run'[d].dirty = run[d].dirty
           /\ run'[d].locals[u] # NoRow
           /\ run'[d].locals[u].ver = run[d].locals[u].ver
           /\ \A v \in Uids : v # u => run'[d].locals[v] = run[d].locals[v]
           /\ \A e \in Devices : e # d => run'[e] = run[e]
           /\ UNCHANGED <<rows, cmd>>
<1> DEFINE w == run[d].winners[u]
           l == run[d].locals[u]
           q == ToPublish(w, l)
           r == [run[d] EXCEPT !.pc = "persist", !.locals[u] = q,
                               !.at = u, !.todo = @ \ {u}]
           locals == [run[d].locals EXCEPT ![u] = q]
           todo == run[d].todo \ {u}
<1>1. /\ Pending(d, u) /\ l # NoRow
      /\ Append(u, q) /\ Advance(d, r)
      /\ UNCHANGED <<rows, cmd, edits, faults>>
  BY DEF Publish
<1>2. q \in RowsUpTo(edits) /\ q.ver = l.ver /\ q # NoRow
  <2>1. w \in MsgsUpTo(edits) \cup {NoMsg} /\ l \in RowsUpTo(edits)
    BY <1>1, Held
  <2>2. q \in RowsUpTo(edits) /\ q.ver = l.ver
    BY <2>1, Held, Written
  <2> HIDE DEF q
  <2> QED
    BY <2>2, Held
<1>3. /\ run[d] \in Runs(edits) /\ run[d].locals \in Tables(edits)
      /\ todo \in SUBSET Uids
  BY DEF Typed, Runs
<1> HIDE DEF q
<1>4. /\ locals \in Tables(edits) /\ locals[u] = q
      /\ \A v \in Uids : v # u => locals[v] = run[d].locals[v]
  BY <1>2, <1>3 DEF Tables
<1>a. r = [run[d] EXCEPT !.pc = "persist", !.locals = locals, !.at = u, !.todo = todo]
  BY <1>3 DEF Runs
<1> HIDE DEF r, locals, todo
<1>5. /\ r \in Runs(edits)
      /\ r.pc = "persist" /\ r.at = u /\ r.todo = todo /\ r.locals = locals
      /\ r.winners = run[d].winners /\ r.whole = run[d].whole
      /\ r.moving = run[d].moving /\ r.dirty = run[d].dirty
  BY <1>3, <1>4, <1>a DEF Runs
<1>6. run' \in [Devices -> Runs(edits')] /\ Stepped(d, r)
  BY <1>1, <1>5, StepKeepsType
<1> DEFINE m == AsMessage(u, Cardinality(sent) + 1, q)
<1>7. /\ folder' = folder \cup {m} /\ sent' = sent \cup {m}
      /\ UNCHANGED <<archive, removed>>
      /\ Cardinality(sent) + 1 \in 1..MaxMsgs
  <2>1. Cardinality(sent) \in Nat
    BY FS_CardinalityType DEF Numbered
  <2> QED
    BY <1>1, <2>1 DEF Append
<1>8. m \in MsgsUpTo(edits) /\ m.uid = u /\ m.id = Cardinality(sent) + 1
  <2>1. m \in MsgsUpTo(edits)
    BY <1>2, <1>7, Held, Written
  <2> QED
    BY <2>1 DEF AsMessage
<1> HIDE DEF m
<1>9. Typed'
  BY <1>1, <1>6, <1>7, <1>8 DEF Typed
<1> QED
  BY <1>1, <1>2, <1>4, <1>5, <1>6, <1>7, <1>8, <1>9 DEF Stepped, Fresh, todo

\* The row that was appended is written back; its content is the copy's.
LEMMA PersistStep ==
    ASSUME Typed, AtOK, NEW d \in Devices, Persist(d)
    PROVE  /\ Typed' /\ run[d].pc = "persist" /\ run[d].at \in Uids
           /\ \E q : /\ q # NoRow /\ q.ver = run[d].locals[run[d].at].ver
                    /\ Wrote(d, run[d].at, q)
           /\ run'[d].pc = "apply" /\ run'[d].todo = run[d].todo
           /\ run'[d].winners = run[d].winners /\ run'[d].whole = run[d].whole
           /\ run'[d].locals = run[d].locals /\ run'[d].moving = run[d].moving
           /\ run'[d].dirty = run[d].dirty
           /\ \A e \in Devices : e # d => run'[e] = run[e]
           /\ UNCHANGED <<server, cmd>>
<1> DEFINE u == run[d].at
           l == run[d].locals[u]
           q == [l EXCEPT !.pub = l.seq]
           r == [run[d] EXCEPT !.pc = "apply", !.at = Nothing]
<1>1. /\ run[d].pc = "persist" /\ Upsert(d, u, q) /\ Advance(d, r)
      /\ UNCHANGED <<server, cmd, edits, faults>>
  BY DEF Persist
<1>2. u \in Uids /\ l # NoRow
  BY <1>1 DEF AtOK
<1>3. q \in RowsUpTo(edits) /\ q.ver = l.ver
  BY <1>2, Held, Written
<1> HIDE DEF q
<1>4. run[d] \in Runs(edits)
  BY DEF Typed
<1>5. /\ r \in Runs(edits)
      /\ r.pc = "apply" /\ r.todo = run[d].todo
      /\ r.winners = run[d].winners /\ r.whole = run[d].whole
      /\ r.locals = run[d].locals /\ r.moving = run[d].moving
      /\ r.dirty = run[d].dirty
  BY <1>4 DEF Runs
<1> HIDE DEF r
<1>6. run' \in [Devices -> Runs(edits')] /\ Stepped(d, r)
  BY <1>1, <1>5, StepKeepsType
<1>7. rows' \in [Devices -> Tables(edits)] /\ Wrote(d, u, q)
  <2>1. rows \in [Devices -> Tables(edits)]
    BY DEF Typed
  <2> QED
    BY <1>1, <1>2, <1>3, <2>1, UpsertKeeps DEF Wrote
<1>8. Typed'
  BY <1>1, <1>6, <1>7 DEF Typed, server
<1>9. q # NoRow
  BY <1>2, <1>3, Held
<1> QED
  BY <1>1, <1>2, <1>3, <1>5, <1>6, <1>7, <1>8, <1>9 DEF Stepped

\* An event that fails, before or after the APPEND.
LEMMA SkipEventStep ==
    ASSUME Typed, AtOK, NEW d \in Devices, SkipEvent(d)
    PROVE  /\ Typed' /\ run[d].pc \in {"apply", "persist"}
           /\ run'[d].pc = "apply" /\ run'[d].todo \subseteq run[d].todo
           /\ run'[d].winners = run[d].winners /\ run'[d].whole = run[d].whole
           /\ run'[d].locals = run[d].locals /\ run'[d].moving = run[d].moving
           /\ run'[d].dirty = run[d].dirty
           /\ \A e \in Devices : e # d => run'[e] = run[e]
           /\ UNCHANGED <<server, rows, cmd>>
<1>1. UNCHANGED <<server, rows, cmd, edits>>
  BY DEF SkipEvent
<1>2. ASSUME NEW u \in Uids, Pending(d, u), Advance(d, Done(d, u))
      PROVE  run' \in [Devices -> Runs(edits')] /\ WentOn(d, u)
  BY <1>1, <1>2, DoneStep
<1> DEFINE r == [run[d] EXCEPT !.pc = "apply", !.at = Nothing]
<1>3. ASSUME run[d].pc = "persist", Advance(d, r)
      PROVE  run' \in [Devices -> Runs(edits')] /\ Stepped(d, r)
  <2>1. run[d] \in Runs(edits)
    BY DEF Typed
  <2>2. r \in Runs(edits)
    BY <2>1 DEF Runs
  <2> HIDE DEF r
  <2> QED
    BY <1>1, <1>3, <2>2, StepKeepsType
<1>4. CASE \E u \in Uids : Pending(d, u) /\ Advance(d, Done(d, u))
  BY <1>1, <1>2, <1>4 DEF Typed, server, WentOn, Pending
<1>5. CASE run[d].pc = "persist" /\ Advance(d, r)
  <2>1. run[d] \in Runs(edits)
    BY DEF Typed
  <2>2. /\ r.pc = "apply" /\ r.todo = run[d].todo
        /\ r.winners = run[d].winners /\ r.whole = run[d].whole
        /\ r.locals = run[d].locals /\ r.moving = run[d].moving
        /\ r.dirty = run[d].dirty
    BY <2>1 DEF Runs
  <2> HIDE DEF r
  <2> QED
    BY <1>1, <1>3, <1>5, <2>2 DEF Typed, server, Stepped
<1> QED
  BY <1>4, <1>5 DEF SkipEvent

\* A run that comes to its end.
LEMMA IdleStep ==
    ASSUME Typed, NEW d \in Devices, Advance(d, Idle), UNCHANGED edits
    PROVE  /\ run' \in [Devices -> Runs(edits')]
           /\ run'[d] = Idle /\ \A e \in Devices : e # d => run'[e] = run[e]
BY StepKeepsType, IdleIsRun DEF Stepped

\* Compaction finds nothing to do, or what is superseded in its list.
LEMMA CompactStep ==
    ASSUME Typed, NEW d \in Devices, Compact(d)
    PROVE  /\ Typed'
           /\ \/ run'[d] = Idle
              \/ \E seen \in SUBSET folder :
                    /\ run'[d].pc = "copy" /\ run'[d].moving = Superseded(seen)
                    /\ run'[d].winners = Idle.winners /\ run'[d].locals = NoTable
           /\ \A e \in Devices : e # d => run'[e] = run[e]
           /\ UNCHANGED <<server, rows, cmd>>
<1>1. UNCHANGED <<server, rows, cmd, edits>>
  BY DEF Compact
<1>2. CASE Advance(d, Idle)
  BY <1>1, <1>2, IdleStep DEF Typed, server
<1>3. ASSUME NEW seen \in SUBSET folder,
             Advance(d, [Idle EXCEPT !.pc = "copy", !.moving = Superseded(seen)])
      PROVE  /\ Typed'
             /\ run'[d].pc = "copy" /\ run'[d].moving = Superseded(seen)
             /\ run'[d].winners = Idle.winners /\ run'[d].locals = NoTable
             /\ \A e \in Devices : e # d => run'[e] = run[e]
  <2> DEFINE r == [Idle EXCEPT !.pc = "copy", !.moving = Superseded(seen)]
  <2>1. Superseded(seen) \in SUBSET MsgsUpTo(edits)
    BY DEF Superseded, Typed
  <2>2. /\ r \in Runs(edits)
        /\ r.pc = "copy" /\ r.moving = Superseded(seen)
        /\ r.winners = Idle.winners /\ r.locals = NoTable
    BY <2>1, IdleIsRun DEF Runs, Idle
  <2> HIDE DEF r
  <2>3. run' \in [Devices -> Runs(edits')] /\ Stepped(d, r)
    BY <1>1, <1>3, <2>2, StepKeepsType DEF r
  <2> QED
    BY <1>1, <2>2, <2>3 DEF Typed, server, Stepped
<1>4. \/ Advance(d, Idle)
      \/ \E seen \in SUBSET folder :
            Advance(d, [Idle EXCEPT !.pc = "copy", !.moving = Superseded(seen)])
  BY DEF Compact
<1> QED
  BY <1>1, <1>2, <1>3, <1>4

\* Compaction copies what is still in the folder.
LEMMA CopyToArchiveStep ==
    ASSUME Typed, NEW d \in Devices, CopyToArchive(d)
    PROVE  /\ Typed'
           /\ archive' = archive \cup (run[d].moving \cap folder)
           /\ run'[d].pc = "delete" /\ run'[d].moving = run[d].moving
           /\ run'[d].winners = run[d].winners /\ run'[d].locals = run[d].locals
           /\ \A e \in Devices : e # d => run'[e] = run[e]
           /\ UNCHANGED <<folder, sent, removed, rows, cmd>>
<1> DEFINE r == [run[d] EXCEPT !.pc = "delete"]
<1>1. /\ archive' = archive \cup (run[d].moving \cap folder) /\ Advance(d, r)
      /\ UNCHANGED <<folder, sent, removed, rows, cmd, edits, faults>>
  BY DEF CopyToArchive
<1>2. run[d] \in Runs(edits)
  BY DEF Typed
<1>3. /\ r \in Runs(edits)
      /\ r.pc = "delete" /\ r.moving = run[d].moving
      /\ r.winners = run[d].winners /\ r.locals = run[d].locals
  BY <1>2 DEF Runs
<1> HIDE DEF r
<1>4. run' \in [Devices -> Runs(edits')] /\ Stepped(d, r)
  BY <1>1, <1>3, StepKeepsType
<1> QED
  BY <1>1, <1>3, <1>4 DEF Typed, Stepped

\* Compaction deletes, and the run ends.
LEMMA DeleteFromFolderStep ==
    ASSUME Typed, NEW d \in Devices, DeleteFromFolder(d)
    PROVE  /\ Typed'
           /\ run[d].pc = "delete" /\ folder' = folder \ run[d].moving
           /\ run'[d] = Idle /\ \A e \in Devices : e # d => run'[e] = run[e]
           /\ UNCHANGED <<archive, sent, removed, rows, cmd>>
BY IdleStep DEF DeleteFromFolder, Typed

\* The run and the command of a device are gone.
LEMMA CrashStep ==
    ASSUME Typed, NEW d \in Devices, Crash(d)
    PROVE  /\ Typed'
           /\ run'[d] = Idle /\ \A e \in Devices : e # d => run'[e] = run[e]
           /\ cmd'[d] = NoCmd /\ \A e \in Devices : e # d => cmd'[e] = cmd[e]
           /\ UNCHANGED <<server, rows>>
<1>1. /\ Advance(d, Idle) /\ cmd' = [cmd EXCEPT ![d] = NoCmd]
      /\ UNCHANGED <<server, rows, edits>>
  BY DEF Crash
<1>2. /\ cmd' \in [Devices -> Cmds(edits)] /\ cmd'[d] = NoCmd
      /\ \A e \in Devices : e # d => cmd'[e] = cmd[e]
  BY <1>1 DEF Typed, Cmds
<1> QED
  BY <1>1, <1>2, IdleStep DEF Typed, server

\* All messages of an event are deleted by hand.
LEMMA RemoveByHandStep ==
    ASSUME Typed, NEW u \in Uids, RemoveByHand(u)
    PROVE  /\ Typed'
           /\ LET of == {m \in folder : m.uid = u}
              IN  folder' = folder \ of /\ removed' = removed \cup of
           /\ UNCHANGED <<archive, sent, rows, run, cmd>>
BY DEF RemoveByHand, Typed

-----------------------------------------------------------------------------
(***************************************************************************)
(* The invariant survives every step.                                      *)
(***************************************************************************)

\* Every step keeps the types.
LEMMA TypedKept ==
    ASSUME Typed, AtOK, Numbered, [Next]_vars
    PROVE  Typed'
<1>1. ASSUME NEW d \in Devices, NEW u \in Uids, Create(d, u) \/ Import(d, u)
      PROVE  Typed'
  BY <1>1, NewRowStep DEF Typed
<1>2. ASSUME NEW d \in Devices, NEW u \in Uids, ReadForEdit(d, u) PROVE Typed'
  BY <1>2, ReadForEditStep DEF Typed
<1>3. ASSUME NEW d \in Devices, WriteEdit(d) PROVE Typed'
  BY <1>3, WriteEditStep DEF Typed
<1>4. ASSUME NEW d \in Devices, List(d) PROVE Typed'
  BY <1>4, ListStep DEF Typed
<1>5. ASSUME NEW d \in Devices, ReadTable(d) PROVE Typed'
  BY <1>5, ReadTableStep DEF Typed
<1>6. ASSUME NEW d \in Devices, NEW u \in Uids, ImportRemote(d, u) PROVE Typed'
  BY <1>6, ImportRemoteStep DEF Typed
<1>7. ASSUME NEW d \in Devices, NEW u \in Uids, CancelVanished(d, u) PROVE Typed'
  BY <1>7, CancelVanishedStep DEF Typed
<1>8. ASSUME NEW d \in Devices, NEW u \in Uids, StampTie(d, u) PROVE Typed'
  BY <1>8, StampTieStep DEF Typed
<1>9. ASSUME NEW d \in Devices, NEW u \in Uids, Publish(d, u) PROVE Typed'
  BY <1>9, PublishStep DEF Typed
<1>10. ASSUME NEW d \in Devices, Persist(d) PROVE Typed'
  BY <1>10, PersistStep DEF Typed
<1>11. ASSUME NEW d \in Devices, SkipEvent(d) PROVE Typed'
  BY <1>11, SkipEventStep DEF Typed
<1>12. ASSUME NEW d \in Devices, Compact(d) PROVE Typed'
  BY <1>12, CompactStep DEF Typed
<1>13. ASSUME NEW d \in Devices, CopyToArchive(d) PROVE Typed'
  BY <1>13, CopyToArchiveStep DEF Typed
<1>14. ASSUME NEW d \in Devices, DeleteFromFolder(d) PROVE Typed'
  BY <1>14, DeleteFromFolderStep DEF Typed
<1>15. ASSUME NEW d \in Devices, Crash(d) PROVE Typed'
  BY <1>15, CrashStep DEF Typed
<1>16. ASSUME NEW u \in Uids, RemoveByHand(u) PROVE Typed'
  BY <1>16, RemoveByHandStep DEF Typed
<1>17. ASSUME UNCHANGED vars PROVE Typed'
  BY <1>17 DEF vars, Typed
<1> QED
  BY <1>1, <1>2, <1>3, <1>4, <1>5, <1>6, <1>7, <1>8, <1>9,
     <1>10, <1>11, <1>12, <1>13, <1>14, <1>15, <1>16, <1>17
     DEF Next, RunStep, Command

\* Every step keeps what a run that has published is about to write.
LEMMA AtOKKept ==
    ASSUME Typed, AtOK, Numbered, [Next]_vars
    PROVE  AtOK'
<1>1. ASSUME NEW d \in Devices, NEW u \in Uids, Create(d, u) \/ Import(d, u)
      PROVE  AtOK'
  BY <1>1, NewRowStep DEF AtOK, Idle, Soiled, WentOn, Pending
<1>2. ASSUME NEW d \in Devices, NEW u \in Uids, ReadForEdit(d, u) PROVE AtOK'
  BY <1>2, ReadForEditStep DEF AtOK, Idle, Soiled, WentOn, Pending
<1>3. ASSUME NEW d \in Devices, WriteEdit(d) PROVE AtOK'
  BY <1>3, WriteEditStep DEF AtOK, Idle, Soiled, WentOn, Pending
<1>4. ASSUME NEW d \in Devices, List(d) PROVE AtOK'
  BY <1>4, ListStep DEF AtOK, Idle, Soiled, WentOn, Pending
<1>5. ASSUME NEW d \in Devices, ReadTable(d) PROVE AtOK'
  BY <1>5, ReadTableStep DEF AtOK, Idle, Soiled, WentOn, Pending
<1>6. ASSUME NEW d \in Devices, NEW u \in Uids, ImportRemote(d, u) PROVE AtOK'
  BY <1>6, ImportRemoteStep DEF AtOK, Idle, Soiled, WentOn, Pending
<1>7. ASSUME NEW d \in Devices, NEW u \in Uids, CancelVanished(d, u) PROVE AtOK'
  BY <1>7, CancelVanishedStep DEF AtOK, Idle, Soiled, WentOn, Pending
<1>8. ASSUME NEW d \in Devices, NEW u \in Uids, StampTie(d, u) PROVE AtOK'
  BY <1>8, StampTieStep DEF AtOK, Idle, Soiled, WentOn, Pending
<1>9. ASSUME NEW d \in Devices, NEW u \in Uids, Publish(d, u) PROVE AtOK'
  BY <1>9, PublishStep DEF AtOK, Idle, Soiled, WentOn, Pending
<1>10. ASSUME NEW d \in Devices, Persist(d) PROVE AtOK'
  BY <1>10, PersistStep DEF AtOK, Idle, Soiled, WentOn, Pending
<1>11. ASSUME NEW d \in Devices, SkipEvent(d) PROVE AtOK'
  BY <1>11, SkipEventStep DEF AtOK, Idle, Soiled, WentOn, Pending
<1>12. ASSUME NEW d \in Devices, Compact(d) PROVE AtOK'
  BY <1>12, CompactStep DEF AtOK, Idle, Soiled, WentOn, Pending
<1>13. ASSUME NEW d \in Devices, CopyToArchive(d) PROVE AtOK'
  BY <1>13, CopyToArchiveStep DEF AtOK, Idle, Soiled, WentOn, Pending
<1>14. ASSUME NEW d \in Devices, DeleteFromFolder(d) PROVE AtOK'
  BY <1>14, DeleteFromFolderStep DEF AtOK, Idle, Soiled, WentOn, Pending
<1>15. ASSUME NEW d \in Devices, Crash(d) PROVE AtOK'
  BY <1>15, CrashStep DEF AtOK, Idle, Soiled, WentOn, Pending
<1>16. ASSUME NEW u \in Uids, RemoveByHand(u) PROVE AtOK'
  BY <1>16, RemoveByHandStep DEF AtOK, Idle, Soiled, WentOn, Pending
<1>17. ASSUME UNCHANGED vars PROVE AtOK'
  BY <1>17 DEF vars, AtOK, Idle, Soiled, WentOn, Pending
<1> QED
  BY <1>1, <1>2, <1>3, <1>4, <1>5, <1>6, <1>7, <1>8, <1>9,
     <1>10, <1>11, <1>12, <1>13, <1>14, <1>15, <1>16, <1>17
     DEF Next, RunStep, Command

\* The number of a message is one that was free.
LEMMA NumberedKept ==
    ASSUME Typed, AtOK, Numbered, [Next]_vars
    PROVE  Numbered'
<1>1. ASSUME NEW d \in Devices, NEW u \in Uids, Create(d, u) \/ Import(d, u)
      PROVE  Numbered'
  BY <1>1, NewRowStep DEF Numbered, server
<1>2. ASSUME NEW d \in Devices, NEW u \in Uids, ReadForEdit(d, u) PROVE Numbered'
  BY <1>2, ReadForEditStep DEF Numbered, server
<1>3. ASSUME NEW d \in Devices, WriteEdit(d) PROVE Numbered'
  BY <1>3, WriteEditStep DEF Numbered, server
<1>4. ASSUME NEW d \in Devices, List(d) PROVE Numbered'
  BY <1>4, ListStep DEF Numbered, server
<1>5. ASSUME NEW d \in Devices, ReadTable(d) PROVE Numbered'
  BY <1>5, ReadTableStep DEF Numbered, server
<1>6. ASSUME NEW d \in Devices, NEW u \in Uids, ImportRemote(d, u) PROVE Numbered'
  BY <1>6, ImportRemoteStep DEF Numbered, server
<1>7. ASSUME NEW d \in Devices, NEW u \in Uids, CancelVanished(d, u) PROVE Numbered'
  BY <1>7, CancelVanishedStep DEF Numbered, server
<1>8. ASSUME NEW d \in Devices, NEW u \in Uids, StampTie(d, u) PROVE Numbered'
  BY <1>8, StampTieStep DEF Numbered, server
<1>9. ASSUME NEW d \in Devices, NEW u \in Uids, Publish(d, u) PROVE Numbered'
  <2>1. PICK m : Fresh(d, u, m)
    BY <1>9, PublishStep
  <2>2. /\ IsFiniteSet(sent') /\ Cardinality(sent') = Cardinality(sent) + 1
        /\ Cardinality(sent) \in Nat
    <3>1. m \notin sent
      BY <2>1, FS_CardinalityType DEF Fresh, Numbered
    <3> QED
      BY <2>1, <3>1, FS_AddElement, FS_CardinalityType DEF Fresh, Numbered
  <2>3. \A n \in sent : n.id \in Nat /\ n.id <= Cardinality(sent)
    BY DEF Typed, MsgsUpTo, Numbered
  <2> QED
    BY <2>1, <2>2, <2>3 DEF Fresh, Numbered
<1>10. ASSUME NEW d \in Devices, Persist(d) PROVE Numbered'
  BY <1>10, PersistStep DEF Numbered, server
<1>11. ASSUME NEW d \in Devices, SkipEvent(d) PROVE Numbered'
  BY <1>11, SkipEventStep DEF Numbered, server
<1>12. ASSUME NEW d \in Devices, Compact(d) PROVE Numbered'
  BY <1>12, CompactStep DEF Numbered, server
<1>13. ASSUME NEW d \in Devices, CopyToArchive(d) PROVE Numbered'
  BY <1>13, CopyToArchiveStep DEF Numbered, server
<1>14. ASSUME NEW d \in Devices, DeleteFromFolder(d) PROVE Numbered'
  BY <1>14, DeleteFromFolderStep DEF Numbered, server
<1>15. ASSUME NEW d \in Devices, Crash(d) PROVE Numbered'
  BY <1>15, CrashStep DEF Numbered, server
<1>16. ASSUME NEW u \in Uids, RemoveByHand(u) PROVE Numbered'
  BY <1>16, RemoveByHandStep DEF Numbered, server
<1>17. ASSUME UNCHANGED vars PROVE Numbered'
  BY <1>17 DEF vars, Numbered
<1> QED
  BY <1>1, <1>2, <1>3, <1>4, <1>5, <1>6, <1>7, <1>8, <1>9,
     <1>10, <1>11, <1>12, <1>13, <1>14, <1>15, <1>16, <1>17
     DEF Next, RunStep, Command

\* A run's winners come from the folder.
LEMMA WinnersKept ==
    ASSUME Typed, AtOK, Numbered, WinnersSent, [Next]_vars
    PROVE  WinnersSent'
<1>1. ASSUME NEW d \in Devices, NEW u \in Uids, Create(d, u) \/ Import(d, u)
      PROVE  WinnersSent'
  BY <1>1, NewRowStep DEF WinnersSent, server, Idle, Soiled, WentOn, Fresh
<1>2. ASSUME NEW d \in Devices, NEW u \in Uids, ReadForEdit(d, u) PROVE WinnersSent'
  BY <1>2, ReadForEditStep DEF WinnersSent, server, Idle, Soiled, WentOn, Fresh
<1>3. ASSUME NEW d \in Devices, WriteEdit(d) PROVE WinnersSent'
  BY <1>3, WriteEditStep DEF WinnersSent, server, Idle, Soiled, WentOn, Fresh
<1>4. ASSUME NEW d \in Devices, List(d) PROVE WinnersSent'
  <2>1. PICK seen \in SUBSET folder : run'[d].winners = Winners(seen)
    BY <1>4, ListStep
  <2>2. seen \in SUBSET Msg /\ seen \subseteq sent
    BY SentAreMsgs DEF Typed
  <2>3. \A u \in Uids : run'[d].winners[u] = Newest(seen, u)
    BY <2>1 DEF Winners
  <2>4. \A u \in Uids :
          Newest(seen, u) # NoMsg => Newest(seen, u) \in {m \in sent : m.uid = u}
    BY <2>2, NewestIs
  <2> QED
    BY <1>4, <2>3, <2>4, ListStep DEF WinnersSent, server
<1>5. ASSUME NEW d \in Devices, ReadTable(d) PROVE WinnersSent'
  BY <1>5, ReadTableStep DEF WinnersSent, server, Idle, Soiled, WentOn, Fresh
<1>6. ASSUME NEW d \in Devices, NEW u \in Uids, ImportRemote(d, u)
      PROVE  WinnersSent'
  BY <1>6, ImportRemoteStep DEF WinnersSent, server, Idle, Soiled, WentOn, Fresh
<1>7. ASSUME NEW d \in Devices, NEW u \in Uids, CancelVanished(d, u)
      PROVE  WinnersSent'
  BY <1>7, CancelVanishedStep DEF WinnersSent, server, Idle, Soiled, WentOn, Fresh
<1>8. ASSUME NEW d \in Devices, NEW u \in Uids, StampTie(d, u) PROVE WinnersSent'
  BY <1>8, StampTieStep DEF WinnersSent, server, Idle, Soiled, WentOn, Fresh
<1>9. ASSUME NEW d \in Devices, NEW u \in Uids, Publish(d, u) PROVE WinnersSent'
  BY <1>9, PublishStep DEF WinnersSent, server, Idle, Soiled, WentOn, Fresh
<1>10. ASSUME NEW d \in Devices, Persist(d) PROVE WinnersSent'
  BY <1>10, PersistStep DEF WinnersSent, server, Idle, Soiled, WentOn, Fresh
<1>11. ASSUME NEW d \in Devices, SkipEvent(d) PROVE WinnersSent'
  BY <1>11, SkipEventStep DEF WinnersSent, server, Idle, Soiled, WentOn, Fresh
<1>12. ASSUME NEW d \in Devices, Compact(d) PROVE WinnersSent'
  BY <1>12, CompactStep DEF WinnersSent, server, Idle, Soiled, WentOn, Fresh
<1>13. ASSUME NEW d \in Devices, CopyToArchive(d) PROVE WinnersSent'
  BY <1>13, CopyToArchiveStep DEF WinnersSent, server, Idle, Soiled, WentOn, Fresh
<1>14. ASSUME NEW d \in Devices, DeleteFromFolder(d) PROVE WinnersSent'
  BY <1>14, DeleteFromFolderStep
     DEF WinnersSent, server, Idle, Soiled, WentOn, Fresh
<1>15. ASSUME NEW d \in Devices, Crash(d) PROVE WinnersSent'
  BY <1>15, CrashStep DEF WinnersSent, server, Idle, Soiled, WentOn, Fresh
<1>16. ASSUME NEW u \in Uids, RemoveByHand(u) PROVE WinnersSent'
  BY <1>16, RemoveByHandStep DEF WinnersSent, server, Idle, Soiled, WentOn, Fresh
<1>17. ASSUME UNCHANGED vars PROVE WinnersSent'
  BY <1>17 DEF vars, WinnersSent, server, Idle, Soiled, WentOn, Fresh
<1> QED
  BY <1>1, <1>2, <1>3, <1>4, <1>5, <1>6, <1>7, <1>8, <1>9,
     <1>10, <1>11, <1>12, <1>13, <1>14, <1>15, <1>16, <1>17
     DEF Next, RunStep, Command

\* What was outdone stays outdone.
LEMMA OutdoneStays ==
    ASSUME NEW m, Outdone(m), sent \subseteq sent'
    PROVE  Outdone(m)'
BY DEF Outdone, Weight

\* What compaction takes for superseded is outdone.
LEMMA SupersededIsOutdone ==
    ASSUME Typed, Numbered, NEW seen \in SUBSET sent, NEW m \in Superseded(seen)
    PROVE  m \in sent /\ Outdone(m)
<1>1. sent \subseteq Msg
  BY SentAreMsgs
<1>2. m \in seen /\ m \in sent /\ Newest(seen, m.uid) # m
  BY DEF Superseded
<1> DEFINE n == Newest(seen, m.uid)
<1>3. /\ n \in seen /\ n.uid = m.uid
      /\ Weight(m) <= Weight(n)
  BY <1>1, <1>2, NewestIs
<1>4. Weight(m) # Weight(n)
  BY <1>1, <1>2, <1>3, WeightTellsId DEF Numbered
<1>5. Weight(m) \in Nat /\ Weight(n) \in Nat
  BY <1>1, <1>2, <1>3, WeightBound
<1> HIDE DEF n
<1>6. Weight(n) > Weight(m)
  BY <1>3, <1>4, <1>5
<1> QED
  BY <1>2, <1>3, <1>6 DEF Outdone

\* No step takes a revision away that is not outdone and kept elsewhere.
LEMMA CompactionKept ==
    ASSUME Typed, AtOK, Numbered, Compaction, [Next]_vars
    PROVE  Compaction'
<1>1. ASSUME NEW d \in Devices, NEW u \in Uids, Create(d, u) \/ Import(d, u)
      PROVE  Compaction'
  <2>1. sent' = sent /\ \A m : Outdone(m) => Outdone(m)'
    BY <1>1, NewRowStep, OutdoneStays DEF server
  <2> QED
    BY <1>1, <2>1, NewRowStep DEF Compaction, server, Idle, Soiled, WentOn
<1>2. ASSUME NEW d \in Devices, NEW u \in Uids, ReadForEdit(d, u) PROVE Compaction'
  <2>1. sent' = sent /\ \A m : Outdone(m) => Outdone(m)'
    BY <1>2, ReadForEditStep, OutdoneStays DEF server
  <2> QED
    BY <1>2, <2>1, ReadForEditStep DEF Compaction, server, Idle, Soiled, WentOn
<1>3. ASSUME NEW d \in Devices, WriteEdit(d) PROVE Compaction'
  <2>1. sent' = sent /\ \A m : Outdone(m) => Outdone(m)'
    BY <1>3, WriteEditStep, OutdoneStays DEF server
  <2> QED
    BY <1>3, <2>1, WriteEditStep DEF Compaction, server, Idle, Soiled, WentOn
<1>4. ASSUME NEW d \in Devices, List(d) PROVE Compaction'
  <2>1. sent' = sent /\ \A m : Outdone(m) => Outdone(m)'
    BY <1>4, ListStep, OutdoneStays DEF server
  <2> QED
    BY <1>4, <2>1, ListStep DEF Compaction, server, Idle, Soiled, WentOn
<1>5. ASSUME NEW d \in Devices, ReadTable(d) PROVE Compaction'
  <2>1. sent' = sent /\ \A m : Outdone(m) => Outdone(m)'
    BY <1>5, ReadTableStep, OutdoneStays DEF server
  <2> QED
    BY <1>5, <2>1, ReadTableStep DEF Compaction, server, Idle, Soiled, WentOn
<1>6. ASSUME NEW d \in Devices, NEW u \in Uids, ImportRemote(d, u) PROVE Compaction'
  <2>1. sent' = sent /\ \A m : Outdone(m) => Outdone(m)'
    BY <1>6, ImportRemoteStep, OutdoneStays DEF server
  <2> QED
    BY <1>6, <2>1, ImportRemoteStep DEF Compaction, server, Idle, Soiled, WentOn
<1>7. ASSUME NEW d \in Devices, NEW u \in Uids, CancelVanished(d, u)
      PROVE  Compaction'
  <2>1. sent' = sent /\ \A m : Outdone(m) => Outdone(m)'
    BY <1>7, CancelVanishedStep, OutdoneStays DEF server
  <2> QED
    BY <1>7, <2>1, CancelVanishedStep DEF Compaction, server, Idle, Soiled, WentOn
<1>8. ASSUME NEW d \in Devices, NEW u \in Uids, StampTie(d, u) PROVE Compaction'
  <2>1. sent' = sent /\ \A m : Outdone(m) => Outdone(m)'
    BY <1>8, StampTieStep, OutdoneStays DEF server
  <2> QED
    BY <1>8, <2>1, StampTieStep DEF Compaction, server, Idle, Soiled, WentOn
<1>9. ASSUME NEW d \in Devices, NEW u \in Uids, Publish(d, u) PROVE Compaction'
  <2>1. PICK m : Fresh(d, u, m)
    BY <1>9, PublishStep
  <2>2. \A n : Outdone(n) => Outdone(n)'
    BY <2>1, OutdoneStays DEF Fresh
  <2>3. m \notin sent
    BY <2>1, FS_CardinalityType DEF Fresh, Numbered
  <2>4. /\ run'[d].pc = "persist" /\ run'[d].moving = run[d].moving
        /\ \A e \in Devices : e # d => run'[e] = run[e]
    BY <1>9, PublishStep
  <2> QED
    BY <2>1, <2>2, <2>3, <2>4 DEF Compaction, Fresh
<1>10. ASSUME NEW d \in Devices, Persist(d) PROVE Compaction'
  <2>1. sent' = sent /\ \A m : Outdone(m) => Outdone(m)'
    BY <1>10, PersistStep, OutdoneStays DEF server
  <2> QED
    BY <1>10, <2>1, PersistStep DEF Compaction, server, Idle, Soiled, WentOn
<1>11. ASSUME NEW d \in Devices, SkipEvent(d) PROVE Compaction'
  <2>1. sent' = sent /\ \A m : Outdone(m) => Outdone(m)'
    BY <1>11, SkipEventStep, OutdoneStays DEF server
  <2> QED
    BY <1>11, <2>1, SkipEventStep DEF Compaction, server, Idle, Soiled, WentOn
<1>12. ASSUME NEW d \in Devices, Compact(d) PROVE Compaction'
  <2>1. \A e \in Devices : \A m \in run'[e].moving : m \in sent /\ Outdone(m)
    BY <1>12, CompactStep, SupersededIsOutdone DEF Compaction, Idle, Typed
  <2>2. sent' = sent /\ \A m : Outdone(m) => Outdone(m)'
    BY <1>12, CompactStep, OutdoneStays DEF server
  <2>3. \A e \in Devices : run'[e].pc = "delete" => run'[e] = run[e]
    BY <1>12, CompactStep DEF Idle
  <2> QED
    BY <1>12, <2>1, <2>2, <2>3, CompactStep DEF Compaction, server
<1>13. ASSUME NEW d \in Devices, CopyToArchive(d) PROVE Compaction'
  <2>1. sent' = sent /\ \A m : Outdone(m) => Outdone(m)'
    BY <1>13, CopyToArchiveStep, OutdoneStays DEF server
  <2> QED
    BY <1>13, <2>1, CopyToArchiveStep DEF Compaction, server, Idle, Soiled, WentOn
<1>14. ASSUME NEW d \in Devices, DeleteFromFolder(d) PROVE Compaction'
  <2>1. sent' = sent /\ \A m : Outdone(m) => Outdone(m)'
    BY <1>14, DeleteFromFolderStep, OutdoneStays DEF server
  <2> QED
    BY <1>14, <2>1, DeleteFromFolderStep DEF Compaction, Idle
<1>15. ASSUME NEW d \in Devices, Crash(d) PROVE Compaction'
  <2>1. sent' = sent /\ \A m : Outdone(m) => Outdone(m)'
    BY <1>15, CrashStep, OutdoneStays DEF server
  <2> QED
    BY <1>15, <2>1, CrashStep DEF Compaction, server, Idle, Soiled, WentOn
<1>16. ASSUME NEW u \in Uids, RemoveByHand(u) PROVE Compaction'
  <2>1. sent' = sent /\ \A m : Outdone(m) => Outdone(m)'
    BY <1>16, RemoveByHandStep, OutdoneStays DEF server
  <2> QED
    BY <1>16, <2>1, RemoveByHandStep DEF Compaction, server, Idle, Soiled, WentOn
<1>17. ASSUME UNCHANGED vars PROVE Compaction'
  <2>1. UNCHANGED <<server, run>>
    BY <1>17 DEF vars, server
  <2>2. \A m : Outdone(m) => Outdone(m)'
    BY <2>1, OutdoneStays DEF server
  <2> QED
    BY <2>1, <2>2 DEF Compaction, server
<1> QED
  BY <1>1, <1>2, <1>3, <1>4, <1>5, <1>6, <1>7, <1>8, <1>9,
     <1>10, <1>11, <1>12, <1>13, <1>14, <1>15, <1>16, <1>17
     DEF Next, RunStep, Command

\* An event that was sent, or removed, stays so.
LEMMA HistoryStays ==
    ASSUME Typed, AtOK, Numbered, [Next]_vars
    PROVE  /\ sent \subseteq sent' /\ removed \subseteq removed'
           /\ \A u : (WasSent(u) => WasSent(u)') /\ (WasRemoved(u) => WasRemoved(u)')
<1>1. sent \subseteq sent' /\ removed \subseteq removed'
  <2>1. ASSUME NEW d \in Devices, Command(d) PROVE UNCHANGED server
    BY <2>1 DEF Command, Create, Import, ReadForEdit, WriteEdit
  <2>2. ASSUME NEW d \in Devices, List(d) \/ SkipEvent(d) \/ Crash(d)
        PROVE  UNCHANGED server
    BY <2>2 DEF List, SkipEvent, Crash
  <2>3. ASSUME NEW d \in Devices, RunStep(d)
        PROVE  sent \subseteq sent' /\ removed \subseteq removed'
    BY <2>3 DEF RunStep, server, ReadTable, ImportRemote, CancelVanished, StampTie, Publish,
           Append, Persist, Compact, CopyToArchive, DeleteFromFolder
  <2>4. ASSUME NEW u \in Uids, RemoveByHand(u)
        PROVE  sent \subseteq sent' /\ removed \subseteq removed'
    BY <2>4 DEF RemoveByHand
  <2> QED
    BY <2>1, <2>2, <2>3, <2>4 DEF Next, vars, server
<1>2. ASSUME NEW u, WasSent(u) PROVE WasSent(u)'
  BY <1>1, <1>2 DEF WasSent
<1>3. ASSUME NEW u, WasRemoved(u) PROVE WasRemoved(u)'
  BY <1>1, <1>3 DEF WasRemoved
<1> QED
  BY <1>1, <1>2, <1>3

\* No row comes to claim a publication that never was.
LEMMA TableWasSentKept ==
    ASSUME Typed, AtOK, Numbered, WinnersSent, PublishedWasSent, [Next]_vars
    PROVE  TableWasSent'
<1>0. \A v : WasSent(v) => WasSent(v)'
  BY HistoryStays
<1>1. ASSUME NEW d \in Devices, NEW u \in Uids, Create(d, u) \/ Import(d, u)
      PROVE  TableWasSent'
  BY <1>0, <1>1, NewRowStep
     DEF PublishedWasSent, TableWasSent, Published, server, Wrote
<1>2. ASSUME NEW d \in Devices, NEW u \in Uids, ReadForEdit(d, u)
      PROVE  TableWasSent'
  BY <1>0, <1>2, ReadForEditStep
     DEF PublishedWasSent, TableWasSent, Published, server, Wrote
<1>3. ASSUME NEW d \in Devices, WriteEdit(d) PROVE TableWasSent'
  BY <1>0, <1>3, WriteEditStep
     DEF PublishedWasSent, TableWasSent, CmdWasSent, Published, server, Wrote
<1>4. ASSUME NEW d \in Devices, List(d) PROVE TableWasSent'
  BY <1>0, <1>4, ListStep DEF PublishedWasSent, TableWasSent, Published, server, Wrote
<1>5. ASSUME NEW d \in Devices, ReadTable(d) PROVE TableWasSent'
  BY <1>0, <1>5, ReadTableStep
     DEF PublishedWasSent, TableWasSent, Published, server, Wrote
<1>6. ASSUME NEW d \in Devices, NEW u \in Uids, ImportRemote(d, u)
      PROVE  TableWasSent'
  <2>1. WasSent(u)
    BY <1>6, ImportRemoteStep DEF WinnersSent, WasSent
  <2> QED
    BY <1>0, <1>6, <2>1, ImportRemoteStep
       DEF PublishedWasSent, TableWasSent, Published, server, Wrote
<1>7. ASSUME NEW d \in Devices, NEW u \in Uids, CancelVanished(d, u)
      PROVE  TableWasSent'
  BY <1>0, <1>7, CancelVanishedStep
     DEF PublishedWasSent, TableWasSent, CopyWasSent, Published, server, Wrote
<1>8. ASSUME NEW d \in Devices, NEW u \in Uids, StampTie(d, u) PROVE TableWasSent'
  <2>1. WasSent(u)
    BY <1>8, StampTieStep DEF WinnersSent, WasSent
  <2> QED
    BY <1>0, <1>8, <2>1, StampTieStep
       DEF PublishedWasSent, TableWasSent, Published, server, Wrote
<1>9. ASSUME NEW d \in Devices, NEW u \in Uids, Publish(d, u) PROVE TableWasSent'
  BY <1>0, <1>9, PublishStep
     DEF PublishedWasSent, TableWasSent, Published, server, Wrote
<1>10. ASSUME NEW d \in Devices, Persist(d) PROVE TableWasSent'
  BY <1>0, <1>10, PersistStep
     DEF PublishedWasSent, TableWasSent, AtWasSent, Published, server, Wrote
<1>11. ASSUME NEW d \in Devices, SkipEvent(d) PROVE TableWasSent'
  BY <1>0, <1>11, SkipEventStep
     DEF PublishedWasSent, TableWasSent, Published, server, Wrote
<1>12. ASSUME NEW d \in Devices, Compact(d) PROVE TableWasSent'
  BY <1>0, <1>12, CompactStep
     DEF PublishedWasSent, TableWasSent, Published, server, Wrote
<1>13. ASSUME NEW d \in Devices, CopyToArchive(d) PROVE TableWasSent'
  BY <1>0, <1>13, CopyToArchiveStep
     DEF PublishedWasSent, TableWasSent, Published, server, Wrote
<1>14. ASSUME NEW d \in Devices, DeleteFromFolder(d) PROVE TableWasSent'
  BY <1>0, <1>14, DeleteFromFolderStep
     DEF PublishedWasSent, TableWasSent, Published, server, Wrote
<1>15. ASSUME NEW d \in Devices, Crash(d) PROVE TableWasSent'
  BY <1>0, <1>15, CrashStep
     DEF PublishedWasSent, TableWasSent, Published, server, Wrote
<1>16. ASSUME NEW u \in Uids, RemoveByHand(u) PROVE TableWasSent'
  BY <1>0, <1>16, RemoveByHandStep
     DEF PublishedWasSent, TableWasSent, Published, server, Wrote
<1>17. ASSUME UNCHANGED vars PROVE TableWasSent'
  BY <1>0, <1>17 DEF vars, PublishedWasSent, TableWasSent
<1> QED
  BY <1>1, <1>2, <1>3, <1>4, <1>5, <1>6, <1>7, <1>8, <1>9,
     <1>10, <1>11, <1>12, <1>13, <1>14, <1>15, <1>16, <1>17
     DEF Next, RunStep, Command

\* Nor does a row in the copy of a run.
LEMMA CopyWasSentKept ==
    ASSUME Typed, AtOK, Numbered, WinnersSent, PublishedWasSent, [Next]_vars
    PROVE  CopyWasSent'
<1>0. \A v : WasSent(v) => WasSent(v)'
  BY HistoryStays
<1>1. ASSUME NEW d \in Devices, NEW u \in Uids, Create(d, u) \/ Import(d, u)
      PROVE  CopyWasSent'
  BY <1>0, <1>1, NewRowStep
     DEF PublishedWasSent, CopyWasSent, Published, Idle, NoTable, Soiled, WentOn
<1>2. ASSUME NEW d \in Devices, NEW u \in Uids, ReadForEdit(d, u) PROVE CopyWasSent'
  BY <1>0, <1>2, ReadForEditStep
     DEF PublishedWasSent, CopyWasSent, Published, Idle, NoTable, Soiled, WentOn
<1>3. ASSUME NEW d \in Devices, WriteEdit(d) PROVE CopyWasSent'
  BY <1>0, <1>3, WriteEditStep
     DEF PublishedWasSent, CopyWasSent, Published, Idle, NoTable, Soiled, WentOn
<1>4. ASSUME NEW d \in Devices, List(d) PROVE CopyWasSent'
  BY <1>0, <1>4, ListStep
     DEF PublishedWasSent, CopyWasSent, Published, Idle, NoTable, Soiled, WentOn
<1>5. ASSUME NEW d \in Devices, ReadTable(d) PROVE CopyWasSent'
  BY <1>0, <1>5, ReadTableStep DEF PublishedWasSent, TableWasSent, CopyWasSent
<1>6. ASSUME NEW d \in Devices, NEW u \in Uids, ImportRemote(d, u)
      PROVE  CopyWasSent'
  BY <1>0, <1>6, ImportRemoteStep
     DEF PublishedWasSent, CopyWasSent, Published, Idle, NoTable, Soiled, WentOn
<1>7. ASSUME NEW d \in Devices, NEW u \in Uids, CancelVanished(d, u)
      PROVE  CopyWasSent'
  BY <1>0, <1>7, CancelVanishedStep
     DEF PublishedWasSent, CopyWasSent, Published, Idle, NoTable, Soiled, WentOn
<1>8. ASSUME NEW d \in Devices, NEW u \in Uids, StampTie(d, u) PROVE CopyWasSent'
  BY <1>0, <1>8, StampTieStep
     DEF PublishedWasSent, CopyWasSent, Published, Idle, NoTable, Soiled, WentOn
<1>9. ASSUME NEW d \in Devices, NEW u \in Uids, Publish(d, u) PROVE CopyWasSent'
  <2>1. PICK m : Fresh(d, u, m)
    BY <1>9, PublishStep
  <2>2. WasSent(u)'
    BY <2>1 DEF WasSent, Fresh
  <2> QED
    BY <1>0, <1>9, <2>2, PublishStep DEF PublishedWasSent, CopyWasSent
<1>10. ASSUME NEW d \in Devices, Persist(d) PROVE CopyWasSent'
  BY <1>0, <1>10, PersistStep
     DEF PublishedWasSent, CopyWasSent, Published, Idle, NoTable, Soiled, WentOn
<1>11. ASSUME NEW d \in Devices, SkipEvent(d) PROVE CopyWasSent'
  BY <1>0, <1>11, SkipEventStep
     DEF PublishedWasSent, CopyWasSent, Published, Idle, NoTable, Soiled, WentOn
<1>12. ASSUME NEW d \in Devices, Compact(d) PROVE CopyWasSent'
  BY <1>0, <1>12, CompactStep
     DEF PublishedWasSent, CopyWasSent, Published, Idle, NoTable, Soiled, WentOn
<1>13. ASSUME NEW d \in Devices, CopyToArchive(d) PROVE CopyWasSent'
  BY <1>0, <1>13, CopyToArchiveStep
     DEF PublishedWasSent, CopyWasSent, Published, Idle, NoTable, Soiled, WentOn
<1>14. ASSUME NEW d \in Devices, DeleteFromFolder(d) PROVE CopyWasSent'
  BY <1>0, <1>14, DeleteFromFolderStep
     DEF PublishedWasSent, CopyWasSent, Published, Idle, NoTable, Soiled, WentOn
<1>15. ASSUME NEW d \in Devices, Crash(d) PROVE CopyWasSent'
  BY <1>0, <1>15, CrashStep
     DEF PublishedWasSent, CopyWasSent, Published, Idle, NoTable, Soiled, WentOn
<1>16. ASSUME NEW u \in Uids, RemoveByHand(u) PROVE CopyWasSent'
  BY <1>0, <1>16, RemoveByHandStep
     DEF PublishedWasSent, CopyWasSent, Published, Idle, NoTable, Soiled, WentOn
<1>17. ASSUME UNCHANGED vars PROVE CopyWasSent'
  BY <1>0, <1>17 DEF vars, PublishedWasSent, CopyWasSent
<1> QED
  BY <1>1, <1>2, <1>3, <1>4, <1>5, <1>6, <1>7, <1>8, <1>9,
     <1>10, <1>11, <1>12, <1>13, <1>14, <1>15, <1>16, <1>17
     DEF Next, RunStep, Command

\* Nor does a row a command is about to write.
LEMMA CmdWasSentKept ==
    ASSUME Typed, AtOK, Numbered, WinnersSent, PublishedWasSent, [Next]_vars
    PROVE  CmdWasSent'
<1>0. \A v : WasSent(v) => WasSent(v)'
  BY HistoryStays
<1>1. ASSUME NEW d \in Devices, NEW u \in Uids, Create(d, u) \/ Import(d, u)
      PROVE  CmdWasSent'
  BY <1>0, <1>1, NewRowStep DEF PublishedWasSent, CmdWasSent, server
<1>2. ASSUME NEW d \in Devices, NEW u \in Uids, ReadForEdit(d, u) PROVE CmdWasSent'
  BY <1>0, <1>2, ReadForEditStep
     DEF PublishedWasSent, TableWasSent, CmdWasSent, Published
<1>3. ASSUME NEW d \in Devices, WriteEdit(d) PROVE CmdWasSent'
  BY <1>0, <1>3, WriteEditStep DEF PublishedWasSent, CmdWasSent, server
<1>4. ASSUME NEW d \in Devices, List(d) PROVE CmdWasSent'
  BY <1>0, <1>4, ListStep DEF PublishedWasSent, CmdWasSent, server
<1>5. ASSUME NEW d \in Devices, ReadTable(d) PROVE CmdWasSent'
  BY <1>0, <1>5, ReadTableStep DEF PublishedWasSent, CmdWasSent, server
<1>6. ASSUME NEW d \in Devices, NEW u \in Uids, ImportRemote(d, u) PROVE CmdWasSent'
  BY <1>0, <1>6, ImportRemoteStep DEF PublishedWasSent, CmdWasSent, server
<1>7. ASSUME NEW d \in Devices, NEW u \in Uids, CancelVanished(d, u)
      PROVE  CmdWasSent'
  BY <1>0, <1>7, CancelVanishedStep DEF PublishedWasSent, CmdWasSent, server
<1>8. ASSUME NEW d \in Devices, NEW u \in Uids, StampTie(d, u) PROVE CmdWasSent'
  BY <1>0, <1>8, StampTieStep DEF PublishedWasSent, CmdWasSent, server
<1>9. ASSUME NEW d \in Devices, NEW u \in Uids, Publish(d, u) PROVE CmdWasSent'
  BY <1>0, <1>9, PublishStep DEF PublishedWasSent, CmdWasSent, server
<1>10. ASSUME NEW d \in Devices, Persist(d) PROVE CmdWasSent'
  BY <1>0, <1>10, PersistStep DEF PublishedWasSent, CmdWasSent, server
<1>11. ASSUME NEW d \in Devices, SkipEvent(d) PROVE CmdWasSent'
  BY <1>0, <1>11, SkipEventStep DEF PublishedWasSent, CmdWasSent, server
<1>12. ASSUME NEW d \in Devices, Compact(d) PROVE CmdWasSent'
  BY <1>0, <1>12, CompactStep DEF PublishedWasSent, CmdWasSent, server
<1>13. ASSUME NEW d \in Devices, CopyToArchive(d) PROVE CmdWasSent'
  BY <1>0, <1>13, CopyToArchiveStep DEF PublishedWasSent, CmdWasSent, server
<1>14. ASSUME NEW d \in Devices, DeleteFromFolder(d) PROVE CmdWasSent'
  BY <1>0, <1>14, DeleteFromFolderStep DEF PublishedWasSent, CmdWasSent, server
<1>15. ASSUME NEW d \in Devices, Crash(d) PROVE CmdWasSent'
  BY <1>0, <1>15, CrashStep DEF PublishedWasSent, CmdWasSent, server
<1>16. ASSUME NEW u \in Uids, RemoveByHand(u) PROVE CmdWasSent'
  BY <1>0, <1>16, RemoveByHandStep DEF PublishedWasSent, CmdWasSent, server
<1>17. ASSUME UNCHANGED vars PROVE CmdWasSent'
  BY <1>0, <1>17 DEF vars, PublishedWasSent, CmdWasSent
<1> QED
  BY <1>1, <1>2, <1>3, <1>4, <1>5, <1>6, <1>7, <1>8, <1>9,
     <1>10, <1>11, <1>12, <1>13, <1>14, <1>15, <1>16, <1>17
     DEF Next, RunStep, Command

\* What a run has just published was sent.
LEMMA AtWasSentKept ==
    ASSUME Typed, AtOK, Numbered, WinnersSent, PublishedWasSent, [Next]_vars
    PROVE  AtWasSent'
<1>0. \A v : WasSent(v) => WasSent(v)'
  BY HistoryStays
<1>1. ASSUME NEW d \in Devices, NEW u \in Uids, Create(d, u) \/ Import(d, u)
      PROVE  AtWasSent'
  BY <1>0, <1>1, NewRowStep DEF PublishedWasSent, AtWasSent, Idle, Soiled, WentOn
<1>2. ASSUME NEW d \in Devices, NEW u \in Uids, ReadForEdit(d, u) PROVE AtWasSent'
  BY <1>0, <1>2, ReadForEditStep DEF PublishedWasSent, AtWasSent, Idle, Soiled, WentOn
<1>3. ASSUME NEW d \in Devices, WriteEdit(d) PROVE AtWasSent'
  BY <1>0, <1>3, WriteEditStep DEF PublishedWasSent, AtWasSent, Idle, Soiled, WentOn
<1>4. ASSUME NEW d \in Devices, List(d) PROVE AtWasSent'
  BY <1>0, <1>4, ListStep DEF PublishedWasSent, AtWasSent, Idle, Soiled, WentOn
<1>5. ASSUME NEW d \in Devices, ReadTable(d) PROVE AtWasSent'
  BY <1>0, <1>5, ReadTableStep DEF PublishedWasSent, AtWasSent, Idle, Soiled, WentOn
<1>6. ASSUME NEW d \in Devices, NEW u \in Uids, ImportRemote(d, u) PROVE AtWasSent'
  BY <1>0, <1>6, ImportRemoteStep
     DEF PublishedWasSent, AtWasSent, Idle, Soiled, WentOn
<1>7. ASSUME NEW d \in Devices, NEW u \in Uids, CancelVanished(d, u)
      PROVE  AtWasSent'
  BY <1>0, <1>7, CancelVanishedStep
     DEF PublishedWasSent, AtWasSent, Idle, Soiled, WentOn
<1>8. ASSUME NEW d \in Devices, NEW u \in Uids, StampTie(d, u) PROVE AtWasSent'
  BY <1>0, <1>8, StampTieStep DEF PublishedWasSent, AtWasSent, Idle, Soiled, WentOn
<1>9. ASSUME NEW d \in Devices, NEW u \in Uids, Publish(d, u) PROVE AtWasSent'
  <2>1. PICK m : Fresh(d, u, m)
    BY <1>9, PublishStep
  <2>2. WasSent(u)'
    BY <2>1 DEF WasSent, Fresh
  <2> QED
    BY <1>0, <1>9, <2>2, PublishStep DEF PublishedWasSent, AtWasSent
<1>10. ASSUME NEW d \in Devices, Persist(d) PROVE AtWasSent'
  BY <1>0, <1>10, PersistStep DEF PublishedWasSent, AtWasSent, Idle, Soiled, WentOn
<1>11. ASSUME NEW d \in Devices, SkipEvent(d) PROVE AtWasSent'
  BY <1>0, <1>11, SkipEventStep DEF PublishedWasSent, AtWasSent, Idle, Soiled, WentOn
<1>12. ASSUME NEW d \in Devices, Compact(d) PROVE AtWasSent'
  BY <1>0, <1>12, CompactStep DEF PublishedWasSent, AtWasSent, Idle, Soiled, WentOn
<1>13. ASSUME NEW d \in Devices, CopyToArchive(d) PROVE AtWasSent'
  BY <1>0, <1>13, CopyToArchiveStep
     DEF PublishedWasSent, AtWasSent, Idle, Soiled, WentOn
<1>14. ASSUME NEW d \in Devices, DeleteFromFolder(d) PROVE AtWasSent'
  BY <1>0, <1>14, DeleteFromFolderStep
     DEF PublishedWasSent, AtWasSent, Idle, Soiled, WentOn
<1>15. ASSUME NEW d \in Devices, Crash(d) PROVE AtWasSent'
  BY <1>0, <1>15, CrashStep DEF PublishedWasSent, AtWasSent, Idle, Soiled, WentOn
<1>16. ASSUME NEW u \in Uids, RemoveByHand(u) PROVE AtWasSent'
  BY <1>0, <1>16, RemoveByHandStep
     DEF PublishedWasSent, AtWasSent, Idle, Soiled, WentOn
<1>17. ASSUME UNCHANGED vars PROVE AtWasSent'
  BY <1>0, <1>17 DEF vars, PublishedWasSent, AtWasSent
<1> QED
  BY <1>1, <1>2, <1>3, <1>4, <1>5, <1>6, <1>7, <1>8, <1>9,
     <1>10, <1>11, <1>12, <1>13, <1>14, <1>15, <1>16, <1>17
     DEF Next, RunStep, Command

\* The newest message of an event is in the folder, or was deleted by hand.
LEMMA NewestIsKept ==
    ASSUME Typed, Compaction, NEW u
    PROVE  Newest(sent, u) \in folder \cup removed \cup {NoMsg}
<1>1. SUFFICES ASSUME Newest(sent, u) # NoMsg PROVE Newest(sent, u) \in folder \cup removed
  OBVIOUS
<1> DEFINE n == Newest(sent, u)
<1>2. sent \subseteq Msg
  BY SentAreMsgs
<1>3. /\ n \in sent /\ n.uid = u
      /\ \A m \in sent : m.uid = u => Weight(m) <= Weight(n)
  BY <1>1, <1>2, NewestIs
<1> HIDE DEF n
<1>4. ASSUME Outdone(n) PROVE FALSE
  <2>1. PICK m \in sent : m.uid = n.uid /\ Weight(m) > Weight(n)
    BY <1>4 DEF Outdone
  <2>2. Weight(m) \in Nat /\ Weight(n) \in Nat
    BY <1>2, <1>3, WeightBound
  <2> QED
    BY <1>3, <2>1, <2>2
<1>5. n \in folder \cup removed
  BY <1>3, <1>4 DEF Compaction
<1> QED
  BY <1>5 DEF n

\* An event that was sent and has no message in the folder was removed by hand.
LEMMA AbsentWasRemoved ==
    ASSUME Typed, Compaction, NEW u, WasSent(u), \A m \in folder : m.uid # u
    PROVE  WasRemoved(u)
<1>1. sent \subseteq Msg /\ NoMsg \notin Msg
  BY SentAreMsgs
<1>2. Newest(sent, u) # NoMsg
  BY <1>1, NewestIs DEF WasSent
<1>3. Newest(sent, u) \in sent /\ Newest(sent, u).uid = u
  BY <1>1, <1>2, NewestIs
<1>4. Newest(sent, u) \in folder \cup removed
  BY <1>2, NewestIsKept
<1> QED
  BY <1>3, <1>4 DEF WasRemoved

\* What a whole list does not show is not in the folder.
LEMMA WholeListShows ==
    ASSUME Typed, Compaction, NEW d \in Devices, NEW u \in Uids, List(d),
           run'[d].whole, run'[d].winners[u] = NoMsg, WasSent(u)
    PROVE  WasRemoved(u)
<1>1. run'[d].winners = Winners(folder)
  BY ListStep
<1>2. Newest(folder, u) = NoMsg
  BY <1>1 DEF Winners
<1>3. folder \in SUBSET Msg
  BY SentAreMsgs DEF Typed
<1> QED
  BY <1>2, <1>3, NewestIs, AbsentWasRemoved

\* Of the table, while the run has only the list.
LEMMA TableVanishedKept ==
    ASSUME Typed, AtOK, Numbered, Compaction, PublishedWasSent, VanishedWasRemoved, [Next]_vars
    PROVE  TableVanished'
<1>0. \A v : WasRemoved(v) => WasRemoved(v)'
  BY HistoryStays
<1>1. ASSUME NEW d \in Devices, NEW u \in Uids, Create(d, u) \/ Import(d, u)
      PROVE  TableVanished'
  BY <1>0, <1>1, NewRowStep
     DEF VanishedWasRemoved, TableVanished, FoundNone, Published, Idle, Soiled, WentOn, Wrote, Pending
<1>2. ASSUME NEW d \in Devices, NEW u \in Uids, ReadForEdit(d, u)
      PROVE  TableVanished'
  BY <1>0, <1>2, ReadForEditStep
     DEF VanishedWasRemoved, TableVanished, FoundNone, Published, Idle, Soiled, WentOn, Wrote, Pending
<1>3. ASSUME NEW d \in Devices, WriteEdit(d) PROVE TableVanished'
  BY <1>0, <1>3, WriteEditStep
     DEF VanishedWasRemoved, TableVanished, CmdVanished, FoundNone, Published, Soiled, Wrote
<1>4. ASSUME NEW d \in Devices, List(d) PROVE TableVanished'
  <2>1. \A u \in Uids : WasSent(u) /\ FoundNone(d, u)' => WasRemoved(u)
    BY <1>4, WholeListShows DEF FoundNone
  <2> QED
    BY <1>0, <1>4, <2>1, ListStep
       DEF VanishedWasRemoved, TableVanished, FoundNone, PublishedWasSent, TableWasSent
<1>5. ASSUME NEW d \in Devices, ReadTable(d) PROVE TableVanished'
  BY <1>0, <1>5, ReadTableStep
     DEF VanishedWasRemoved, TableVanished, FoundNone, Published, Idle, Soiled, WentOn, Wrote, Pending
<1>6. ASSUME NEW d \in Devices, NEW u \in Uids, ImportRemote(d, u)
      PROVE  TableVanished'
  BY <1>0, <1>6, ImportRemoteStep
     DEF VanishedWasRemoved, TableVanished, FoundNone, Published, Idle, Soiled, WentOn, Wrote, Pending
<1>7. ASSUME NEW d \in Devices, NEW u \in Uids, CancelVanished(d, u)
      PROVE  TableVanished'
  BY <1>0, <1>7, CancelVanishedStep
     DEF VanishedWasRemoved, TableVanished, FoundNone, Published, Idle, Soiled, WentOn, Wrote, Pending
<1>8. ASSUME NEW d \in Devices, NEW u \in Uids, StampTie(d, u) PROVE TableVanished'
  BY <1>0, <1>8, StampTieStep
     DEF VanishedWasRemoved, TableVanished, FoundNone, Published, Idle, Soiled, WentOn, Wrote, Pending
<1>9. ASSUME NEW d \in Devices, NEW u \in Uids, Publish(d, u) PROVE TableVanished'
  BY <1>0, <1>9, PublishStep
     DEF VanishedWasRemoved, TableVanished, FoundNone, Published, Idle, Soiled, WentOn, Wrote, Pending
<1>10. ASSUME NEW d \in Devices, Persist(d) PROVE TableVanished'
  BY <1>0, <1>10, PersistStep
     DEF VanishedWasRemoved, TableVanished, FoundNone, Published, Idle, Soiled, WentOn, Wrote, Pending
<1>11. ASSUME NEW d \in Devices, SkipEvent(d) PROVE TableVanished'
  BY <1>0, <1>11, SkipEventStep
     DEF VanishedWasRemoved, TableVanished, FoundNone, Published, Idle, Soiled, WentOn, Wrote, Pending
<1>12. ASSUME NEW d \in Devices, Compact(d) PROVE TableVanished'
  BY <1>0, <1>12, CompactStep
     DEF VanishedWasRemoved, TableVanished, FoundNone, Published, Idle, Soiled, WentOn, Wrote, Pending
<1>13. ASSUME NEW d \in Devices, CopyToArchive(d) PROVE TableVanished'
  BY <1>0, <1>13, CopyToArchiveStep
     DEF VanishedWasRemoved, TableVanished, FoundNone, Published, Idle, Soiled, WentOn, Wrote, Pending
<1>14. ASSUME NEW d \in Devices, DeleteFromFolder(d) PROVE TableVanished'
  BY <1>0, <1>14, DeleteFromFolderStep
     DEF VanishedWasRemoved, TableVanished, FoundNone, Published, Idle, Soiled, WentOn, Wrote, Pending
<1>15. ASSUME NEW d \in Devices, Crash(d) PROVE TableVanished'
  BY <1>0, <1>15, CrashStep
     DEF VanishedWasRemoved, TableVanished, FoundNone, Published, Idle, Soiled, WentOn, Wrote, Pending
<1>16. ASSUME NEW u \in Uids, RemoveByHand(u) PROVE TableVanished'
  BY <1>0, <1>16, RemoveByHandStep
     DEF VanishedWasRemoved, TableVanished, FoundNone, Published, Idle, Soiled, WentOn, Wrote, Pending
<1>17. ASSUME UNCHANGED vars PROVE TableVanished'
  BY <1>0, <1>17 DEF vars, FoundNone, VanishedWasRemoved, TableVanished
<1> QED
  BY <1>1, <1>2, <1>3, <1>4, <1>5, <1>6, <1>7, <1>8, <1>9,
     <1>10, <1>11, <1>12, <1>13, <1>14, <1>15, <1>16, <1>17
     DEF Next, RunStep, Command

\* Of the row a command is about to write.
LEMMA CmdVanishedKept ==
    ASSUME Typed, AtOK, Numbered, Compaction, PublishedWasSent, VanishedWasRemoved, [Next]_vars
    PROVE  CmdVanished'
<1>0. \A v : WasRemoved(v) => WasRemoved(v)'
  BY HistoryStays
<1>1. ASSUME NEW d \in Devices, NEW u \in Uids, Create(d, u) \/ Import(d, u)
      PROVE  CmdVanished'
  BY <1>0, <1>1, NewRowStep
     DEF VanishedWasRemoved, CmdVanished, FoundNone, Idle, Soiled, WentOn
<1>2. ASSUME NEW d \in Devices, NEW u \in Uids, ReadForEdit(d, u) PROVE CmdVanished'
  BY <1>0, <1>2, ReadForEditStep
     DEF VanishedWasRemoved, CmdVanished, TableVanished, FoundNone, Published
<1>3. ASSUME NEW d \in Devices, WriteEdit(d) PROVE CmdVanished'
  BY <1>0, <1>3, WriteEditStep
     DEF VanishedWasRemoved, CmdVanished, FoundNone, Idle, Soiled, WentOn
<1>4. ASSUME NEW d \in Devices, List(d) PROVE CmdVanished'
  <2>1. \A u \in Uids : WasSent(u) /\ FoundNone(d, u)' => WasRemoved(u)
    BY <1>4, WholeListShows DEF FoundNone
  <2> QED
    BY <1>0, <1>4, <2>1, ListStep
       DEF VanishedWasRemoved, CmdVanished, FoundNone, PublishedWasSent, CmdWasSent
<1>5. ASSUME NEW d \in Devices, ReadTable(d) PROVE CmdVanished'
  BY <1>0, <1>5, ReadTableStep
     DEF VanishedWasRemoved, CmdVanished, FoundNone, Idle, Soiled, WentOn
<1>6. ASSUME NEW d \in Devices, NEW u \in Uids, ImportRemote(d, u)
      PROVE  CmdVanished'
  BY <1>0, <1>6, ImportRemoteStep
     DEF VanishedWasRemoved, CmdVanished, FoundNone, Idle, Soiled, WentOn
<1>7. ASSUME NEW d \in Devices, NEW u \in Uids, CancelVanished(d, u)
      PROVE  CmdVanished'
  BY <1>0, <1>7, CancelVanishedStep
     DEF VanishedWasRemoved, CmdVanished, FoundNone, Idle, Soiled, WentOn
<1>8. ASSUME NEW d \in Devices, NEW u \in Uids, StampTie(d, u) PROVE CmdVanished'
  BY <1>0, <1>8, StampTieStep
     DEF VanishedWasRemoved, CmdVanished, FoundNone, Idle, Soiled, WentOn
<1>9. ASSUME NEW d \in Devices, NEW u \in Uids, Publish(d, u) PROVE CmdVanished'
  BY <1>0, <1>9, PublishStep
     DEF VanishedWasRemoved, CmdVanished, FoundNone, Idle, Soiled, WentOn
<1>10. ASSUME NEW d \in Devices, Persist(d) PROVE CmdVanished'
  BY <1>0, <1>10, PersistStep
     DEF VanishedWasRemoved, CmdVanished, FoundNone, Idle, Soiled, WentOn
<1>11. ASSUME NEW d \in Devices, SkipEvent(d) PROVE CmdVanished'
  BY <1>0, <1>11, SkipEventStep
     DEF VanishedWasRemoved, CmdVanished, FoundNone, Idle, Soiled, WentOn
<1>12. ASSUME NEW d \in Devices, Compact(d) PROVE CmdVanished'
  BY <1>0, <1>12, CompactStep
     DEF VanishedWasRemoved, CmdVanished, FoundNone, Idle, Soiled, WentOn
<1>13. ASSUME NEW d \in Devices, CopyToArchive(d) PROVE CmdVanished'
  BY <1>0, <1>13, CopyToArchiveStep
     DEF VanishedWasRemoved, CmdVanished, FoundNone, Idle, Soiled, WentOn
<1>14. ASSUME NEW d \in Devices, DeleteFromFolder(d) PROVE CmdVanished'
  BY <1>0, <1>14, DeleteFromFolderStep
     DEF VanishedWasRemoved, CmdVanished, FoundNone, Idle, Soiled, WentOn
<1>15. ASSUME NEW d \in Devices, Crash(d) PROVE CmdVanished'
  BY <1>0, <1>15, CrashStep
     DEF VanishedWasRemoved, CmdVanished, FoundNone, Idle, Soiled, WentOn
<1>16. ASSUME NEW u \in Uids, RemoveByHand(u) PROVE CmdVanished'
  BY <1>0, <1>16, RemoveByHandStep
     DEF VanishedWasRemoved, CmdVanished, FoundNone, Idle, Soiled, WentOn
<1>17. ASSUME UNCHANGED vars PROVE CmdVanished'
  BY <1>0, <1>17 DEF vars, FoundNone, VanishedWasRemoved, CmdVanished
<1> QED
  BY <1>1, <1>2, <1>3, <1>4, <1>5, <1>6, <1>7, <1>8, <1>9,
     <1>10, <1>11, <1>12, <1>13, <1>14, <1>15, <1>16, <1>17
     DEF Next, RunStep, Command

\* Of the copy the run works with.
LEMMA CopyVanishedKept ==
    ASSUME Typed, AtOK, Numbered, Compaction, PublishedWasSent, VanishedWasRemoved, [Next]_vars
    PROVE  CopyVanished'
<1>0. \A v : WasRemoved(v) => WasRemoved(v)'
  BY HistoryStays
<1>1. ASSUME NEW d \in Devices, NEW u \in Uids, Create(d, u) \/ Import(d, u)
      PROVE  CopyVanished'
  BY <1>0, <1>1, NewRowStep
     DEF VanishedWasRemoved, CopyVanished, FoundNone, Idle, Soiled, WentOn, Pending
<1>2. ASSUME NEW d \in Devices, NEW u \in Uids, ReadForEdit(d, u)
      PROVE  CopyVanished'
  BY <1>0, <1>2, ReadForEditStep
     DEF VanishedWasRemoved, CopyVanished, FoundNone, Idle, Soiled, WentOn, Pending
<1>3. ASSUME NEW d \in Devices, WriteEdit(d) PROVE CopyVanished'
  BY <1>0, <1>3, WriteEditStep
     DEF VanishedWasRemoved, CopyVanished, FoundNone, Idle, Soiled, WentOn, Pending
<1>4. ASSUME NEW d \in Devices, List(d) PROVE CopyVanished'
  BY <1>0, <1>4, ListStep
     DEF VanishedWasRemoved, CopyVanished, FoundNone, Idle, Soiled, WentOn, Pending
<1>5. ASSUME NEW d \in Devices, ReadTable(d) PROVE CopyVanished'
  BY <1>0, <1>5, ReadTableStep
     DEF VanishedWasRemoved, CopyVanished, TableVanished, FoundNone
<1>6. ASSUME NEW d \in Devices, NEW u \in Uids, ImportRemote(d, u)
      PROVE  CopyVanished'
  BY <1>0, <1>6, ImportRemoteStep
     DEF VanishedWasRemoved, CopyVanished, FoundNone, Idle, Soiled, WentOn, Pending
<1>7. ASSUME NEW d \in Devices, NEW u \in Uids, CancelVanished(d, u)
      PROVE  CopyVanished'
  BY <1>0, <1>7, CancelVanishedStep
     DEF VanishedWasRemoved, CopyVanished, FoundNone, Idle, Soiled, WentOn, Pending
<1>8. ASSUME NEW d \in Devices, NEW u \in Uids, StampTie(d, u) PROVE CopyVanished'
  BY <1>0, <1>8, StampTieStep
     DEF VanishedWasRemoved, CopyVanished, FoundNone, Idle, Soiled, WentOn, Pending
<1>9. ASSUME NEW d \in Devices, NEW u \in Uids, Publish(d, u) PROVE CopyVanished'
  BY <1>0, <1>9, PublishStep
     DEF VanishedWasRemoved, CopyVanished, FoundNone, Idle, Soiled, WentOn, Pending
<1>10. ASSUME NEW d \in Devices, Persist(d) PROVE CopyVanished'
  BY <1>0, <1>10, PersistStep
     DEF VanishedWasRemoved, CopyVanished, FoundNone, Idle, Soiled, WentOn, Pending
<1>11. ASSUME NEW d \in Devices, SkipEvent(d) PROVE CopyVanished'
  BY <1>0, <1>11, SkipEventStep
     DEF VanishedWasRemoved, CopyVanished, FoundNone, Idle, Soiled, WentOn, Pending
<1>12. ASSUME NEW d \in Devices, Compact(d) PROVE CopyVanished'
  BY <1>0, <1>12, CompactStep
     DEF VanishedWasRemoved, CopyVanished, FoundNone, Idle, Soiled, WentOn, Pending
<1>13. ASSUME NEW d \in Devices, CopyToArchive(d) PROVE CopyVanished'
  BY <1>0, <1>13, CopyToArchiveStep
     DEF VanishedWasRemoved, CopyVanished, FoundNone, Idle, Soiled, WentOn, Pending
<1>14. ASSUME NEW d \in Devices, DeleteFromFolder(d) PROVE CopyVanished'
  BY <1>0, <1>14, DeleteFromFolderStep
     DEF VanishedWasRemoved, CopyVanished, FoundNone, Idle, Soiled, WentOn, Pending
<1>15. ASSUME NEW d \in Devices, Crash(d) PROVE CopyVanished'
  BY <1>0, <1>15, CrashStep
     DEF VanishedWasRemoved, CopyVanished, FoundNone, Idle, Soiled, WentOn, Pending
<1>16. ASSUME NEW u \in Uids, RemoveByHand(u) PROVE CopyVanished'
  BY <1>0, <1>16, RemoveByHandStep
     DEF VanishedWasRemoved, CopyVanished, FoundNone, Idle, Soiled, WentOn, Pending
<1>17. ASSUME UNCHANGED vars PROVE CopyVanished'
  BY <1>0, <1>17 DEF vars, FoundNone, VanishedWasRemoved, CopyVanished
<1> QED
  BY <1>1, <1>2, <1>3, <1>4, <1>5, <1>6, <1>7, <1>8, <1>9,
     <1>10, <1>11, <1>12, <1>13, <1>14, <1>15, <1>16, <1>17
     DEF Next, RunStep, Command

\* As long as no command writes, the copy stays what the table is.
LEMMA TodoCurrentKept ==
    ASSUME Typed, AtOK, Numbered, CopyCurrent, [Next]_vars
    PROVE  TodoCurrent'
<1>1. ASSUME NEW d \in Devices, NEW u \in Uids, Create(d, u) \/ Import(d, u)
      PROVE  TodoCurrent'
  BY <1>1, NewRowStep
     DEF CopyCurrent, TodoCurrent, Idle, Soiled, WentOn, Wrote, Pending
<1>2. ASSUME NEW d \in Devices, NEW u \in Uids, ReadForEdit(d, u) PROVE TodoCurrent'
  BY <1>2, ReadForEditStep
     DEF CopyCurrent, TodoCurrent, Idle, Soiled, WentOn, Wrote, Pending
<1>3. ASSUME NEW d \in Devices, WriteEdit(d) PROVE TodoCurrent'
  BY <1>3, WriteEditStep
     DEF CopyCurrent, TodoCurrent, Idle, Soiled, WentOn, Wrote, Pending
<1>4. ASSUME NEW d \in Devices, List(d) PROVE TodoCurrent'
  BY <1>4, ListStep DEF CopyCurrent, TodoCurrent, Idle, Soiled, WentOn, Wrote, Pending
<1>5. ASSUME NEW d \in Devices, ReadTable(d) PROVE TodoCurrent'
  BY <1>5, ReadTableStep
     DEF CopyCurrent, TodoCurrent, Idle, Soiled, WentOn, Wrote, Pending
<1>6. ASSUME NEW d \in Devices, NEW u \in Uids, ImportRemote(d, u)
      PROVE  TodoCurrent'
  BY <1>6, ImportRemoteStep
     DEF CopyCurrent, TodoCurrent, Idle, Soiled, WentOn, Wrote, Pending
<1>7. ASSUME NEW d \in Devices, NEW u \in Uids, CancelVanished(d, u)
      PROVE  TodoCurrent'
  BY <1>7, CancelVanishedStep
     DEF CopyCurrent, TodoCurrent, Idle, Soiled, WentOn, Wrote, Pending
<1>8. ASSUME NEW d \in Devices, NEW u \in Uids, StampTie(d, u) PROVE TodoCurrent'
  BY <1>8, StampTieStep
     DEF CopyCurrent, TodoCurrent, Idle, Soiled, WentOn, Wrote, Pending
<1>9. ASSUME NEW d \in Devices, NEW u \in Uids, Publish(d, u) PROVE TodoCurrent'
  BY <1>9, PublishStep
     DEF CopyCurrent, TodoCurrent, Idle, Soiled, WentOn, Wrote, Pending
<1>10. ASSUME NEW d \in Devices, Persist(d) PROVE TodoCurrent'
  BY <1>10, PersistStep DEF CopyCurrent, TodoCurrent, AtOK, Wrote
<1>11. ASSUME NEW d \in Devices, SkipEvent(d) PROVE TodoCurrent'
  BY <1>11, SkipEventStep
     DEF CopyCurrent, TodoCurrent, Idle, Soiled, WentOn, Wrote, Pending
<1>12. ASSUME NEW d \in Devices, Compact(d) PROVE TodoCurrent'
  BY <1>12, CompactStep
     DEF CopyCurrent, TodoCurrent, Idle, Soiled, WentOn, Wrote, Pending
<1>13. ASSUME NEW d \in Devices, CopyToArchive(d) PROVE TodoCurrent'
  BY <1>13, CopyToArchiveStep
     DEF CopyCurrent, TodoCurrent, Idle, Soiled, WentOn, Wrote, Pending
<1>14. ASSUME NEW d \in Devices, DeleteFromFolder(d) PROVE TodoCurrent'
  BY <1>14, DeleteFromFolderStep
     DEF CopyCurrent, TodoCurrent, Idle, Soiled, WentOn, Wrote, Pending
<1>15. ASSUME NEW d \in Devices, Crash(d) PROVE TodoCurrent'
  BY <1>15, CrashStep
     DEF CopyCurrent, TodoCurrent, Idle, Soiled, WentOn, Wrote, Pending
<1>16. ASSUME NEW u \in Uids, RemoveByHand(u) PROVE TodoCurrent'
  BY <1>16, RemoveByHandStep
     DEF CopyCurrent, TodoCurrent, Idle, Soiled, WentOn, Wrote, Pending
<1>17. ASSUME UNCHANGED vars PROVE TodoCurrent'
  BY <1>17 DEF vars, CopyCurrent, TodoCurrent
<1> QED
  BY <1>1, <1>2, <1>3, <1>4, <1>5, <1>6, <1>7, <1>8, <1>9,
     <1>10, <1>11, <1>12, <1>13, <1>14, <1>15, <1>16, <1>17
     DEF Next, RunStep, Command

\* And the row just published keeps its content.
LEMMA AtCurrentKept ==
    ASSUME Typed, AtOK, Numbered, CopyCurrent, [Next]_vars
    PROVE  AtCurrent'
<1>1. ASSUME NEW d \in Devices, NEW u \in Uids, Create(d, u) \/ Import(d, u)
      PROVE  AtCurrent'
  <2>1. \A e \in Devices : run[e].pc = "persist" => run[e].at \in Uids
    BY DEF AtOK
  <2> QED
    BY <1>1, <2>1, NewRowStep DEF CopyCurrent, AtCurrent, Soiled, WentOn, Wrote
<1>2. ASSUME NEW d \in Devices, NEW u \in Uids, ReadForEdit(d, u) PROVE AtCurrent'
  BY <1>2, ReadForEditStep
     DEF CopyCurrent, AtCurrent, Idle, Soiled, WentOn, Wrote, Pending
<1>3. ASSUME NEW d \in Devices, WriteEdit(d) PROVE AtCurrent'
  <2>1. \A e \in Devices : run[e].pc = "persist" => run[e].at \in Uids
    BY DEF AtOK
  <2> QED
    BY <1>3, <2>1, WriteEditStep DEF CopyCurrent, AtCurrent, Soiled, WentOn, Wrote
<1>4. ASSUME NEW d \in Devices, List(d) PROVE AtCurrent'
  BY <1>4, ListStep DEF CopyCurrent, AtCurrent, Idle, Soiled, WentOn, Wrote, Pending
<1>5. ASSUME NEW d \in Devices, ReadTable(d) PROVE AtCurrent'
  BY <1>5, ReadTableStep
     DEF CopyCurrent, AtCurrent, Idle, Soiled, WentOn, Wrote, Pending
<1>6. ASSUME NEW d \in Devices, NEW u \in Uids, ImportRemote(d, u) PROVE AtCurrent'
  <2>1. \A e \in Devices : run[e].pc = "persist" => run[e].at \in Uids
    BY DEF AtOK
  <2> QED
    BY <1>6, <2>1, ImportRemoteStep DEF CopyCurrent, AtCurrent, Soiled, WentOn, Wrote
<1>7. ASSUME NEW d \in Devices, NEW u \in Uids, CancelVanished(d, u)
      PROVE  AtCurrent'
  <2>1. \A e \in Devices : run[e].pc = "persist" => run[e].at \in Uids
    BY DEF AtOK
  <2> QED
    BY <1>7, <2>1, CancelVanishedStep DEF CopyCurrent, AtCurrent, Soiled, WentOn, Wrote
<1>8. ASSUME NEW d \in Devices, NEW u \in Uids, StampTie(d, u) PROVE AtCurrent'
  <2>1. \A e \in Devices : run[e].pc = "persist" => run[e].at \in Uids
    BY DEF AtOK
  <2> QED
    BY <1>8, <2>1, StampTieStep DEF CopyCurrent, AtCurrent, Soiled, WentOn, Wrote
<1>9. ASSUME NEW d \in Devices, NEW u \in Uids, Publish(d, u) PROVE AtCurrent'
  BY <1>9, PublishStep DEF CopyCurrent, TodoCurrent, AtCurrent, Pending
<1>10. ASSUME NEW d \in Devices, Persist(d) PROVE AtCurrent'
  <2>1. \A e \in Devices : run[e].pc = "persist" => run[e].at \in Uids
    BY DEF AtOK
  <2> QED
    BY <1>10, <2>1, PersistStep DEF CopyCurrent, AtCurrent, Soiled, WentOn, Wrote
<1>11. ASSUME NEW d \in Devices, SkipEvent(d) PROVE AtCurrent'
  BY <1>11, SkipEventStep
     DEF CopyCurrent, AtCurrent, Idle, Soiled, WentOn, Wrote, Pending
<1>12. ASSUME NEW d \in Devices, Compact(d) PROVE AtCurrent'
  BY <1>12, CompactStep
     DEF CopyCurrent, AtCurrent, Idle, Soiled, WentOn, Wrote, Pending
<1>13. ASSUME NEW d \in Devices, CopyToArchive(d) PROVE AtCurrent'
  BY <1>13, CopyToArchiveStep
     DEF CopyCurrent, AtCurrent, Idle, Soiled, WentOn, Wrote, Pending
<1>14. ASSUME NEW d \in Devices, DeleteFromFolder(d) PROVE AtCurrent'
  BY <1>14, DeleteFromFolderStep
     DEF CopyCurrent, AtCurrent, Idle, Soiled, WentOn, Wrote, Pending
<1>15. ASSUME NEW d \in Devices, Crash(d) PROVE AtCurrent'
  BY <1>15, CrashStep DEF CopyCurrent, AtCurrent, Idle, Soiled, WentOn, Wrote, Pending
<1>16. ASSUME NEW u \in Uids, RemoveByHand(u) PROVE AtCurrent'
  BY <1>16, RemoveByHandStep
     DEF CopyCurrent, AtCurrent, Idle, Soiled, WentOn, Wrote, Pending
<1>17. ASSUME UNCHANGED vars PROVE AtCurrent'
  BY <1>17 DEF vars, CopyCurrent, AtCurrent
<1> QED
  BY <1>1, <1>2, <1>3, <1>4, <1>5, <1>6, <1>7, <1>8, <1>9,
     <1>10, <1>11, <1>12, <1>13, <1>14, <1>15, <1>16, <1>17
     DEF Next, RunStep, Command

-----------------------------------------------------------------------------
(***************************************************************************)
(* The theorems.                                                           *)
(***************************************************************************)

\* The invariant holds at the start.
LEMMA InitIInv == ASSUME Init PROVE IInv
<1>1. Typed
  <2>1. \A n : Idle \in Runs(n)
    BY IdleIsRun
  <2>2. run \in [Devices -> Runs(edits)]
    BY <2>1 DEF Init
  <2>3. rows \in [Devices -> Tables(edits)] /\ cmd \in [Devices -> Cmds(edits)]
    BY DEF Init, Tables, Cmds
  <2> QED
    BY <2>2, <2>3 DEF Init, Typed
<1>2. /\ \A d \in Devices : run[d] = Idle /\ cmd[d] = NoCmd
      /\ \A d \in Devices, u \in Uids : rows[d][u] = NoRow
      /\ sent = {} /\ folder = {} /\ archive = {} /\ removed = {}
  BY DEF Init
<1>3. AtOK /\ WinnersSent
  BY <1>2 DEF AtOK, WinnersSent, Idle
<1>4. Numbered
  BY <1>2, FS_EmptySet DEF Numbered
<1>5. Compaction
  BY <1>2 DEF Compaction, Idle
<1>6. PublishedWasSent
  BY <1>2 DEF PublishedWasSent, TableWasSent, CopyWasSent, CmdWasSent, AtWasSent, Published,
              Idle, NoTable
<1>7. VanishedWasRemoved /\ CopyCurrent
  BY <1>2 DEF VanishedWasRemoved, TableVanished, CmdVanished, CopyVanished, CopyCurrent,
              TodoCurrent, AtCurrent, Idle
<1> QED
  BY <1>1, <1>3, <1>4, <1>5, <1>6, <1>7 DEF IInv

\* Every step keeps the invariant.
LEMMA IInvKept == ASSUME IInv, [Next]_vars PROVE IInv'
<1>1. /\ Typed /\ AtOK /\ Numbered /\ WinnersSent /\ Compaction
      /\ PublishedWasSent /\ VanishedWasRemoved /\ CopyCurrent
  BY DEF IInv
<1>2. Typed' /\ AtOK' /\ Numbered' /\ WinnersSent' /\ Compaction'
  BY <1>1, TypedKept, AtOKKept, NumberedKept, WinnersKept, CompactionKept
<1>3. PublishedWasSent'
  <2>1. TableWasSent' /\ CopyWasSent' /\ CmdWasSent' /\ AtWasSent'
    BY <1>1, TableWasSentKept, CopyWasSentKept, CmdWasSentKept, AtWasSentKept
  <2> QED
    BY <2>1 DEF PublishedWasSent
<1>4. VanishedWasRemoved'
  <2>1. TableVanished' /\ CmdVanished' /\ CopyVanished'
    BY <1>1, TableVanishedKept, CmdVanishedKept, CopyVanishedKept
  <2> QED
    BY <2>1 DEF VanishedWasRemoved
<1>5. CopyCurrent'
  <2>1. TodoCurrent' /\ AtCurrent'
    BY <1>1, TodoCurrentKept, AtCurrentKept
  <2> QED
    BY <2>1 DEF CopyCurrent
<1> QED
  BY <1>2, <1>3, <1>4, <1>5 DEF IInv

\* The invariant holds in every state (timeprotocol/sync.rs:203-449 beside the
\* commands of timeprotocol/commands.rs).
THEOREM CalendarSyncIInvAlways == Spec => []IInv
<1>1. Init => IInv
  BY InitIInv
<1>2. IInv /\ [Next]_vars => IInv'
  BY IInvKept
<1> QED
  BY <1>1, <1>2, PTL DEF Spec

\* Rows, messages, runs and commands keep their types, and no row claims to have
\* published a SEQUENCE it has not reached (last_published_sequence, store.rs:304).
THEOREM TypeCorrect == Spec => []TypeOK
<1>1. ASSUME IInv PROVE TypeOK
  <2>1. Typed
    BY <1>1 DEF IInv
  <2>2. MsgsUpTo(edits) \subseteq Msg
    BY <2>1, SentAreMsgs
  <2>3. ASSUME NEW d \in Devices, NEW u \in Uids, rows[d][u] # NoRow
        PROVE  rows[d][u] \in Row /\ rows[d][u].pub <= rows[d][u].seq
    <3>1. rows[d][u] \in RowsUpTo(edits) /\ edits \in 0..MaxEdits
      BY <2>1, <2>3, Held
    <3>2. rows[d][u].pub <= rows[d][u].seq
      BY <3>1 DEF RowsUpTo
    <3> QED
      BY <3>1, <3>2, UpToBounds
  <2>4. \A d \in Devices : run[d].todo \subseteq Uids /\ run[d].moving \subseteq Msg
    BY <2>1, <2>2 DEF Typed, Runs
  <2>5. /\ folder \subseteq Msg /\ archive \subseteq Msg
        /\ sent \subseteq Msg /\ removed \subseteq Msg
    BY <2>1, <2>2 DEF Typed
  <2> QED
    BY <2>3, <2>4, <2>5 DEF TypeOK
<1> QED
  BY <1>1, CalendarSyncIInvAlways, PTL

\* However many devices publish, compact, fail and crash, and whoever deletes by
\* hand: no revision is lost, and the newest one of each event is in the folder
\* unless it was deleted by hand (compaction, sync.rs:372-449).
THEOREM NoRevisionIsLost == Spec => []FolderKeepsNewest
<1>1. ASSUME IInv PROVE FolderKeepsNewest
  <2>1. Typed /\ Compaction
    BY <1>1 DEF IInv
  <2>2. \A u \in Uids : Newest(sent, u) \in folder \cup removed \cup {NoMsg}
    BY <2>1, NewestIsKept
  <2> QED
    BY <2>1, <2>2 DEF FolderKeepsNewest, Compaction
<1> QED
  BY <1>1, CalendarSyncIInvAlways, PTL

\* A run with a whole list cancels only what was deleted by hand
\* (sync.rs:293-315).
THEOREM CancelsAreJustified == Spec => CancelJustified
<1>1. ASSUME IInv, NEW d \in Devices, NEW u \in Uids, CancelVanished(d, u), run[d].whole
      PROVE  \E m \in removed : m.uid = u
  <2>1. Typed /\ CopyVanished
    BY <1>1 DEF IInv, VanishedWasRemoved
  <2>2. /\ Pending(d, u) /\ run[d].winners[u] = NoMsg
        /\ Published(run[d].locals[u])
    BY <1>1, <2>1, CancelVanishedStep
  <2>3. WasRemoved(u)
    BY <1>1, <2>1, <2>2 DEF CopyVanished, FoundNone, Pending
  <2> QED
    BY <2>3 DEF WasRemoved
<1>2. IInv /\ [Next]_vars =>
        [\A d \in Devices, u \in Uids :
            CancelVanished(d, u) /\ run[d].whole => \E m \in removed : m.uid = u]_vars
  BY <1>1
<1> QED
  BY <1>2, CalendarSyncIInvAlways, PTL DEF Spec, CancelJustified

\* A step that changes the content of a row of an undisturbed run imports a
\* revision that was sent and has a higher SEQUENCE.
QuietStep ==
    \A d \in Devices, u \in Uids :
        /\ run[d].pc \in {"apply", "persist"} /\ ~run[d].dirty /\ ~run'[d].dirty
        /\ rows[d][u] # NoRow /\ rows'[d][u].ver # rows[d][u].ver
        => \E m \in sent : /\ m.uid = u /\ m.ver = rows'[d][u].ver
                           /\ m.seq > rows[d][u].seq

\* Every step is such a step.
LEMMA QuietSteps ==
    ASSUME Typed, AtOK, Numbered, WinnersSent, CopyCurrent, [Next]_vars
    PROVE  QuietStep
<1>1. ASSUME NEW d \in Devices, NEW u \in Uids, Create(d, u) \/ Import(d, u)
      PROVE  QuietStep
  BY <1>1, NewRowStep DEF QuietStep, Wrote, Soiled
<1>2. ASSUME NEW d \in Devices, NEW u \in Uids, ReadForEdit(d, u) PROVE QuietStep
  BY <1>2, ReadForEditStep DEF QuietStep
<1>3. ASSUME NEW d \in Devices, WriteEdit(d) PROVE QuietStep
  BY <1>3, WriteEditStep DEF QuietStep, Wrote, Soiled
<1>4. ASSUME NEW d \in Devices, List(d) PROVE QuietStep
  BY <1>4, ListStep DEF QuietStep
<1>5. ASSUME NEW d \in Devices, ReadTable(d) PROVE QuietStep
  BY <1>5, ReadTableStep DEF QuietStep
<1>6. ASSUME NEW d \in Devices, NEW u \in Uids, ImportRemote(d, u) PROVE QuietStep
  <2> DEFINE m == run[d].winners[u]
  <2>1. /\ m \in sent /\ m.uid = u
    BY <1>6, ImportRemoteStep DEF WinnersSent
  <2>2. Wrote(d, u, AsRow(m)) /\ AsRow(m).ver = m.ver
    BY <1>6, ImportRemoteStep DEF AsRow
  <2>3. ~run[d].dirty => rows[d][u] = run[d].locals[u]
    BY <1>6, ImportRemoteStep DEF CopyCurrent, TodoCurrent, Pending
  <2>4. run[d].locals[u] # NoRow => m.seq > run[d].locals[u].seq
    BY <1>6, ImportRemoteStep
  <2> HIDE DEF m
  <2> QED
    BY <2>1, <2>2, <2>3, <2>4 DEF QuietStep, Wrote
<1>7. ASSUME NEW d \in Devices, NEW u \in Uids, CancelVanished(d, u) PROVE QuietStep
  BY <1>7, CancelVanishedStep
     DEF QuietStep, CopyCurrent, TodoCurrent, AtCurrent, Wrote, Pending
<1>8. ASSUME NEW d \in Devices, NEW u \in Uids, StampTie(d, u) PROVE QuietStep
  BY <1>8, StampTieStep
     DEF QuietStep, CopyCurrent, TodoCurrent, AtCurrent, Wrote, Pending
<1>9. ASSUME NEW d \in Devices, NEW u \in Uids, Publish(d, u) PROVE QuietStep
  BY <1>9, PublishStep DEF QuietStep
<1>10. ASSUME NEW d \in Devices, Persist(d) PROVE QuietStep
  BY <1>10, PersistStep
     DEF QuietStep, CopyCurrent, TodoCurrent, AtCurrent, Wrote, Pending
<1>11. ASSUME NEW d \in Devices, SkipEvent(d) PROVE QuietStep
  BY <1>11, SkipEventStep DEF QuietStep
<1>12. ASSUME NEW d \in Devices, Compact(d) PROVE QuietStep
  BY <1>12, CompactStep DEF QuietStep
<1>13. ASSUME NEW d \in Devices, CopyToArchive(d) PROVE QuietStep
  BY <1>13, CopyToArchiveStep DEF QuietStep
<1>14. ASSUME NEW d \in Devices, DeleteFromFolder(d) PROVE QuietStep
  BY <1>14, DeleteFromFolderStep DEF QuietStep
<1>15. ASSUME NEW d \in Devices, Crash(d) PROVE QuietStep
  BY <1>15, CrashStep DEF QuietStep
<1>16. ASSUME NEW u \in Uids, RemoveByHand(u) PROVE QuietStep
  BY <1>16, RemoveByHandStep DEF QuietStep
<1>17. ASSUME UNCHANGED vars PROVE QuietStep
  BY <1>17 DEF vars, QuietStep
<1> QED
  BY <1>1, <1>2, <1>3, <1>4, <1>5, <1>6, <1>7, <1>8, <1>9,
     <1>10, <1>11, <1>12, <1>13, <1>14, <1>15, <1>16, <1>17
     DEF Next, RunStep, Command

\* A run that no command disturbs replaces the content of a row only by a
\* revision of higher SEQUENCE that some device published (sync.rs:316-347).
THEOREM QuietRunsKeepEdits == Spec => QuietRunKeepsEdits
<1>1. IInv /\ [Next]_vars => QuietStep
  BY QuietSteps DEF IInv
<1>2. IInv /\ [Next]_vars =>
        [\A d \in Devices, u \in Uids :
            /\ run[d].pc \in {"apply", "persist"} /\ ~run[d].dirty /\ ~run'[d].dirty
            /\ rows[d][u] # NoRow /\ rows'[d][u].ver # rows[d][u].ver
            => \E m \in sent : /\ m.uid = u /\ m.ver = rows'[d][u].ver
                               /\ m.seq > rows[d][u].seq]_vars
  BY <1>1 DEF QuietStep
<1> QED
  BY <1>2, CalendarSyncIInvAlways, PTL DEF Spec, QuietRunKeepsEdits
=============================================================================
