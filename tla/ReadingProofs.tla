---------------------------- MODULE ReadingProofs ----------------------------
(***************************************************************************)
(* Proofs about Reading, for any messages, any number of fetches at a time *)
(* and any limit of the prefetch.                                          *)
(***************************************************************************)
EXTENDS Reading, TLAPS

PCs == {"idle", "connect", "select", "body", "store", "cancelled"}
FetchRecords == [pc : PCs, msg : SUBSET Msgs, signal : Signals, asked : BOOLEAN, alone : BOOLEAN]

\* What TypeOK says of the calls, the part every other invariant rests on.
CallsOK ==
    /\ token \in [Msgs -> Fetches \cup {NoFetch}]
    /\ fetch \in [Fetches -> FetchRecords]

\* Two fetches of one message under way: neither counts as alone.
NotAlone ==
    \A f, g \in Fetches :
        f # g /\ Active(f) /\ Active(g) /\ fetch[f].msg = fetch[g].msg => ~fetch[f].alone

\* Nothing but cancel_pending_fetch has woken a fetch that is alone.
SignalAsked ==
    \A f \in Fetches : fetch[f].alone /\ Active(f) /\ fetch[f].signal # "open" => fetch[f].asked

IInv == CallsOK /\ TokensLive /\ NotAlone /\ SignalAsked /\ AloneCancelledOnRequest

-----------------------------------------------------------------------------
(* The calls of fetch_and_store.                                           *)

LEMMA ReadingInitIInv == Init => IInv
  BY ReadingAssumption DEF ReadingAssumption, Init, IInv, CallsOK, FetchRecords, PCs, Signals, Idle,
     TokensLive, NotAlone, SignalAsked, AloneCancelledOnRequest, Active

\* A dropped token changes the signal of its fetch and nothing else.
LEMMA DropWakes ==
    ASSUME CallsOK, NEW t
    PROVE  /\ Drop(t) \in [Fetches -> FetchRecords]
           /\ \A f \in Fetches :
                /\ Drop(t)[f].pc = fetch[f].pc
                /\ Drop(t)[f].msg = fetch[f].msg
                /\ Drop(t)[f].asked = fetch[f].asked
                /\ Drop(t)[f].alone = fetch[f].alone
                /\ f # t => Drop(t)[f] = fetch[f]
  BY DEF CallsOK, Drop, FetchRecords, Signals

\* Only the token of m itself makes room for a new one.
LEMMA DisplacedIsOfMessage ==
    ASSUME CallsOK, NEW f \in Fetches, NEW m \in Msgs, NEW g \in Displaced(f, m)
    PROVE  g = token[m] /\ g \in Fetches
  BY DEF CallsOK, Displaced, Replaced

\* What a new fetch does to the calls.
LEMMA OpenChanges ==
    ASSUME IInv, NEW f \in Fetches, NEW m \in Msgs, Open(f, m)
    PROVE  /\ CallsOK'
           /\ fetch'[f].msg = {m} /\ fetch'[f].pc = "connect" /\ fetch'[f].signal = "open"
           /\ fetch'[f].alone => FetchesOf(m) = {}
           /\ \A g \in Fetches \ {f} :
                /\ fetch'[g].pc = fetch[g].pc
                /\ fetch'[g].msg = fetch[g].msg
                /\ fetch'[g].asked = fetch[g].asked
                /\ fetch'[g].alone => fetch[g].alone /\ g \notin FetchesOf(m)
                /\ g # token[m] => fetch'[g].signal = fetch[g].signal
           /\ token' = [token EXCEPT ![m] = f]
           /\ ~Active(f)
<1> DEFINE Kept(g) == IF g \in Displaced(f, m) THEN Drop(g)[g] ELSE fetch[g]
<1> DEFINE new == [Idle EXCEPT !.pc = "connect", !.msg = {m}, !.alone = FetchesOf(m) = {}]
<1>1. fetch' = [g \in Fetches |-> IF g = f THEN new
                  ELSE IF g \in FetchesOf(m) THEN [Kept(g) EXCEPT !.alone = FALSE] ELSE Kept(g)]
  BY DEF Open
<1>2. CallsOK
  BY DEF IInv
<1>3. new \in FetchRecords /\ new.msg = {m} /\ new.pc = "connect" /\ new.signal = "open"
      /\ (new.alone <=> FetchesOf(m) = {})
  BY DEF FetchRecords, PCs, Signals, Idle
<1>4. ASSUME NEW g \in Fetches
      PROVE  /\ Kept(g) \in FetchRecords
             /\ Kept(g).pc = fetch[g].pc
             /\ Kept(g).msg = fetch[g].msg
             /\ Kept(g).asked = fetch[g].asked
             /\ Kept(g).alone = fetch[g].alone
             /\ g # token[m] => Kept(g).signal = fetch[g].signal
  <2>1. fetch[g] \in FetchRecords /\ Drop(g)[g] \in FetchRecords
    BY <1>2, DropWakes DEF CallsOK
  <2> QED
    BY <1>2, <2>1, DropWakes, DisplacedIsOfMessage
<1>5. ASSUME NEW g \in Fetches \ {f}
      PROVE  /\ fetch'[g] \in FetchRecords
             /\ fetch'[g].pc = fetch[g].pc
             /\ fetch'[g].msg = fetch[g].msg
             /\ fetch'[g].asked = fetch[g].asked
             /\ fetch'[g].alone => fetch[g].alone /\ g \notin FetchesOf(m)
             /\ g # token[m] => fetch'[g].signal = fetch[g].signal
  <2> HIDE DEF Kept
  <2>1. fetch'[g] = IF g \in FetchesOf(m) THEN [Kept(g) EXCEPT !.alone = FALSE] ELSE Kept(g)
    BY <1>1
  <2> QED
    BY <2>1, <1>4 DEF FetchRecords
<1>6. token' = [token EXCEPT ![m] = f]
  BY DEF Open, Replaced
<1>7. fetch'[f] = new
  BY <1>1
<1>8. \A g \in Fetches : fetch'[g] \in FetchRecords
  BY <1>3, <1>5, <1>7
<1>9. fetch' \in [Fetches -> FetchRecords]
  <2> DEFINE F(g) == IF g = f THEN new
                     ELSE IF g \in FetchesOf(m) THEN [Kept(g) EXCEPT !.alone = FALSE] ELSE Kept(g)
  <2>1. fetch' = [g \in Fetches |-> F(g)]
    BY <1>1
  <2> HIDE DEF F
  <2>2. \A g \in Fetches : F(g) \in FetchRecords
    BY <2>1, <1>8
  <2> QED
    BY <2>1, <2>2
<1>10. ~Active(f)
  BY DEF Open, Active
<1> HIDE DEF Kept, new
<1>11. CallsOK'
  BY <1>2, <1>6, <1>9 DEF CallsOK
<1> QED
  BY <1>3, <1>5, <1>6, <1>7, <1>10, <1>11

\* What the end of a call, of either kind, does to the calls.
LEMMA LeaveChanges ==
    ASSUME IInv, NEW f \in Fetches, NEW m \in Msgs, NEW l \in {"idle", "cancelled"},
           fetch[f].msg = {m}, Active(f), Leave(f, m, l)
    PROVE  /\ CallsOK'
           /\ token' = [token EXCEPT ![m] = NoFetch]
           /\ fetch'[f].pc = l
           /\ l = "idle" => ~fetch'[f].alone
           /\ l = "cancelled" => fetch'[f].alone = fetch[f].alone /\ fetch'[f].asked = fetch[f].asked
           /\ \A g \in Fetches \ {f} :
                /\ fetch'[g].pc = fetch[g].pc
                /\ fetch'[g].msg = fetch[g].msg
                /\ fetch'[g].asked = fetch[g].asked
                /\ fetch'[g].alone = fetch[g].alone
                /\ g # token[m] => fetch'[g].signal = fetch[g].signal
<1> DEFINE mid == IF token[m] = f THEN fetch ELSE Drop(token[m])
<1>1. /\ mid \in [Fetches -> FetchRecords]
      /\ \A g \in Fetches :
            /\ mid[g].pc = fetch[g].pc
            /\ mid[g].msg = fetch[g].msg
            /\ mid[g].asked = fetch[g].asked
            /\ mid[g].alone = fetch[g].alone
            /\ g # token[m] => mid[g] = fetch[g]
  BY DropWakes DEF IInv, CallsOK
<1>2. fetch' = [mid EXCEPT ![f] = IF l = "idle" THEN Idle ELSE [@ EXCEPT !.pc = l]]
  BY DEF Leave
<1>3. token' = [token EXCEPT ![m] = NoFetch]
  BY DEF Leave
<1> HIDE DEF mid
<1>4. Idle \in FetchRecords /\ ~Idle.alone /\ Idle.pc = "idle"
  BY DEF Idle, FetchRecords, PCs, Signals
<1>5. fetch'[f] = IF l = "idle" THEN Idle ELSE [mid[f] EXCEPT !.pc = l]
  BY <1>1, <1>2
<1>6. mid[f] \in FetchRecords
  BY <1>1
<1>7. fetch'[f] \in FetchRecords
  BY <1>4, <1>5, <1>6 DEF FetchRecords, PCs
<1>8. fetch' \in [Fetches -> FetchRecords]
  BY <1>1, <1>2, <1>5, <1>7
<1>9. CallsOK'
  BY <1>3, <1>8 DEF IInv, CallsOK
<1>10. l = "cancelled" => fetch'[f].pc = l /\ fetch'[f].alone = mid[f].alone /\ fetch'[f].asked = mid[f].asked
  BY <1>5, <1>6 DEF FetchRecords
<1>11. \A g \in Fetches \ {f} : fetch'[g] = mid[g]
  BY <1>1, <1>2
<1> QED
  BY <1>1, <1>3, <1>4, <1>5, <1>9, <1>10, <1>11

\* A call that ends keeps the invariant; one that ends as cancelled was woken.
LEMMA LeaveKeepsIInv ==
    ASSUME IInv, NEW f \in Fetches, NEW m \in Msgs, NEW l \in {"idle", "cancelled"},
           fetch[f].msg = {m}, Active(f), Leave(f, m, l),
           l = "cancelled" => fetch[f].signal # "open"
    PROVE  IInv'
<1>1. CallsOK'
  BY LeaveChanges
<1>2. \A g \in Fetches : Active(g)' => Active(g) /\ g # f
  BY LeaveChanges DEF Active
<1>3. TokensLive'
  <2> SUFFICES ASSUME NEW n \in Msgs, token'[n] # NoFetch
               PROVE  fetch'[token'[n]].msg = {n} /\ fetch'[token'[n]].pc \notin {"idle", "cancelled"}
    BY DEF TokensLive, Active
  <2>1. n # m /\ token'[n] = token[n]
    BY LeaveChanges DEF IInv, CallsOK
  <2>2. token[n] \in Fetches /\ fetch[token[n]].msg = {n} /\ Active(token[n])
    BY <2>1 DEF IInv, CallsOK, TokensLive, Active
  <2>3. token[n] # f
    BY <2>1, <2>2
  <2> QED
    BY <2>1, <2>2, <2>3, LeaveChanges DEF Active
<1>4. NotAlone'
  BY <1>2, LeaveChanges DEF NotAlone, IInv
<1>5. SignalAsked'
  <2> SUFFICES ASSUME NEW g \in Fetches, fetch'[g].alone, Active(g)', fetch'[g].signal # "open"
               PROVE  fetch'[g].asked
    BY DEF SignalAsked
  <2>1. Active(g) /\ g # f /\ fetch[g].alone /\ fetch'[g].asked = fetch[g].asked
    BY <1>2, LeaveChanges
  <2>2. g # token[m]
    BY <2>1, ReadingAssumption DEF IInv, TokensLive, NotAlone, ReadingAssumption
  <2> QED
    BY <2>1, <2>2, LeaveChanges DEF IInv, SignalAsked
<1>6. AloneCancelledOnRequest'
  <2> SUFFICES ASSUME NEW g \in Fetches, fetch'[g].pc = "cancelled", fetch'[g].alone
               PROVE  fetch'[g].asked
    BY DEF AloneCancelledOnRequest
  <2>1. CASE g = f
    BY <2>1, LeaveChanges DEF IInv, SignalAsked
  <2>2. CASE g # f
    BY <2>2, LeaveChanges DEF IInv, AloneCancelledOnRequest
  <2> QED
    BY <2>1, <2>2
<1> QED
  BY <1>1, <1>3, <1>4, <1>5, <1>6 DEF IInv

\* A call that goes on to its next command keeps it.
LEMMA GotoKeepsIInv ==
    ASSUME IInv, NEW f \in Fetches, NEW l \in {"select", "body", "store"}, Active(f), Goto(f, l)
    PROVE  IInv'
<1>1. fetch' \in [Fetches -> FetchRecords] /\ token' = token
  BY DEF Goto, IInv, CallsOK, FetchRecords, PCs
<1>2. \A g \in Fetches : /\ fetch'[g].msg = fetch[g].msg /\ fetch'[g].signal = fetch[g].signal
                         /\ fetch'[g].asked = fetch[g].asked /\ fetch'[g].alone = fetch[g].alone
                         /\ Active(g)' = Active(g)
                         /\ fetch'[g].pc = "cancelled" => fetch[g].pc = "cancelled"
  BY DEF Goto, IInv, CallsOK, FetchRecords, Active
<1> QED
  BY <1>1, <1>2 DEF IInv, CallsOK, TokensLive, NotAlone, SignalAsked, AloneCancelledOnRequest

LEMMA OpenKeepsIInv ==
    ASSUME IInv, NEW f \in Fetches, NEW m \in Msgs, Open(f, m)
    PROVE  IInv'
<1>1. CallsOK' /\ ~Active(f) /\ Active(f)'
  BY OpenChanges DEF Active
<1>2. \A g \in Fetches \ {f} : Active(g)' = Active(g)
  BY OpenChanges DEF Active
<1>3. TokensLive'
  <2> SUFFICES ASSUME NEW n \in Msgs, token'[n] # NoFetch
               PROVE  fetch'[token'[n]].msg = {n} /\ fetch'[token'[n]].pc \notin {"idle", "cancelled"}
    BY DEF TokensLive, Active
  <2>1. CASE n = m
    BY <1>1, <2>1, OpenChanges DEF IInv, CallsOK
  <2>2. CASE n # m
    <3>1. token'[n] = token[n] /\ token[n] \in Fetches /\ fetch[token[n]].msg = {n} /\ Active(token[n])
      BY <2>2, OpenChanges DEF IInv, CallsOK, TokensLive
    <3>2. token[n] # f
      BY <1>1, <3>1
    <3> QED
      BY <3>1, <3>2, OpenChanges DEF Active
  <2> QED
    BY <2>1, <2>2
<1>4. NotAlone'
  <2> SUFFICES ASSUME NEW g \in Fetches, NEW h \in Fetches, g # h, Active(g)', Active(h)',
                      fetch'[g].msg = fetch'[h].msg
               PROVE  ~fetch'[g].alone
    BY DEF NotAlone
  <2>1. CASE g = f
    <3>1. h \in FetchesOf(m)
      BY <1>2, <2>1, OpenChanges DEF FetchesOf
    <3> QED
      BY <2>1, <3>1, OpenChanges
  <2>2. CASE h = f
    <3>1. g \in FetchesOf(m)
      BY <1>2, <2>2, OpenChanges DEF FetchesOf
    <3> QED
      BY <2>2, <3>1, OpenChanges
  <2>3. CASE g # f /\ h # f
    BY <1>2, <2>3, OpenChanges DEF IInv, NotAlone
  <2> QED
    BY <2>1, <2>2, <2>3
<1>5. SignalAsked'
  <2> SUFFICES ASSUME NEW g \in Fetches, fetch'[g].alone, Active(g)', fetch'[g].signal # "open"
               PROVE  fetch'[g].asked
    BY DEF SignalAsked
  <2>1. g # f /\ Active(g) /\ fetch[g].alone /\ g \notin FetchesOf(m) /\ fetch'[g].asked = fetch[g].asked
    BY <1>2, OpenChanges
  <2>2. g # token[m]
    BY <2>1, ReadingAssumption DEF IInv, TokensLive, FetchesOf, ReadingAssumption
  <2> QED
    BY <2>1, <2>2, OpenChanges DEF IInv, SignalAsked
<1>6. AloneCancelledOnRequest'
  <2> SUFFICES ASSUME NEW g \in Fetches, fetch'[g].pc = "cancelled", fetch'[g].alone
               PROVE  fetch'[g].asked
    BY DEF AloneCancelledOnRequest
  <2> QED
    BY OpenChanges DEF IInv, AloneCancelledOnRequest
<1> QED
  BY <1>1, <1>3, <1>4, <1>5, <1>6 DEF IInv

LEMMA CancelKeepsIInv ==
    ASSUME IInv, NEW m \in Msgs, CancelPendingFetch(m)
    PROVE  IInv'
<1>1. token' = [token EXCEPT ![m] = NoFetch]
  BY DEF CancelPendingFetch
<1>2. ASSUME NEW g \in Fetches
      PROVE  /\ fetch'[g] \in FetchRecords
             /\ fetch'[g].pc = fetch[g].pc /\ fetch'[g].msg = fetch[g].msg
             /\ fetch'[g].alone = fetch[g].alone
             /\ fetch[g].asked => fetch'[g].asked
             /\ fetch'[g].signal = fetch[g].signal \/ fetch'[g].asked
  BY DEF CancelPendingFetch, IInv, CallsOK, FetchRecords, Signals
<1>3. fetch' \in [Fetches -> FetchRecords]
  <2> DEFINE F(g) == IF g \in FetchesOf(m)
                     THEN [fetch[g] EXCEPT !.asked = TRUE, !.signal = IF token[m] = g THEN "sent" ELSE @]
                     ELSE fetch[g]
  <2>1. fetch' = [g \in Fetches |-> F(g)]
    BY DEF CancelPendingFetch
  <2> HIDE DEF F
  <2>2. \A g \in Fetches : F(g) \in FetchRecords
    BY <1>2, <2>1
  <2> QED
    BY <2>1, <2>2
<1>4. CallsOK'
  BY <1>1, <1>3 DEF IInv, CallsOK
<1>5. \A g \in Fetches : Active(g)' = Active(g)
  BY <1>2 DEF Active
<1>6. TokensLive'
  <2> SUFFICES ASSUME NEW n \in Msgs, token'[n] # NoFetch
               PROVE  fetch'[token'[n]].msg = {n} /\ fetch'[token'[n]].pc \notin {"idle", "cancelled"}
    BY DEF TokensLive, Active
  <2>1. token'[n] = token[n] /\ token[n] \in Fetches
    BY <1>1 DEF IInv, CallsOK
  <2>2. fetch[token[n]].msg = {n} /\ Active(token[n])
    BY <2>1 DEF IInv, TokensLive
  <2> QED
    BY <2>1, <2>2, <1>2 DEF Active
<1> QED
  BY <1>2, <1>4, <1>5, <1>6 DEF IInv, NotAlone, SignalAsked, AloneCancelledOnRequest

\* A step that leaves the calls alone.
LEMMA CallsUntouched ==
    ASSUME IInv, UNCHANGED <<token, fetch>>
    PROVE  IInv'
  BY DEF IInv, CallsOK, TokensLive, NotAlone, SignalAsked, AloneCancelledOnRequest, Active

LEMMA FetchStepKeepsIInv ==
    ASSUME IInv, NEW f \in Fetches, FetchStep(f)
    PROVE  IInv'
<1>1. CASE Answered(f)
  <2>1. fetch' = [fetch EXCEPT ![f] = Idle] /\ token' = token /\ fetch[f].pc = "cancelled"
    BY <1>1 DEF Answered
  <2>2. Idle \in FetchRecords /\ ~Idle.alone /\ Idle.pc = "idle"
    BY DEF Idle, FetchRecords, PCs, Signals
  <2>3. fetch' \in [Fetches -> FetchRecords]
    BY <2>1, <2>2 DEF IInv, CallsOK
  <2>4. \A g \in Fetches : Active(g)' = Active(g) /\ (g # f => fetch'[g] = fetch[g])
    BY <2>1, <2>2 DEF Active, IInv, CallsOK
  <2>5. ~Active(f) /\ ~fetch'[f].alone
    BY <2>1, <2>2 DEF Active, IInv, CallsOK
  <2> QED
    BY <2>1, <2>3, <2>4, <2>5 DEF IInv, CallsOK, TokensLive, NotAlone, SignalAsked, AloneCancelledOnRequest
<1>2. ASSUME NEW m \in Msgs, Connect(f, m) PROVE IInv'
  <2>1. Active(f) /\ fetch[f].msg = {m}
    BY <1>2 DEF Connect, Active
  <2>2. Goto(f, "select") \/ Leave(f, m, "idle")
    BY <1>2 DEF Connect
  <2> QED
    BY <2>1, <2>2, GotoKeepsIInv, LeaveKeepsIInv
<1>3. ASSUME NEW m \in Msgs, Cancelled(f, m) PROVE IInv'
  BY <1>3, LeaveKeepsIInv DEF Cancelled, Active
<1>4. ASSUME NEW m \in Msgs, Select(f, m) PROVE IInv'
  <2>1. Active(f) /\ fetch[f].msg = {m}
    BY <1>4 DEF Select, Active
  <2>2. Goto(f, "body") \/ Leave(f, m, "idle")
    BY <1>4 DEF Select
  <2> QED
    BY <2>1, <2>2, GotoKeepsIInv, LeaveKeepsIInv
<1>5. ASSUME NEW m \in Msgs, FetchBody(f, m) PROVE IInv'
  <2>1. Active(f) /\ fetch[f].msg = {m}
    BY <1>5 DEF FetchBody, Active
  <2>2. \/ Goto(f, "store")
        \/ Leave(f, m, "idle")
        \/ fetch[f].signal = "sent" /\ Leave(f, m, "cancelled")
    BY <1>5 DEF FetchBody
  <2> QED
    BY <2>1, <2>2, GotoKeepsIInv, LeaveKeepsIInv
<1>6. ASSUME NEW m \in Msgs, Store(f, m) PROVE IInv'
  <2>1. Active(f) /\ fetch[f].msg = {m} /\ Leave(f, m, "idle")
    BY <1>6 DEF Store, Active
  <2> QED
    BY <2>1, LeaveKeepsIInv
<1> QED
  BY <1>1, <1>2, <1>3, <1>4, <1>5, <1>6 DEF FetchStep

LEMMA ReadingNextKeepsIInv == IInv /\ [Next]_vars => IInv'
<1> SUFFICES ASSUME IInv, [Next]_vars PROVE IInv'
  OBVIOUS
<1>1. CASE User
  BY <1>1, OpenKeepsIInv, CancelKeepsIInv DEF User
<1>2. ASSUME NEW f \in Fetches, FetchStep(f) PROVE IInv'
  BY <1>2, FetchStepKeepsIInv
<1>3. CASE Trigger \/ PrefetchStep
  <2>1. UNCHANGED <<token, fetch>>
    BY <1>3 DEF Trigger, PrefetchStep, List, PrefetchConnect, PrefetchOver, PrefetchBody
  <2> QED
    BY <2>1, CallsUntouched
<1>4. CASE Prune \/ \E m \in Msgs : Arrive(m) \/ Depart(m)
  BY <1>4, CallsUntouched DEF Prune, Arrive, Depart
<1>5. CASE UNCHANGED vars
  BY <1>5, CallsUntouched DEF vars
<1> QED
  BY <1>1, <1>2, <1>3, <1>4, <1>5 DEF Next

-----------------------------------------------------------------------------
(* The theorems.                                                           *)

\* The strengthened invariant holds in every behaviour.
THEOREM ReadingIInvAlways == Spec => []IInv
  BY ReadingInitIInv, ReadingNextKeepsIInv, PTL DEF Spec

\* No token outlives its fetch, and none is kept under another message, for any
\* number of calls that overtake each other, fail and are cancelled
\* (body.rs, CancelGuard; commands/mail.rs, cancel_pending_fetch).
THEOREM TokensAlwaysLive == Spec => []TokensLive
<1>1. IInv => TokensLive
  BY DEF IInv
<1> QED
  BY <1>1, ReadingIInvAlways, PTL

\* A fetch without another fetch of its message beside it ends as cancelled only
\* when the reader asked for it (body.rs, the select! on cancel_rx).
THEOREM CancelledOnRequest == Spec => []AloneCancelledOnRequest
<1>1. IInv => AloneCancelledOnRequest
  BY DEF IInv
<1> QED
  BY <1>1, ReadingIInvAlways, PTL

=============================================================================
