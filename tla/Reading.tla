------------------------------- MODULE Reading -------------------------------
(***************************************************************************)
(* How bodies get into the cache: the fetch behind open_message with its   *)
(* cancel token (body.rs, cancel_pending_fetch), and the prefetch of an    *)
(* account, one run at a time, that every sync triggers (prefetch.rs).     *)
(*                                                                         *)
(* One account and one folder; a message's UID is the message itself, see  *)
(* FolderSync.  Neither path has a time limit on its commands, so a server *)
(* that falls silent without closing the connection is left out: it would  *)
(* stop the prefetches of the account for good.                            *)
(***************************************************************************)
EXTENDS Naturals, FiniteSets

CONSTANTS
    Msgs,       \* numbers, a later message has a larger one
    Fetches,    \* calls of fetch_and_store that may run at once
    NoFetch,
    Limit,      \* MAX_CANDIDATES_PER_RUN
    MaxFaults   \* bound: failed commands and writes

ASSUME ReadingAssumption ==
    /\ Msgs \subseteq Nat
    /\ NoFetch \notin Fetches
    /\ Limit \in Nat \ {0}
    /\ MaxFaults \in Nat

VARIABLES
    here,       \* server: the messages in the folder
    gone,       \* server: those that have left it
    cached,     \* database: rows, and whether their body is stored
    token,      \* pending_fetch_cancels: the fetch whose token is kept
    fetch,      \* the calls of fetch_and_store
    running,    \* prefetch_running holds the account
    prefetch,   \* the prefetch run
    faults

server == <<here, gone>>
vars == <<server, cached, token, fetch, running, prefetch, faults>>

Signals == {"open", "sent", "dropped"}
Idle == [pc |-> "idle", msg |-> {}, signal |-> "open", asked |-> FALSE, alone |-> FALSE]
Off == [pc |-> "off", todo |-> {}]
Active(f) == fetch[f].pc \notin {"idle", "cancelled"}
FetchesOf(m) == {f \in Fetches : Active(f) /\ fetch[f].msg = {m}}
Rows == DOMAIN cached
Uncached == {m \in Rows : ~cached[m]}

TypeOK ==
    /\ here \subseteq Msgs
    /\ gone \subseteq Msgs \ here
    /\ Rows \subseteq here \cup gone
    /\ cached \in [Rows -> BOOLEAN]
    /\ token \in [Msgs -> Fetches \cup {NoFetch}]
    /\ fetch \in [Fetches -> [pc : {"idle", "connect", "select", "body", "store", "cancelled"},
                              msg : SUBSET Msgs, signal : Signals, asked : BOOLEAN, alone : BOOLEAN]]
    /\ running = (prefetch.pc # "off")
    /\ prefetch \in [pc : {"off", "list", "connect", "bodies"}, todo : SUBSET Msgs]
    /\ faults \in 0..MaxFaults

Init ==
    /\ here = {}
    /\ gone = {}
    /\ cached = <<>>
    /\ token = [m \in Msgs |-> NoFetch]
    /\ fetch = [f \in Fetches |-> Idle]
    /\ running = FALSE
    /\ prefetch = Off
    /\ faults = 0

Fault == faults < MaxFaults /\ faults' = faults + 1
\* store_body: without its row the write is refused.
StoreBody(m) == cached' = [n \in Rows |-> cached[n] \/ n = m]

-----------------------------------------------------------------------------
(* fetch_and_store and its token.                                          *)

\* A token that is dropped wakes its fetch just like one that is sent.
Drop(t) == [f \in Fetches |->
    IF f = t /\ Active(f) /\ fetch[f].signal = "open" THEN [fetch[f] EXCEPT !.signal = "dropped"] ELSE fetch[f]]

\* Mutant of Replaced: the account keeps one token, not one for each message.
ReplacedAll(f, m) == [n \in Msgs |-> IF n = m THEN f ELSE NoFetch]

\* HashMap::insert: the token of another fetch of m is dropped.
Replaced(f, m) == [token EXCEPT ![m] = f]

\* The tokens the map no longer holds.
Displaced(f, m) == {token[n] : n \in {k \in Msgs : Replaced(f, m)[k] # token[k]}} \ {NoFetch}

\* open_message of a row without a body. (With one there is nothing to fetch.)
Open(f, m) ==
    /\ fetch[f].pc = "idle"
    /\ m \in Uncached
    /\ token' = Replaced(f, m)
    /\ fetch' = [g \in Fetches |->
          IF g = f
          THEN [Idle EXCEPT !.pc = "connect", !.msg = {m}, !.alone = FetchesOf(m) = {}]
          ELSE LET h == IF g \in Displaced(f, m) THEN Drop(g)[g] ELSE fetch[g]
               IN  IF g \in FetchesOf(m) THEN [h EXCEPT !.alone = FALSE] ELSE h]
    /\ UNCHANGED <<server, cached, running, prefetch, faults>>

\* Mutant of Leave: there is no guard.
LeaveNoGuard(f, m, l) ==
    /\ fetch' = [fetch EXCEPT ![f] = IF l = "idle" THEN Idle ELSE [@ EXCEPT !.pc = l]]
    /\ UNCHANGED token

\* The call returns, and its guard removes the token of m, whoever's it is.
Leave(f, m, l) ==
    /\ token' = [token EXCEPT ![m] = NoFetch]
    /\ fetch' = [(IF token[m] = f THEN fetch ELSE Drop(token[m]))
                    EXCEPT ![f] = IF l = "idle" THEN Idle ELSE [@ EXCEPT !.pc = l]]

Goto(f, l) == fetch' = [fetch EXCEPT ![f].pc = l] /\ UNCHANGED token

\* Connect and LOGIN; nobody listens for the token yet.
Connect(f, m) ==
    /\ fetch[f].pc = "connect"
    /\ fetch[f].msg = {m}
    /\ \/ Goto(f, "select") /\ UNCHANGED faults
       \/ Leave(f, m, "idle") /\ Fault
    /\ UNCHANGED <<server, cached, running, prefetch>>

\* SELECT and FETCH, each raced against the token.
Cancelled(f, m) ==
    /\ fetch[f].pc \in {"select", "body"}
    /\ fetch[f].msg = {m}
    /\ fetch[f].signal # "open"
    /\ Leave(f, m, "cancelled")
    /\ UNCHANGED <<server, cached, running, prefetch, faults>>

Select(f, m) ==
    /\ fetch[f].pc = "select"
    /\ fetch[f].msg = {m}
    /\ \/ Goto(f, "body") /\ UNCHANGED faults
       \/ Leave(f, m, "idle") /\ Fault
    /\ UNCHANGED <<server, cached, running, prefetch>>

\* The body, the last look at the token (only one that was sent counts), or
\* no response for a message that has left.
FetchBody(f, m) ==
    /\ fetch[f].pc = "body"
    /\ fetch[f].msg = {m}
    /\ \/ /\ m \in here
          /\ IF fetch[f].signal = "sent" THEN Leave(f, m, "cancelled") ELSE Goto(f, "store")
          /\ UNCHANGED faults
       \/ m \notin here /\ Leave(f, m, "idle") /\ UNCHANGED faults
       \/ Leave(f, m, "idle") /\ Fault
    /\ UNCHANGED <<server, cached, running, prefetch>>

Store(f, m) ==
    /\ fetch[f].pc = "store"
    /\ fetch[f].msg = {m}
    /\ \/ StoreBody(m) /\ UNCHANGED faults
       \/ UNCHANGED cached /\ Fault
    /\ Leave(f, m, "idle")
    /\ UNCHANGED <<server, running, prefetch>>

\* The reader has got the answer.
Answered(f) ==
    /\ fetch[f].pc = "cancelled"
    /\ fetch' = [fetch EXCEPT ![f] = Idle]
    /\ UNCHANGED <<server, cached, token, running, prefetch, faults>>

\* cancel_pending_fetch, just before the reader archives, deletes or moves m.
CancelPendingFetch(m) ==
    /\ token' = [token EXCEPT ![m] = NoFetch]
    /\ fetch' = [f \in Fetches |->
          IF f \in FetchesOf(m)
          THEN [fetch[f] EXCEPT !.asked = TRUE, !.signal = IF token[m] = f THEN "sent" ELSE @]
          ELSE fetch[f]]
    /\ UNCHANGED <<server, cached, running, prefetch, faults>>

-----------------------------------------------------------------------------
(* The prefetch.                                                           *)

\* Every sync triggers a run; one that finds the account taken ends at once.
Trigger ==
    /\ ~running
    /\ running' = TRUE
    /\ prefetch' = [Off EXCEPT !.pc = "list"]
    /\ UNCHANGED <<server, cached, token, fetch, faults>>

\* Mutant of PrefetchEnds: the account is given free only by a complete run.
PrefetchEndsComplete(b) == prefetch' = Off /\ running' = ~b

\* RunningGuard, after a complete run (b) and any other.
PrefetchEnds(b) == prefetch' = Off /\ running' = FALSE

\* The newest rows without a body.
Candidates == {m \in Uncached : Cardinality({n \in Uncached : n > m}) < Limit}

List ==
    /\ prefetch.pc = "list"
    /\ \/ /\ Candidates = {}
          /\ PrefetchEnds(TRUE)
       \/ /\ Candidates # {}
          /\ prefetch' = [pc |-> "connect", todo |-> Candidates]
          /\ UNCHANGED running
    /\ UNCHANGED <<server, cached, token, fetch, faults>>

PrefetchConnect ==
    /\ prefetch.pc = "connect"
    /\ \/ prefetch' = [prefetch EXCEPT !.pc = "bodies"] /\ UNCHANGED <<running, faults>>
       \/ PrefetchEnds(FALSE) /\ Fault
    /\ UNCHANGED <<server, cached, token, fetch>>

\* One body of the FETCH stream; one that fails, or is gone, is passed over.
PrefetchBody(m) ==
    /\ prefetch.pc = "bodies"
    /\ m \in prefetch.todo
    /\ prefetch' = [prefetch EXCEPT !.todo = @ \ {m}]
    /\ \/ /\ IF m \in here THEN StoreBody(m) ELSE UNCHANGED cached
          /\ UNCHANGED faults
       \/ UNCHANGED cached /\ Fault
    /\ UNCHANGED <<server, token, fetch, running>>

\* The run is through, or its session is dead and every later command fails.
PrefetchOver ==
    /\ prefetch.pc = "bodies"
    /\ \/ prefetch.todo = {} /\ UNCHANGED faults
       \/ prefetch.todo # {} /\ Fault
    /\ PrefetchEnds(TRUE)
    /\ UNCHANGED <<server, cached, token, fetch>>

-----------------------------------------------------------------------------
(* The mailbox.                                                            *)

\* A message arrives and a sync stores its row.
Arrive(m) ==
    /\ m \notin here \cup gone
    /\ here' = here \cup {m}
    /\ cached' = [n \in Rows \cup {m} |-> n # m /\ cached[n]]
    /\ UNCHANGED <<gone, token, fetch, running, prefetch, faults>>

\* A message leaves, by another client or by an operation of the user.
Depart(m) ==
    /\ m \in here
    /\ here' = here \ {m}
    /\ gone' = gone \cup {m}
    /\ UNCHANGED <<cached, token, fetch, running, prefetch, faults>>

\* The operation, or the next sync, drops the row and its body.
Prune ==
    /\ Rows \cap gone # {}
    /\ cached' = [n \in Rows \ gone |-> cached[n]]
    /\ UNCHANGED <<server, token, fetch, running, prefetch, faults>>

FetchStep(f) == Answered(f) \/ \E m \in Msgs :
    Connect(f, m) \/ Cancelled(f, m) \/ Select(f, m) \/ FetchBody(f, m) \/ Store(f, m)
PrefetchStep == List \/ PrefetchConnect \/ PrefetchOver \/ \E m \in Msgs : PrefetchBody(m)
User == \E m \in Msgs : CancelPendingFetch(m) \/ \E f \in Fetches : Open(f, m)

Next ==
    \/ User \/ (\E f \in Fetches : FetchStep(f))
    \/ Trigger \/ PrefetchStep
    \/ Prune \/ \E m \in Msgs : Arrive(m) \/ Depart(m)

Spec == Init /\ [][Next]_vars
\* Syncs come again and again; what is running goes on.
FairSpec == Spec /\ WF_vars(Trigger) /\ WF_vars(PrefetchStep) /\ WF_vars(Prune)
                 /\ \A f \in Fetches : WF_vars(FetchStep(f))

-----------------------------------------------------------------------------
(* Properties.                                                             *)

\* A token in the map belongs to a fetch of that message that is still under
\* way, however calls overtake each other and fail: cancel_pending_fetch never
\* hits a fetch of something else and no token is left behind. (CancelGuard)
TokensLive ==
    \A m \in Msgs : token[m] # NoFetch => fetch[token[m]].msg = {m} /\ Active(token[m])

\* A fetch that had no other fetch of its message beside it is cancelled only
\* by cancel_pending_fetch for that message. (body.rs, the select! on cancel_rx)
AloneCancelledOnRequest ==
    \A f \in Fetches : (fetch[f].pc = "cancelled" /\ fetch[f].alone) => fetch[f].asked

\* What stays in the mailbox is cached in the end, with or without a reader,
\* though triggers that find a run under way are dropped, runs are cut to the
\* newest messages and may fail. (prefetch.rs, run)
BodiesArrive == \A m \in Msgs : m \in Rows ~> (m \in gone \/ (m \in Rows /\ cached[m]))

=============================================================================
