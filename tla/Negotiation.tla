---------------------------- MODULE Negotiation -----------------------------
(***************************************************************************)
(* The negotiation of one appointment between two installations            *)
(* (timeprotocol/negotiation_engine.rs, negotiation_store.rs and the tp_   *)
(* commands of commands.rs).  The peers exchange envelopes by mail, and    *)
(* mail comes in any order, late, and as often as the reader opens it.     *)
(* Each command reads the thread from the table, computes the next thread  *)
(* with the engine, and writes the whole thread back in a later step, so   *)
(* two commands of one installation may overtake one another.  When a      *)
(* thread is confirmed, each side books a commitment of its own.           *)
(*                                                                         *)
(* Only the initiator's panel offers to confirm or to release a slot, and  *)
(* it shows the thread as it was when the mail was opened, so nothing but  *)
(* the engine says what is still possible.                                 *)
(***************************************************************************)
EXTENDS Integers, FiniteSets

CONSTANTS
    MaxSlots,   \* bound: proposed times
    Tasks,      \* Tasks[n]: commands that may be under way in installation n
    None,       \* no slot
    MaxSends,   \* bound: envelopes built
    MaxFaults   \* bound: mails not sent and crashes

ASSUME NegotiationAssumption ==
    /\ MaxSlots \in Nat
    /\ None \notin 1..MaxSlots
    /\ MaxSends \in Nat
    /\ MaxFaults \in Nat

VARIABLES
    thread,     \* thread[n]: the row of table negotiations and its slots
    log,        \* log[n]: ids in table negotiation_messages
    booked,     \* booked[n]: the slot of the commitment of this thread
    task,       \* task[n][t]: the command t of installation n
    mails,      \* envelopes that were sent
    built,      \* envelopes built so far
    faults,     \* faults so far
    lost        \* lost[n]: history, a command wrote over what another wrote

vars == <<thread, log, booked, task, mails, built, faults, lost>>

-----------------------------------------------------------------------------
Slots == 1..MaxSlots
Nodes == {"initiator", "responder"}
Statuses == {"none", "active", "inactive", "confirmed", "released"}
States == {"none", "requested", "proposed", "confirmed", "released"}
Terminal(r) == r.state \in {"confirmed", "released"}

NoThread == [state |-> "none", slots |-> [s \in Slots |-> "none"], linked |-> FALSE]
Envelopes == [id : 1..MaxSends, kind : {"request", "propose", "confirm", "release"},
              from : Nodes, slot : Slots \cup {None}]
Idle == [pc |-> "idle", msg |-> None, snap |-> NoThread, stale |-> FALSE]

Confirmed(r) == {s \in Slots : r.slots[s] = "confirmed"}
Active(r) == {s \in Slots : r.slots[s] = "active"}

-----------------------------------------------------------------------------
(* The engine: the threads an envelope makes of a thread; none if it is    *)
(* rejected.  Terminal threads reject everything.                          *)

Request(r) == {IF r.state = "none" THEN [r EXCEPT !.state = "requested"] ELSE r}

Propose(r, s) ==
    {q \in {[r EXCEPT !.slots[s] = IF @ = "none" THEN "active" ELSE @,
                      !.state = "proposed"]} : r.state # "none"}

Confirm(r, s) ==
    {q \in {[r EXCEPT !.state = "confirmed",
                      !.slots = [x \in Slots |->
                          IF x = s THEN "confirmed"
                          ELSE IF @[x] = "active" THEN "inactive" ELSE @[x]]]} :
        r.slots[s] = "active"}

Release(r, s) ==
    LET slots == [r.slots EXCEPT ![s] = "released"]
    IN  {q \in {[r EXCEPT !.slots = slots,
                          !.state = IF \E x \in Slots : slots[x] = "active"
                                    THEN @ ELSE "released"]} :
            r.slots[s] # "none"}

\* Mutant: no look at the state first.
ApplyAlways(r, m) ==
    CASE m.kind = "request" -> Request(r)
      [] m.kind = "propose" -> Propose(r, m.slot)
      [] m.kind = "confirm" -> Confirm(r, m.slot)
      [] m.kind = "release" -> Release(r, m.slot)

Apply(r, m) ==
    IF Terminal(r) THEN {}
    ELSE CASE m.kind = "request" -> Request(r)
           [] m.kind = "propose" -> Propose(r, m.slot)
           [] m.kind = "confirm" -> Confirm(r, m.slot)
           [] m.kind = "release" -> Release(r, m.slot)

-----------------------------------------------------------------------------
Init ==
    /\ thread = [n \in Nodes |-> NoThread]
    /\ log = [n \in Nodes |-> {}]
    /\ booked = [n \in Nodes |-> None]
    /\ task = [n \in Nodes |-> [t \in Tasks[n] |-> Idle]]
    /\ mails = {} /\ built = 0 /\ faults = 0
    /\ lost = [n \in Nodes |-> FALSE]

Fault == faults < MaxFaults /\ faults' = faults + 1

Goto(n, t, k) == task' = [task EXCEPT ![n][t] = k]

\* A write of the whole thread: the snapshots of the others are old now.
Store(n, t, r, k) ==
    /\ thread' = [thread EXCEPT ![n] = r]
    /\ lost' = [lost EXCEPT ![n] = @ \/ task[n][t].stale]
    /\ task' = [task EXCEPT ![n] = [x \in Tasks[n] |->
            IF x = t THEN k
            ELSE IF @[x].pc \in {"write", "book", "link"} THEN [@[x] EXCEPT !.stale = TRUE]
            ELSE @[x]]]

-----------------------------------------------------------------------------
(* A mail is opened: has it been applied, read the thread, write it back.  *)

Open(n, t) ==
    /\ task[n][t] = Idle
    /\ \E m \in mails :
          /\ m.from # n /\ m.id \notin log[n]
          /\ Goto(n, t, [Idle EXCEPT !.pc = "read", !.msg = m])
    /\ UNCHANGED <<thread, log, booked, mails, built, faults, lost>>

\* Mutant: an envelope that was rejected counts as processed.
ReadThreadLogging(n, t) ==
    LET k == task[n][t]  next == Apply(thread[n], k.msg) IN
    /\ k.pc = "read"
    /\ \/ next = {} /\ Goto(n, t, Idle) /\ log' = [log EXCEPT ![n] = @ \cup {k.msg.id}]
       \/ \E r \in next : Goto(n, t, [k EXCEPT !.pc = "write", !.snap = r]) /\ log' = log
    /\ UNCHANGED <<thread, booked, mails, built, faults, lost>>

ReadThread(n, t) ==
    LET k == task[n][t]  next == Apply(thread[n], k.msg) IN
    /\ k.pc = "read"
    /\ \/ next = {} /\ Goto(n, t, Idle)
       \/ \E r \in next : Goto(n, t, [k EXCEPT !.pc = "write", !.snap = r])
    /\ UNCHANGED <<thread, log, booked, mails, built, faults, lost>>

\* The user's answer: the thread is read and the envelope built at once.
Answer(n, t, kind, s) ==
    LET m == [id |-> built + 1, kind |-> kind, from |-> n, slot |-> s] IN
    /\ task[n][t] = Idle /\ built < MaxSends
    /\ \E r \in Apply(thread[n], m) :
          Goto(n, t, [Idle EXCEPT !.pc = "write", !.msg = m, !.snap = r])
    /\ built' = built + 1
    /\ UNCHANGED <<thread, log, booked, mails, faults, lost>>

SendRequest(t) ==
    /\ built = 0
    /\ Answer("initiator", t, "request", None)

\* Each proposal mints a new slot id.
Fresh(s) == \A n \in Nodes :
    /\ thread[n].slots[s] = "none"
    /\ \A t \in Tasks[n] : task[n][t].snap.slots[s] = "none"

SendPropose(n, t) ==
    /\ thread[n].state # "none"
    /\ \E s \in Slots :
          /\ Fresh(s) /\ \A x \in 1..(s - 1) : ~Fresh(x)
          /\ Answer(n, t, "propose", s)

SendConfirm(t) == \E s \in Slots : Answer("initiator", t, "confirm", s)

SendRelease(t) == \E s \in Slots : Answer("initiator", t, "release", s)

\* Mutant: a confirmation that comes in is not booked.
WriteWithoutBooking(n, t) ==
    LET k == task[n][t] IN
    /\ k.pc = "write"
    /\ Store(n, t, k.snap, IF k.msg.from = n THEN [Idle EXCEPT !.pc = "send", !.msg = k.msg]
                           ELSE Idle)
    /\ log' = [log EXCEPT ![n] = @ \cup {k.msg.id}]
    /\ UNCHANGED <<booked, mails, built, faults>>

Write(n, t) ==
    LET k == task[n][t] IN
    /\ k.pc = "write"
    /\ Store(n, t, k.snap, [Idle EXCEPT !.pc = IF k.msg.from = n THEN "send" ELSE "settle",
                                       !.msg = k.msg])
    /\ log' = [log EXCEPT ![n] = @ \cup {k.msg.id}]
    /\ UNCHANGED <<booked, mails, built, faults>>

\* Only the sender of a confirmation goes on to book it.
Send(n, t) ==
    LET k == task[n][t] IN
    /\ k.pc = "send"
    /\ mails' = mails \cup {k.msg}
    /\ Goto(n, t, IF k.msg.kind = "confirm" THEN [k EXCEPT !.pc = "settle"] ELSE Idle)
    /\ UNCHANGED <<thread, log, booked, built, faults, lost>>

\* SMTP refuses: the command ends with an error, before it books anything.
SendFails(n, t) ==
    /\ task[n][t].pc = "send"
    /\ Fault
    /\ Goto(n, t, Idle)
    /\ UNCHANGED <<thread, log, booked, mails, built, lost>>

-----------------------------------------------------------------------------
(* materialize_commitment_if_confirmed: read again, book, link.            *)

Settle(n, t) ==
    LET k == task[n][t]  r == thread[n] IN
    /\ k.pc = "settle"
    /\ Goto(n, t, IF r.state = "confirmed" /\ ~r.linked /\ Confirmed(r) # {}
                  THEN [Idle EXCEPT !.pc = "book", !.snap = r] ELSE Idle)
    /\ UNCHANGED <<thread, log, booked, mails, built, faults, lost>>

\* Mutant: the first slot of the thread, not the one that was confirmed.
BookFirst(n, t) ==
    LET k == task[n][t] IN
    /\ k.pc = "book"
    /\ booked' = [booked EXCEPT ![n] = CHOOSE s \in Slots : k.snap.slots[s] # "none"]
    /\ Goto(n, t, [k EXCEPT !.pc = "link"])
    /\ UNCHANGED <<thread, log, mails, built, faults, lost>>

Book(n, t) ==
    LET k == task[n][t] IN
    /\ k.pc = "book"
    /\ \E s \in Confirmed(k.snap) : booked' = [booked EXCEPT ![n] = s]
    /\ Goto(n, t, [k EXCEPT !.pc = "link"])
    /\ UNCHANGED <<thread, log, mails, built, faults, lost>>

Link(n, t) ==
    LET k == task[n][t] IN
    /\ k.pc = "link"
    /\ Store(n, t, [k.snap EXCEPT !.linked = TRUE], Idle)
    /\ UNCHANGED <<log, booked, mails, built, faults>>

\* The program ends: what was written stays, the commands are gone.
Crash(n) ==
    /\ \E t \in Tasks[n] : task[n][t] # Idle
    /\ Fault
    /\ task' = [task EXCEPT ![n] = [t \in Tasks[n] |-> Idle]]
    /\ UNCHANGED <<thread, log, booked, mails, built, lost>>

Step(n, t) ==
    \/ ReadThread(n, t) \/ Write(n, t) \/ Send(n, t)
    \/ Settle(n, t) \/ Book(n, t) \/ Link(n, t)

Next ==
    \/ \E n \in Nodes : \E t \in Tasks[n] :
          Open(n, t) \/ Step(n, t) \/ SendFails(n, t) \/ SendPropose(n, t)
    \/ \E t \in Tasks["initiator"] : SendRequest(t) \/ SendConfirm(t) \/ SendRelease(t)
    \/ \E n \in Nodes : Crash(n)

Spec == Init /\ [][Next]_vars

\* Commands that were started go on.  The responder opens every mail until it
\* has been applied (each time the reader shows it the panel tries again).
OpenMail(n, t, m) == Open(n, t) /\ task'[n][t].msg = m
FairSpec ==
    /\ Spec
    /\ \A n \in Nodes : \A t \in Tasks[n] : WF_vars(Step(n, t))
    /\ \A i \in 1..MaxSends :
          SF_vars(\E t \in Tasks["responder"], m \in mails :
                      m.id = i /\ OpenMail("responder", t, m))

-----------------------------------------------------------------------------
(* Properties *)

\* Types, and what a thread looks like: a confirmed one has one confirmed slot
\* and none that could still be confirmed (negotiation_engine.rs:178-222), a
\* released one has none active, and only a confirmed one is linked.
ThreadsSound ==
    /\ mails \subseteq Envelopes
    /\ \A n \in Nodes :
          /\ log[n] \subseteq 1..MaxSends /\ booked[n] \in Slots \cup {None}
          /\ thread[n].slots \in [Slots -> Statuses] /\ thread[n].state \in States
          /\ Cardinality(Confirmed(thread[n])) = IF thread[n].state = "confirmed" THEN 1 ELSE 0
          /\ Terminal(thread[n]) => Active(thread[n]) = {}
          /\ thread[n].linked => thread[n].state = "confirmed"

\* A thread that is confirmed or released stays as it is, whatever arrives
\* late, twice or out of order (negotiation_engine.rs:20-24), unless two
\* commands overtook one another.
TerminalStays ==
    [][\A n \in Nodes :
          Terminal(thread[n]) /\ ~lost'[n] =>
              /\ thread'[n].slots = thread[n].slots
              /\ thread'[n].state = thread[n].state]_vars

\* The responder is confirmed only for the slot the initiator confirmed, and
\* books no other (commands.rs:1777): the two calendars show one appointment.
PeersAgree ==
    lost["initiator"] \/
    /\ Confirmed(thread["responder"]) \subseteq Confirmed(thread["initiator"])
    /\ \A n \in Nodes : booked[n] # None => booked[n] \in Confirmed(thread["initiator"])

\* A confirmed thread is booked once no command of the installation is under
\* way, when nothing failed and no command overtook another.
ConfirmedIsBooked ==
    \A n \in Nodes :
        /\ thread[n].state = "confirmed" /\ \A t \in Tasks[n] : task[n][t] = Idle
        /\ faults = 0 /\ ~lost[n]
        => thread[n].linked /\ booked[n] \in Confirmed(thread[n])

\* Once request, proposal and confirmation of a slot are all in the mail, the
\* responder's thread comes to an end, in whatever order the mails are opened,
\* unless two commands of an installation overtook one another.
Mailed(kind, s) == \E m \in mails : m.kind = kind /\ m.slot \in {s, None}
ConfirmArrives ==
    \A s \in Slots :
        Mailed("request", s) /\ Mailed("propose", s) /\ Mailed("confirm", s) ~>
            Terminal(thread["responder"]) \/ \E n \in Nodes : lost[n]
=============================================================================
