------------------------- MODULE NegotiationProofs -------------------------
(***************************************************************************)
(* Proofs about Negotiation, for any number of slots, commands, envelopes  *)
(* and faults.                                                             *)
(***************************************************************************)
EXTENDS Negotiation, FiniteSetTheorems, TLAPS

USE NegotiationAssumption DEF NegotiationAssumption

Threads == [state : States, slots : [Slots -> Statuses], linked : BOOLEAN]

\* What a thread looks like, in the table as in the snapshot of a command.
Sound(r) ==
    /\ r \in Threads
    /\ r.state = "confirmed" => \E s \in Slots : Confirmed(r) = {s}
    /\ r.state # "confirmed" => Confirmed(r) = {}
    /\ Terminal(r) => Active(r) = {}
    /\ r.linked => r.state = "confirmed"

\* The envelopes that are built: only a request names no slot, and only the
\* initiator confirms.
Sent ==
    {m \in Envelopes : /\ m.kind # "request" => m.slot \in Slots
                       /\ m.kind = "confirm" => m.from = "initiator"}

PCs == {"idle", "read", "write", "send", "settle", "book", "link"}
Commands == [pc : PCs, msg : Envelopes \cup {None}, snap : Threads, stale : BOOLEAN]

\* What command k of installation n knows, when its thread is r and nothing was
\* written over (~l).
CommandOK(n, k, r, l) ==
    /\ k \in Commands
    /\ Sound(k.snap)
    /\ k.pc \in {"read", "write", "send", "settle"} => k.msg \in Sent
    /\ k.pc = "send" => k.msg.from = n
    /\ k.pc = "write" =>
         /\ k.snap.state = "confirmed" => k.msg.kind = "confirm"
         /\ k.msg.kind = "confirm" => Confirmed(k.snap) = {k.msg.slot}
         /\ ~k.stale => ~Terminal(r) /\ ~r.linked /\ ~k.snap.linked
    /\ k.pc \in {"book", "link"} =>
         /\ k.snap.state = "confirmed"
         /\ ~k.stale => k.snap = r
         /\ ~l => k.snap.slots = r.slots /\ r.state = "confirmed"

TypeInv ==
    /\ built \in 0..MaxSends /\ faults \in 0..MaxFaults
    /\ mails \subseteq Sent
    /\ DOMAIN thread = Nodes /\ DOMAIN log = Nodes /\ DOMAIN booked = Nodes
    /\ DOMAIN task = Nodes /\ DOMAIN lost = Nodes
    /\ \A n \in Nodes :
          /\ Sound(thread[n])
          /\ log[n] \subseteq 1..MaxSends
          /\ booked[n] \in Slots \cup {None}
          /\ lost[n] \in BOOLEAN
          /\ DOMAIN task[n] = Tasks[n]
          /\ \A t \in Tasks[n] : CommandOK(n, task[n][t], thread[n], lost[n])

-----------------------------------------------------------------------------
(* The engine.                                                             *)

LEMMA NodesAre == "initiator" \in Nodes /\ "responder" \in Nodes /\ \A n \in Nodes : n \in {"initiator", "responder"}
  BY DEF Nodes

LEMMA NoThreadSound == Sound(NoThread) /\ ~Terminal(NoThread) /\ NoThread.state = "none"
<1>1. NoThread \in Threads
  BY DEF NoThread, Threads, States, Statuses, Slots
<1>2. \A s \in Slots : NoThread.slots[s] = "none"
  BY DEF NoThread
<1>3. NoThread.state = "none" /\ NoThread.linked = FALSE
  BY DEF NoThread
<1> QED
  BY <1>1, <1>2, <1>3 DEF Sound, Confirmed, Active, Terminal

LEMMA ApplyMakes ==
    ASSUME NEW r, Sound(r), NEW m \in Sent, NEW q \in Apply(r, m)
    PROVE  /\ Sound(q)
           /\ ~Terminal(r) /\ ~r.linked /\ ~q.linked
           /\ q.state = "confirmed" => m.kind = "confirm"
           /\ m.kind = "confirm" => q.state = "confirmed" /\ Confirmed(q) = {m.slot}
<1>1. ~Terminal(r) /\ r \in Threads /\ Confirmed(r) = {} /\ ~r.linked
  BY DEF Apply, Sound, Terminal
<1>2. m.kind \in {"request", "propose", "confirm", "release"}
  BY DEF Sent, Envelopes
<1>3. CASE m.kind = "request"
  <2>1. q.slots = r.slots /\ q.linked = r.linked /\ q \in Threads /\ q.state \in {r.state, "requested"}
    BY <1>1, <1>3 DEF Apply, Request, Threads, States
  <2> QED
    BY <1>1, <1>3, <2>1 DEF Sound, Terminal, Confirmed, Active
<1>4. CASE m.kind = "propose"
  <2>1. q = [r EXCEPT !.slots[m.slot] = IF @ = "none" THEN "active" ELSE @, !.state = "proposed"] /\ m.slot \in Slots
    BY <1>1, <1>4 DEF Apply, Propose, Sent
  <2>2. q.state = "proposed" /\ q.linked = r.linked /\ q \in Threads
    BY <1>1, <2>1 DEF Threads, States, Statuses
  <2>3. \A s \in Slots : q.slots[s] = r.slots[s] \/ q.slots[s] = "active"
    BY <1>1, <2>1 DEF Threads
  <2>4. Confirmed(q) = {}
    BY <1>1, <2>3 DEF Confirmed
  <2> QED
    BY <1>1, <1>4, <2>2, <2>4 DEF Sound, Terminal
<1>5. CASE m.kind = "confirm"
  <2>1. /\ q = [r EXCEPT !.state = "confirmed",
                         !.slots = [x \in Slots |->
                             IF x = m.slot THEN "confirmed"
                             ELSE IF @[x] = "active" THEN "inactive" ELSE @[x]]]
        /\ m.slot \in Slots
    BY <1>1, <1>5 DEF Apply, Confirm, Sent
  <2>2. q.state = "confirmed" /\ q.linked = r.linked /\ q \in Threads
    BY <1>1, <2>1 DEF Threads, States, Statuses
  <2>3. \A s \in Slots : q.slots[s] = IF s = m.slot THEN "confirmed"
                                      ELSE IF r.slots[s] = "active" THEN "inactive" ELSE r.slots[s]
    BY <1>1, <2>1 DEF Threads
  <2>4. Confirmed(q) = {m.slot} /\ Active(q) = {}
    BY <1>1, <2>1, <2>3 DEF Confirmed, Active
  <2> QED
    BY <1>1, <1>5, <2>1, <2>2, <2>4 DEF Sound, Terminal
<1>6. CASE m.kind = "release"
  <2> DEFINE slots == [r.slots EXCEPT ![m.slot] = "released"]
  <2>1. /\ q = [r EXCEPT !.slots = slots,
                         !.state = IF \E x \in Slots : slots[x] = "active" THEN @ ELSE "released"]
        /\ m.slot \in Slots
    BY <1>1, <1>6 DEF Apply, Release, Sent
  <2>2. slots \in [Slots -> Statuses]
    BY <1>1, <2>1 DEF Threads, Statuses
  <2>3. \A s \in Slots : slots[s] = r.slots[s] \/ slots[s] = "released"
    BY <1>1 DEF Threads
  <2> HIDE DEF slots
  <2>4. q.slots = slots /\ q.linked = r.linked /\ q.state = IF \E x \in Slots : slots[x] = "active" THEN r.state ELSE "released"
    BY <1>1, <2>1 DEF Threads
  <2>5. q \in Threads
    BY <1>1, <2>1, <2>2 DEF Threads, States
  <2>6. Confirmed(q) = {} /\ (q.state = "released" => Active(q) = {})
    BY <1>1, <2>3, <2>4 DEF Confirmed, Active, Terminal
  <2> QED
    BY <1>1, <1>6, <2>4, <2>5, <2>6 DEF Sound, Terminal
<1> QED
  BY <1>2, <1>3, <1>4, <1>5, <1>6

-----------------------------------------------------------------------------
(* The commands.                                                           *)

LEMMA IdleOK == \A n, r, l : CommandOK(n, Idle, r, l)
<1>1. Idle.pc = "idle" /\ Idle.snap = NoThread /\ Idle \in Commands
  BY NoThreadSound DEF Idle, Commands, PCs, Sound
<1> QED
  BY <1>1, NoThreadSound DEF CommandOK

\* A command that has not computed anything yet does not mind what is stored.
LEMMA Carefree ==
    ASSUME NEW n, NEW k, NEW r, NEW l, NEW q, NEW h, CommandOK(n, k, r, l),
           k.pc \notin {"write", "book", "link"}
    PROVE  CommandOK(n, k, q, h)
  BY DEF CommandOK

LEMMA GotoMoves ==
    ASSUME TypeInv, NEW n \in Nodes, NEW t \in Tasks[n], NEW k, Goto(n, t, k)
    PROVE  /\ DOMAIN task' = Nodes
           /\ \A p \in Nodes : DOMAIN task'[p] = Tasks[p]
           /\ task'[n][t] = k
           /\ \A p \in Nodes : \A x \in Tasks[p] : p # n \/ x # t => task'[p][x] = task[p][x]
  BY DEF Goto, TypeInv

LEMMA GotoKeepsOK ==
    ASSUME TypeInv, NEW n \in Nodes, NEW t \in Tasks[n], NEW k, Goto(n, t, k), UNCHANGED <<thread, lost>>,
           CommandOK(n, k, thread[n], lost[n])
    PROVE  /\ DOMAIN task' = Nodes
           /\ \A p \in Nodes : /\ DOMAIN task'[p] = Tasks[p]
                              /\ \A x \in Tasks[p] : CommandOK(p, task'[p][x], thread'[p], lost'[p])
<1>1. /\ DOMAIN task' = Nodes
      /\ \A p \in Nodes : DOMAIN task'[p] = Tasks[p]
      /\ task'[n][t] = k
      /\ \A p \in Nodes : \A x \in Tasks[p] : p # n \/ x # t => task'[p][x] = task[p][x]
  BY GotoMoves
<1>2. ASSUME NEW p \in Nodes, NEW x \in Tasks[p] PROVE CommandOK(p, task'[p][x], thread'[p], lost'[p])
  <2>1. CommandOK(p, task[p][x], thread[p], lost[p])
    BY DEF TypeInv
  <2>2. CASE p = n /\ x = t
    BY <1>1, <2>2
  <2>3. CASE p # n \/ x # t
    BY <1>1, <2>1, <2>3
  <2> QED
    BY <2>2, <2>3
<1> QED
  BY <1>1, <1>2

\* The commands that hold something they computed from the thread.
Holds(k) == k.pc \in {"write", "book", "link"}

LEMMA StoreMoves ==
    ASSUME TypeInv, NEW n \in Nodes, NEW t \in Tasks[n], NEW r, NEW k, Store(n, t, r, k)
    PROVE  /\ DOMAIN thread' = Nodes /\ DOMAIN lost' = Nodes /\ DOMAIN task' = Nodes
           /\ \A p \in Nodes : DOMAIN task'[p] = Tasks[p]
           /\ thread'[n] = r /\ lost'[n] = (lost[n] \/ task[n][t].stale)
           /\ \A p \in Nodes \ {n} : thread'[p] = thread[p] /\ lost'[p] = lost[p] /\ task'[p] = task[p]
           /\ task'[n][t] = k
           /\ \A x \in Tasks[n] \ {t} :
                 task'[n][x] = IF Holds(task[n][x]) THEN [task[n][x] EXCEPT !.stale = TRUE] ELSE task[n][x]
  BY DEF Store, TypeInv, Holds

\* A write makes no other command forget what it knows: those that hold
\* something are stale now, or the write was nothing new to them.
LEMMA StoreKeepsOK ==
    ASSUME TypeInv, NEW n \in Nodes, NEW t \in Tasks[n], NEW r, NEW k, Store(n, t, r, k),
           CommandOK(n, k, r, lost'[n]),
           task[n][t].pc = "write" \/ (task[n][t].pc = "link" /\ r = [task[n][t].snap EXCEPT !.linked = TRUE])
    PROVE  \A p \in Nodes : \A x \in Tasks[p] : CommandOK(p, task'[p][x], thread'[p], lost'[p])
<1> SUFFICES ASSUME NEW p \in Nodes, NEW x \in Tasks[p]
             PROVE  CommandOK(p, task'[p][x], thread'[p], lost'[p])
  OBVIOUS
<1>1. CommandOK(p, task[p][x], thread[p], lost[p])
  BY DEF TypeInv
<1>2. CASE p # n
  BY <1>1, <1>2, StoreMoves
<1>3. CASE p = n /\ x = t
  BY <1>3, StoreMoves
<1>4. CASE p = n /\ x # t /\ ~Holds(task[n][x])
  <2>1. task'[n][x] = task[n][x]
    <3>1. x \in Tasks[n] \ {t} /\ ~Holds(task[n][x])
      BY <1>4
    <3> QED
      BY <3>1, StoreMoves, ZenonT(40)
  <2> QED
    BY <1>1, <1>4, <2>1, Carefree DEF Holds
<1>5. CASE p = n /\ x # t /\ Holds(task[n][x])
  <2> DEFINE c == task[n][x]
             d == task[n][t]
  <2>1. task'[n][x] = [c EXCEPT !.stale = TRUE] /\ thread'[n] = r /\ lost'[n] = (lost[n] \/ d.stale)
    BY <1>5, StoreMoves
  <2>2. CommandOK(n, c, thread[n], lost[n]) /\ CommandOK(n, d, thread[n], lost[n])
    BY <1>5 DEF TypeInv
  <2>3. c \in Commands /\ d \in Commands
    BY <2>2 DEF CommandOK
  <2> DEFINE e == [c EXCEPT !.stale = TRUE]
  <2>4. e \in Commands /\ e.pc = c.pc /\ e.msg = c.msg /\ e.snap = c.snap /\ e.stale
    BY <2>3 DEF Commands
  <2>5. ASSUME c.pc \in {"book", "link"}, ~lost'[n] PROVE c.snap.slots = r.slots /\ r.state = "confirmed"
    <3>1. ~lost[n] /\ ~d.stale
      BY <2>1, <2>5 DEF TypeInv
    <3>2. c.snap.slots = thread[n].slots /\ thread[n].state = "confirmed"
      BY <2>2, <2>5, <3>1 DEF CommandOK
    <3>3. d.pc # "write"
      BY <2>2, <3>1, <3>2 DEF CommandOK, Terminal
    <3>4. d.snap = thread[n] /\ r = [d.snap EXCEPT !.linked = TRUE] /\ d.snap \in Threads
      BY <2>2, <2>3, <3>1, <3>3 DEF CommandOK, Commands
    <3> QED
      BY <3>2, <3>4 DEF Threads
  <2> HIDE DEF c, d, e
  <2>6. CommandOK(n, e, r, lost'[n])
    BY <1>5, <2>2, <2>4, <2>5 DEF CommandOK, Holds
  <2> QED
    BY <1>5, <2>1, <2>6 DEF e, c
<1> QED
  BY <1>2, <1>3, <1>4, <1>5

-----------------------------------------------------------------------------
(* Every action preserves the invariant.                                   *)

THEOREM InitTypeInv == Init => TypeInv
<1> SUFFICES ASSUME Init PROVE TypeInv
  OBVIOUS
<1>1. \A n \in Nodes : thread[n] = NoThread /\ log[n] = {} /\ booked[n] = None /\ lost[n] = FALSE
  BY DEF Init
<1>2. \A n \in Nodes : DOMAIN task[n] = Tasks[n] /\ \A t \in Tasks[n] : task[n][t] = Idle
  BY DEF Init
<1>3. /\ mails = {} /\ built = 0 /\ faults = 0
      /\ DOMAIN thread = Nodes /\ DOMAIN log = Nodes /\ DOMAIN booked = Nodes
      /\ DOMAIN task = Nodes /\ DOMAIN lost = Nodes
  BY DEF Init
<1>4. \A n \in Nodes : /\ Sound(thread[n]) /\ log[n] \subseteq 1..MaxSends
                       /\ booked[n] \in Slots \cup {None} /\ lost[n] \in BOOLEAN
                       /\ \A t \in Tasks[n] : CommandOK(n, task[n][t], thread[n], lost[n])
  <2>1. ASSUME NEW n \in Nodes
        PROVE  /\ Sound(thread[n]) /\ log[n] \subseteq 1..MaxSends
               /\ booked[n] \in Slots \cup {None} /\ lost[n] \in BOOLEAN
    BY <1>1, NoThreadSound
  <2>2. ASSUME NEW n \in Nodes, NEW t \in Tasks[n] PROVE CommandOK(n, task[n][t], thread[n], lost[n])
    BY <1>2, IdleOK
  <2> QED
    BY <2>1, <2>2
<1>5. built \in 0..MaxSends /\ faults \in 0..MaxFaults /\ mails \subseteq Sent
  BY <1>3
<1> QED
  BY <1>2, <1>3, <1>4, <1>5 DEF TypeInv

\* A step that only moves one command on.
LEMMA GotoKeepsInv ==
    ASSUME TypeInv, NEW n \in Nodes, NEW t \in Tasks[n], NEW k, Goto(n, t, k), UNCHANGED <<thread, lost>>,
           CommandOK(n, k, thread[n], lost[n]),
           built' \in 0..MaxSends, faults' \in 0..MaxFaults, mails' \subseteq Sent,
           DOMAIN log' = Nodes, DOMAIN booked' = Nodes,
           \A p \in Nodes : log'[p] \subseteq 1..MaxSends /\ booked'[p] \in Slots \cup {None}
    PROVE  TypeInv'
<1>1. /\ DOMAIN task' = Nodes
      /\ \A p \in Nodes : /\ DOMAIN task'[p] = Tasks[p]
                         /\ \A x \in Tasks[p] : CommandOK(p, task'[p][x], thread'[p], lost'[p])
  BY GotoKeepsOK
<1>2. \A p \in Nodes : Sound(thread'[p]) /\ lost'[p] \in BOOLEAN
  BY DEF TypeInv
<1>3. DOMAIN thread' = Nodes /\ DOMAIN lost' = Nodes
  BY DEF TypeInv
<1> QED
  BY <1>1, <1>2, <1>3 DEF TypeInv

LEMMA StoreKeepsInv ==
    ASSUME TypeInv, NEW n \in Nodes, NEW t \in Tasks[n], NEW r, NEW k, Store(n, t, r, k), Sound(r),
           CommandOK(n, k, r, lost'[n]),
           task[n][t].pc = "write" \/ (task[n][t].pc = "link" /\ r = [task[n][t].snap EXCEPT !.linked = TRUE]),
           UNCHANGED <<built, faults, mails, booked>>,
           DOMAIN log' = Nodes, \A p \in Nodes : log'[p] \subseteq 1..MaxSends
    PROVE  TypeInv'
<1>1. \A p \in Nodes : \A x \in Tasks[p] : CommandOK(p, task'[p][x], thread'[p], lost'[p])
  BY StoreKeepsOK
<1>2. /\ DOMAIN thread' = Nodes /\ DOMAIN lost' = Nodes /\ DOMAIN task' = Nodes
      /\ \A p \in Nodes : DOMAIN task'[p] = Tasks[p]
  BY StoreMoves
<1>3. \A p \in Nodes : Sound(thread'[p])
  <2>1. ASSUME NEW p \in Nodes PROVE Sound(thread'[p])
    BY StoreMoves DEF TypeInv
  <2> QED
    BY <2>1
<1>4. \A p \in Nodes : lost'[p] \in BOOLEAN
  <2>1. CommandOK(n, task[n][t], thread[n], lost[n])
    BY DEF TypeInv
  <2>2. task[n][t].stale \in BOOLEAN
    BY <2>1 DEF CommandOK, Commands
  <2>3. ASSUME NEW p \in Nodes PROVE lost'[p] \in BOOLEAN
    BY <2>2, StoreMoves DEF TypeInv
  <2> QED
    BY <2>3
<1>5. DOMAIN booked' = Nodes /\ \A p \in Nodes : booked'[p] \in Slots \cup {None}
  BY DEF TypeInv
<1>6. built' \in 0..MaxSends /\ faults' \in 0..MaxFaults /\ mails' \subseteq Sent
  BY DEF TypeInv
<1> QED
  BY <1>1, <1>2, <1>3, <1>4, <1>5, <1>6 DEF TypeInv

\* What a command knows may be used one by one.
LEMMA Known ==
    ASSUME TypeInv, NEW n \in Nodes, NEW t \in Tasks[n]
    PROVE  /\ CommandOK(n, task[n][t], thread[n], lost[n]) /\ Sound(thread[n])
           /\ built \in 0..MaxSends /\ faults \in 0..MaxFaults /\ mails \subseteq Sent
           /\ DOMAIN log = Nodes /\ DOMAIN booked = Nodes
           /\ \A p \in Nodes : log[p] \subseteq 1..MaxSends /\ booked[p] \in Slots \cup {None}
  BY DEF TypeInv

LEMMA OpenInv == ASSUME TypeInv, NEW n \in Nodes, NEW t \in Tasks[n], Open(n, t) PROVE TypeInv'
<1>1. PICK m \in mails : Goto(n, t, [Idle EXCEPT !.pc = "read", !.msg = m])
  BY DEF Open
<1>2. m \in Sent /\ m \in Envelopes
  BY Known DEF Sent
<1> DEFINE k == [Idle EXCEPT !.pc = "read", !.msg = m]
<1>3. k.pc = "read" /\ k.msg = m /\ k.snap = NoThread /\ k \in Commands
  BY <1>2, NoThreadSound DEF Idle, Commands, PCs, Sound
<1> HIDE DEF k
<1>4. CommandOK(n, k, thread[n], lost[n])
  BY <1>2, <1>3, NoThreadSound DEF CommandOK
<1> QED
  BY <1>1, <1>4, Known, GotoKeepsInv DEF Open, k

LEMMA ReadThreadInv == ASSUME TypeInv, NEW n \in Nodes, NEW t \in Tasks[n], ReadThread(n, t) PROVE TypeInv'
<1>1. CASE Goto(n, t, Idle)
  BY <1>1, Known, IdleOK, GotoKeepsInv DEF ReadThread
<1>2. ASSUME NEW r \in Apply(thread[n], task[n][t].msg),
             Goto(n, t, [task[n][t] EXCEPT !.pc = "write", !.snap = r])
      PROVE  TypeInv'
  <2> DEFINE c == task[n][t]
             k == [c EXCEPT !.pc = "write", !.snap = r]
  <2>1. c.pc = "read" /\ c \in Commands /\ c.msg \in Sent
    BY Known DEF ReadThread, CommandOK
  <2>2. /\ Sound(r) /\ ~Terminal(thread[n]) /\ ~thread[n].linked /\ ~r.linked
        /\ r.state = "confirmed" => c.msg.kind = "confirm"
        /\ c.msg.kind = "confirm" => r.state = "confirmed" /\ Confirmed(r) = {c.msg.slot}
    BY <1>2, <2>1, Known, ApplyMakes
  <2>3. k.pc = "write" /\ k.msg = c.msg /\ k.snap = r /\ k \in Commands
    BY <2>1, <2>2 DEF Commands, PCs, Sound
  <2> HIDE DEF k
  <2>4. CommandOK(n, k, thread[n], lost[n])
    BY <2>1, <2>2, <2>3 DEF CommandOK
  <2> QED
    BY <1>2, <2>4, Known, GotoKeepsInv DEF ReadThread, k
<1> QED
  BY <1>1, <1>2 DEF ReadThread

LEMMA AnswerInv ==
    ASSUME TypeInv, NEW n \in Nodes, NEW t \in Tasks[n], NEW kind, NEW s,
           kind \in {"request", "propose", "confirm", "release"},
           s \in Slots \/ (s = None /\ kind = "request"),
           kind = "confirm" => n = "initiator",
           Answer(n, t, kind, s)
    PROVE  TypeInv'
<1> DEFINE m == [id |-> built + 1, kind |-> kind, from |-> n, slot |-> s]
<1>1. m \in Sent
  BY Known DEF Answer, Sent, Envelopes
<1>2. PICK r \in Apply(thread[n], m) : Goto(n, t, [Idle EXCEPT !.pc = "write", !.msg = m, !.snap = r])
  BY DEF Answer
<1>3. built' = built + 1 /\ built < MaxSends /\ UNCHANGED <<thread, log, booked, mails, faults, lost>>
  BY DEF Answer
<1> HIDE DEF m
<1> DEFINE k == [Idle EXCEPT !.pc = "write", !.msg = m, !.snap = r]
<1>4. /\ Sound(r) /\ ~Terminal(thread[n]) /\ ~thread[n].linked /\ ~r.linked
      /\ r.state = "confirmed" => m.kind = "confirm"
      /\ m.kind = "confirm" => r.state = "confirmed" /\ Confirmed(r) = {m.slot}
  BY <1>1, <1>2, Known, ApplyMakes
<1>5. k.pc = "write" /\ k.msg = m /\ k.snap = r /\ k \in Commands
  BY <1>1, <1>4 DEF Idle, Commands, PCs, Sound, Sent
<1> HIDE DEF k
<1>6. CommandOK(n, k, thread[n], lost[n])
  BY <1>1, <1>4, <1>5 DEF CommandOK
<1>7. built' \in 0..MaxSends
  BY <1>3, Known
<1> QED
  BY <1>2, <1>3, <1>6, <1>7, Known, GotoKeepsInv DEF k

LEMMA WriteInv == ASSUME TypeInv, NEW n \in Nodes, NEW t \in Tasks[n], Write(n, t) PROVE TypeInv'
<1> DEFINE c == task[n][t]
           k == [Idle EXCEPT !.pc = IF c.msg.from = n THEN "send" ELSE "settle", !.msg = c.msg]
<1>1. /\ c.pc = "write" /\ Store(n, t, c.snap, k)
      /\ log' = [log EXCEPT ![n] = @ \cup {c.msg.id}]
      /\ UNCHANGED <<booked, mails, built, faults>>
  BY DEF Write
<1>2. Sound(c.snap) /\ c.msg \in Sent
  BY <1>1, Known DEF CommandOK
<1>3. k.pc = (IF c.msg.from = n THEN "send" ELSE "settle") /\ k.msg = c.msg /\ k.snap = NoThread /\ k \in Commands
  BY <1>2, NoThreadSound DEF Idle, Commands, PCs, Sound, Sent
<1>4. DOMAIN log' = Nodes /\ \A p \in Nodes : log'[p] \subseteq 1..MaxSends
  <2>1. c.msg.id \in 1..MaxSends
    BY <1>2 DEF Sent, Envelopes
  <2> HIDE DEF c
  <2> QED
    BY <1>1, <2>1, Known
<1> HIDE DEF k, c
<1>5. CommandOK(n, k, c.snap, lost'[n])
  BY <1>2, <1>3, NoThreadSound DEF CommandOK
<1> QED
  BY <1>1, <1>2, <1>4, <1>5, StoreKeepsInv DEF c

LEMMA SendInv == ASSUME TypeInv, NEW n \in Nodes, NEW t \in Tasks[n], Send(n, t) PROVE TypeInv'
<1> DEFINE c == task[n][t]
           k == IF c.msg.kind = "confirm" THEN [c EXCEPT !.pc = "settle"] ELSE Idle
<1>1. c.pc = "send" /\ mails' = mails \cup {c.msg} /\ Goto(n, t, k) /\ UNCHANGED <<thread, log, booked, built, faults, lost>>
  BY DEF Send
<1>2. c.msg \in Sent /\ c \in Commands /\ Sound(c.snap)
  BY <1>1, Known DEF CommandOK
<1>3. CommandOK(n, k, thread[n], lost[n])
  <2>1. CASE c.msg.kind = "confirm"
    <3> DEFINE d == [c EXCEPT !.pc = "settle"]
    <3>1. d.pc = "settle" /\ d.msg = c.msg /\ d.snap = c.snap /\ d \in Commands
      BY <1>2 DEF Commands, PCs
    <3> HIDE DEF d
    <3>2. CommandOK(n, d, thread[n], lost[n])
      BY <1>2, <3>1 DEF CommandOK
    <3> QED
      BY <2>1, <3>2 DEF d
  <2>2. CASE c.msg.kind # "confirm"
    BY <2>2, IdleOK
  <2> QED
    BY <2>1, <2>2
<1>4. mails' \subseteq Sent
  BY <1>1, <1>2, Known
<1> HIDE DEF k, c
<1> QED
  BY <1>1, <1>3, <1>4, Known, GotoKeepsInv

LEMMA SendFailsInv == ASSUME TypeInv, NEW n \in Nodes, NEW t \in Tasks[n], SendFails(n, t) PROVE TypeInv'
<1>1. faults' \in 0..MaxFaults
  BY Known DEF SendFails, Fault
<1> QED
  BY <1>1, Known, IdleOK, GotoKeepsInv DEF SendFails

LEMMA SettleInv == ASSUME TypeInv, NEW n \in Nodes, NEW t \in Tasks[n], Settle(n, t) PROVE TypeInv'
<1> DEFINE k == [Idle EXCEPT !.pc = "book", !.snap = thread[n]]
<1>1. CASE thread[n].state = "confirmed" /\ Goto(n, t, k)
  <2>1. k.pc = "book" /\ k.snap = thread[n] /\ k.msg = None /\ k \in Commands
    BY Known DEF Idle, Commands, PCs, Sound
  <2> HIDE DEF k
  <2>2. CommandOK(n, k, thread[n], lost[n])
    BY <1>1, <2>1, Known DEF CommandOK
  <2> QED
    BY <1>1, <2>2, Known, GotoKeepsInv DEF Settle
<1>2. CASE Goto(n, t, Idle)
  BY <1>2, Known, IdleOK, GotoKeepsInv DEF Settle
<1> QED
  BY <1>1, <1>2 DEF Settle

LEMMA BookInv == ASSUME TypeInv, NEW n \in Nodes, NEW t \in Tasks[n], Book(n, t) PROVE TypeInv'
<1> DEFINE c == task[n][t]
           k == [c EXCEPT !.pc = "link"]
<1>1. c.pc = "book" /\ Goto(n, t, k) /\ UNCHANGED <<thread, log, mails, built, faults, lost>>
  BY DEF Book
<1>2. PICK s \in Confirmed(c.snap) : booked' = [booked EXCEPT ![n] = s]
  BY DEF Book
<1>3. CommandOK(n, c, thread[n], lost[n])
  BY Known
<1>4. k.pc = "link" /\ k.msg = c.msg /\ k.snap = c.snap /\ k.stale = c.stale /\ k \in Commands
  BY <1>3 DEF CommandOK, Commands, PCs
<1>5. DOMAIN booked' = Nodes /\ \A p \in Nodes : booked'[p] \in Slots \cup {None}
  BY <1>2, Known DEF Confirmed
<1> HIDE DEF k, c
<1>6. CommandOK(n, k, thread[n], lost[n])
  BY <1>1, <1>3, <1>4 DEF CommandOK
<1> QED
  BY <1>1, <1>5, <1>6, Known, GotoKeepsInv

LEMMA LinkInv == ASSUME TypeInv, NEW n \in Nodes, NEW t \in Tasks[n], Link(n, t) PROVE TypeInv'
<1> DEFINE c == task[n][t]
           r == [c.snap EXCEPT !.linked = TRUE]
<1>1. c.pc = "link" /\ Store(n, t, r, Idle) /\ UNCHANGED <<log, booked, mails, built, faults>>
  BY DEF Link
<1>2. c \in Commands /\ Sound(c.snap) /\ c.snap.state = "confirmed"
  BY <1>1, Known DEF CommandOK
<1>3. r \in Threads /\ r.state = c.snap.state /\ r.slots = c.snap.slots
  BY <1>2 DEF Sound, Threads
<1> HIDE DEF r
<1>4. Sound(r)
  BY <1>2, <1>3 DEF Sound, Confirmed, Active, Terminal
<1>5. DOMAIN log' = Nodes /\ \A p \in Nodes : log'[p] \subseteq 1..MaxSends
  BY <1>1, Known
<1> QED
  BY <1>1, <1>4, <1>5, IdleOK, StoreKeepsInv DEF r

LEMMA CrashInv == ASSUME TypeInv, NEW n \in Nodes, Crash(n) PROVE TypeInv'
<1>1. /\ task' = [task EXCEPT ![n] = [t \in Tasks[n] |-> Idle]]
      /\ UNCHANGED <<thread, log, booked, mails, built, lost>> /\ faults < MaxFaults /\ faults' = faults + 1
  BY DEF Crash, Fault
<1>2. DOMAIN task' = Nodes /\ \A p \in Nodes : task'[p] = IF p = n THEN [t \in Tasks[n] |-> Idle] ELSE task[p]
  BY <1>1 DEF TypeInv
<1>3. \A p \in Nodes : /\ DOMAIN task'[p] = Tasks[p]
                       /\ \A x \in Tasks[p] : CommandOK(p, task'[p][x], thread'[p], lost'[p])
  BY <1>1, <1>2, IdleOK DEF TypeInv
<1>4. faults' \in 0..MaxFaults
  BY <1>1 DEF TypeInv
<1> QED
  BY <1>1, <1>2, <1>3, <1>4 DEF TypeInv

LEMMA NextTypeInv == TypeInv /\ [Next]_vars => TypeInv'
<1> SUFFICES ASSUME TypeInv, [Next]_vars PROVE TypeInv'
  OBVIOUS
<1>1. ASSUME NEW n \in Nodes, NEW t \in Tasks[n], Open(n, t) \/ Step(n, t) \/ SendFails(n, t) PROVE TypeInv'
  BY <1>1, OpenInv, ReadThreadInv, WriteInv, SendInv, SendFailsInv, SettleInv, BookInv, LinkInv DEF Step
<1>2. ASSUME NEW n \in Nodes, NEW t \in Tasks[n], SendPropose(n, t) PROVE TypeInv'
  BY <1>2, AnswerInv DEF SendPropose
<1>3. ASSUME NEW t \in Tasks["initiator"], SendRequest(t) \/ SendConfirm(t) \/ SendRelease(t) PROVE TypeInv'
  BY <1>3, NodesAre, AnswerInv DEF SendRequest, SendConfirm, SendRelease
<1>4. ASSUME NEW n \in Nodes, Crash(n) PROVE TypeInv'
  BY <1>4, CrashInv
<1>5. CASE UNCHANGED vars
  BY <1>5 DEF vars, TypeInv
<1> QED
  BY <1>1, <1>2, <1>3, <1>4, <1>5 DEF Next

-----------------------------------------------------------------------------
(* Theorems.                                                               *)

\* The inductive invariant holds always: threads and snapshots are sound, and a
\* command that nobody overtook holds what the table says.
THEOREM NegotiationTypeInvAlways == Spec => []TypeInv
<1>1. Init => TypeInv
  BY InitTypeInv
<1>2. TypeInv /\ [Next]_vars => TypeInv'
  BY NextTypeInv
<1> QED
  BY <1>1, <1>2, PTL DEF Spec

\* Every thread is sound for any number of slots and commands
\* (negotiation_engine.rs:178-222).
THEOREM ThreadsAreSound == Spec => []ThreadsSound
<1>1. TypeInv => ThreadsSound
  <2> SUFFICES ASSUME TypeInv PROVE ThreadsSound
    OBVIOUS
  <2>1. mails \subseteq Envelopes
    BY DEF TypeInv, Sent
  <2>2. ASSUME NEW n \in Nodes
        PROVE  /\ log[n] \subseteq 1..MaxSends /\ booked[n] \in Slots \cup {None}
               /\ thread[n].slots \in [Slots -> Statuses] /\ thread[n].state \in States
               /\ Terminal(thread[n]) => Active(thread[n]) = {}
               /\ thread[n].linked => thread[n].state = "confirmed"
    BY DEF TypeInv, Sound, Threads
  <2>3. ASSUME NEW n \in Nodes
        PROVE  Cardinality(Confirmed(thread[n])) = IF thread[n].state = "confirmed" THEN 1 ELSE 0
    <3>1. Sound(thread[n])
      BY DEF TypeInv
    <3>2. CASE thread[n].state = "confirmed"
      <4>1. PICK s \in Slots : Confirmed(thread[n]) = {s}
        BY <3>1, <3>2 DEF Sound
      <4>2. Cardinality({s}) = 1
        BY FS_Singleton
      <4> QED
        BY <3>2, <4>1, <4>2
    <3>3. CASE thread[n].state # "confirmed"
      BY <3>1, <3>3, FS_EmptySet DEF Sound
    <3> QED
      BY <3>2, <3>3
  <2> QED
    BY <2>1, <2>2, <2>3 DEF ThreadsSound
<1> QED
  BY <1>1, NegotiationTypeInvAlways, PTL

\* What a step does to a thread: what is lost stays lost, and otherwise a
\* thread that has ended keeps its slots and state.
Kept(n) ==
    /\ lost[n] => lost'[n]
    /\ Terminal(thread[n]) /\ ~lost'[n] =>
         thread'[n].slots = thread[n].slots /\ thread'[n].state = thread[n].state

LEMMA ThreadMoves == ASSUME TypeInv, [Next]_vars, NEW n \in Nodes PROVE Kept(n)
<1>1. ASSUME UNCHANGED <<thread, lost>> PROVE Kept(n)
  BY <1>1 DEF Kept
<1>2. ASSUME NEW p \in Nodes, NEW t \in Tasks[p], Write(p, t) PROVE Kept(n)
  <2>1. PICK k : Store(p, t, task[p][t].snap, k) /\ task[p][t].pc = "write"
    BY <1>2 DEF Write
  <2>2. CASE p = n
    <3>1. lost'[n] = (lost[n] \/ task[n][t].stale)
      BY <2>1, <2>2, StoreMoves DEF Kept
    <3>2. ~task[n][t].stale => ~Terminal(thread[n])
      BY <2>1, <2>2, Known DEF CommandOK
    <3> QED
      BY <3>1, <3>2 DEF Kept
  <2>3. CASE p # n
    BY <2>1, <2>3, StoreMoves DEF Kept
  <2> QED
    BY <2>2, <2>3
<1>3. ASSUME NEW p \in Nodes, NEW t \in Tasks[p], Link(p, t) PROVE Kept(n)
  <2> DEFINE c == task[p][t]
             r == [c.snap EXCEPT !.linked = TRUE]
  <2>1. Store(p, t, r, Idle) /\ c.pc = "link"
    BY <1>3 DEF Link
  <2>2. CommandOK(p, c, thread[p], lost[p])
    BY Known
  <2>3. r.slots = c.snap.slots /\ r.state = c.snap.state
    BY <2>2 DEF CommandOK, Commands, Threads
  <2> HIDE DEF c, r
  <2>4. CASE p = n
    <3>1. thread'[n] = r /\ lost'[n] = (lost[n] \/ task[n][t].stale)
      BY <2>1, <2>4, StoreMoves DEF Kept
    <3>2. ~c.stale => c.snap = thread[n]
      BY <2>1, <2>2, <2>4 DEF CommandOK
    <3> QED
      BY <2>3, <2>4, <3>1, <3>2 DEF c, Kept
  <2>5. CASE p # n
    BY <2>1, <2>5, StoreMoves DEF Kept
  <2> QED
    BY <2>4, <2>5
<1>4. ASSUME NEW p \in Nodes, NEW t \in Tasks[p],
             Open(p, t) \/ ReadThread(p, t) \/ Send(p, t) \/ Settle(p, t) \/ Book(p, t) \/ SendFails(p, t) \/ SendPropose(p, t)
      PROVE  Kept(n)
  BY <1>1, <1>4 DEF Open, ReadThread, Send, Settle, Book, SendFails, SendPropose, Answer, Kept
<1>5. ASSUME NEW t \in Tasks["initiator"], SendRequest(t) \/ SendConfirm(t) \/ SendRelease(t) PROVE Kept(n)
  BY <1>1, <1>5 DEF SendRequest, SendConfirm, SendRelease, Answer, Kept
<1>6. ASSUME NEW p \in Nodes, Crash(p) PROVE Kept(n)
  BY <1>1, <1>6 DEF Crash, Kept
<1>7. CASE UNCHANGED vars
  BY <1>1, <1>7 DEF vars, Kept
<1>8. ASSUME NEW p \in Nodes, NEW t \in Tasks[p],
             Open(p, t) \/ Step(p, t) \/ SendFails(p, t) \/ SendPropose(p, t)
      PROVE  Kept(n)
  BY <1>2, <1>3, <1>4, <1>8 DEF Step
<1> QED
  BY <1>5, <1>6, <1>7, <1>8 DEF Next

\* A confirmed or released thread stays as it is, whatever arrives late, twice
\* or out of order (negotiation_engine.rs:20-24).
THEOREM TerminalThreadsStay == Spec => TerminalStays
<1>1. TypeInv /\ [Next]_vars =>
        [\A n \in Nodes :
           Terminal(thread[n]) /\ ~lost'[n] =>
              /\ thread'[n].slots = thread[n].slots
              /\ thread'[n].state = thread[n].state]_vars
  BY ThreadMoves DEF Kept
<1> QED
  BY <1>1, NegotiationTypeInvAlways, PTL DEF Spec, TerminalStays

-----------------------------------------------------------------------------
(* The two calendars show one appointment.                                 *)

\* What the responder's commands and the mails they hold may name: the slots C
\* that the initiator confirmed.
Follows(n, k, C) ==
    /\ (n = "responder" \/ k.pc = "send") /\ k.pc \in {"read", "write", "send"} /\ k.msg.kind = "confirm"
         => k.msg.slot \in C
    /\ n = "responder" => Confirmed(k.snap) \subseteq C

C0 == Confirmed(thread["initiator"])

Agreed ==
    lost["initiator"] \/
    /\ \A m \in mails : m.kind = "confirm" => m.slot \in C0
    /\ Confirmed(thread["responder"]) \subseteq C0
    /\ \A n \in Nodes : booked[n] # None => booked[n] \in C0
    /\ \A n \in Nodes : \A t \in Tasks[n] : Follows(n, task[n][t], C0)

LEMMA IdleFollows == \A n, C : Follows(n, Idle, C)
<1>1. Idle.pc = "idle" /\ Confirmed(Idle.snap) = {}
  BY NoThreadSound DEF Idle, Sound
<1> QED
  BY <1>1 DEF Follows

LEMMA FollowsMore ==
    ASSUME NEW n, NEW k, NEW C, NEW D, C \subseteq D, Follows(n, k, C)
    PROVE  Follows(n, k, D)
  BY DEF Follows

\* Without a lost write the initiator's confirmed slots only grow.
LEMMA ConfirmedGrows ==
    ASSUME TypeInv, [Next]_vars, ~lost'["initiator"]
    PROVE  ~lost["initiator"] /\ C0 \subseteq C0'
<1>1. Kept("initiator") /\ Sound(thread["initiator"])
  BY NodesAre, ThreadMoves DEF TypeInv
<1>2. CASE thread["initiator"].state = "confirmed"
  BY <1>1, <1>2 DEF Kept, Terminal, C0, Confirmed
<1>3. CASE thread["initiator"].state # "confirmed"
  BY <1>1, <1>3 DEF Kept, Sound, C0
<1> QED
  BY <1>1, <1>2, <1>3 DEF Kept

\* A step that moves one command on keeps the agreement when what is new in it
\* is named by the initiator's thread.
LEMMA GotoAgrees ==
    ASSUME TypeInv, [Next]_vars, Agreed, NEW n \in Nodes, NEW t \in Tasks[n], NEW k, Goto(n, t, k),
           UNCHANGED <<thread, lost>>,
           ~lost["initiator"] => Follows(n, k, C0),
           \A m \in mails' \ mails : ~lost["initiator"] /\ m.kind = "confirm" => m.slot \in C0,
           \A p \in Nodes : booked'[p] = booked[p] \/ lost["initiator"] \/ booked'[p] \in C0
    PROVE  Agreed'
<1> SUFFICES ASSUME ~lost'["initiator"] PROVE Agreed'
  BY DEF Agreed
<1>1. ~lost["initiator"] /\ C0' = C0
  BY DEF C0
<1>2. \A m \in mails' : m.kind = "confirm" => m.slot \in C0'
  BY <1>1 DEF Agreed
<1>3. Confirmed(thread'["responder"]) \subseteq C0'
  BY <1>1 DEF Agreed
<1>4. \A p \in Nodes : booked'[p] # None => booked'[p] \in C0'
  BY <1>1 DEF Agreed
<1>5. \A p \in Nodes : \A x \in Tasks[p] : Follows(p, task'[p][x], C0')
  <2>1. ASSUME NEW p \in Nodes, NEW x \in Tasks[p] PROVE Follows(p, task'[p][x], C0')
    <3>1. Follows(p, task[p][x], C0)
      BY <1>1 DEF Agreed
    <3>2. CASE p = n /\ x = t
      BY <1>1, <3>2, GotoMoves
    <3>3. CASE p # n \/ x # t
      BY <1>1, <3>1, <3>3, GotoMoves
    <3> QED
      BY <3>2, <3>3
  <2> QED
    BY <2>1
<1> QED
  BY <1>2, <1>3, <1>4, <1>5 DEF Agreed

LEMMA StoreAgrees ==
    ASSUME TypeInv, [Next]_vars, Agreed, NEW n \in Nodes, NEW t \in Tasks[n], NEW r, NEW k, Store(n, t, r, k),
           UNCHANGED <<mails, booked>>,
           ~lost["initiator"] /\ ~lost'["initiator"] =>
               /\ Follows(n, k, C0')
               /\ n = "responder" => Confirmed(r) \subseteq C0
    PROVE  Agreed'
<1> SUFFICES ASSUME ~lost'["initiator"] PROVE Agreed'
  BY DEF Agreed
<1>1. ~lost["initiator"] /\ C0 \subseteq C0'
  BY ConfirmedGrows
<1>2. \A m \in mails' : m.kind = "confirm" => m.slot \in C0'
  BY <1>1 DEF Agreed
<1>3. Confirmed(thread'["responder"]) \subseteq C0'
  <2>1. CASE n = "responder"
    BY <1>1, <2>1, StoreMoves
  <2>2. CASE n # "responder"
    <3>1. thread'["responder"] = thread["responder"]
      BY <2>2, NodesAre, StoreMoves
    <3> QED
      BY <1>1, <3>1 DEF Agreed
  <2> QED
    BY <2>1, <2>2
<1>4. \A p \in Nodes : booked'[p] # None => booked'[p] \in C0'
  BY <1>1 DEF Agreed
<1>5. \A p \in Nodes : \A x \in Tasks[p] : Follows(p, task'[p][x], C0')
  <2>1. ASSUME NEW p \in Nodes, NEW x \in Tasks[p] PROVE Follows(p, task'[p][x], C0')
    <3>1. Follows(p, task[p][x], C0')
      BY <1>1, FollowsMore DEF Agreed
    <3>2. CASE p = n /\ x = t
      BY <1>1, <3>2, StoreMoves
    <3>3. CASE p # n
      BY <3>1, <3>3, StoreMoves
    <3>4. CASE p = n /\ x # t
      <4> DEFINE c == task[n][x]
      <4>1. task'[n][x] = IF Holds(c) THEN [c EXCEPT !.stale = TRUE] ELSE c
        BY <3>4, StoreMoves
      <4>2. c \in Commands
        BY <3>4, Known DEF CommandOK
      <4> DEFINE d == [c EXCEPT !.stale = TRUE]
      <4>3. d.pc = c.pc /\ d.msg = c.msg /\ d.snap = c.snap
        BY <4>2 DEF Commands
      <4>4. Follows(n, c, C0')
        BY <3>1, <3>4
      <4> HIDE DEF d, c
      <4>5. Follows(n, d, C0')
        BY <4>3, <4>4 DEF Follows
      <4> QED
        BY <3>4, <4>1, <4>4, <4>5 DEF d, c
    <3> QED
      BY <3>2, <3>3, <3>4
  <2> QED
    BY <2>1
<1> QED
  BY <1>2, <1>3, <1>4, <1>5 DEF Agreed

LEMMA AgreedUse ==
    ASSUME Agreed, ~lost["initiator"], NEW n \in Nodes, NEW t \in Tasks[n]
    PROVE  /\ Follows(n, task[n][t], C0)
           /\ \A m \in mails : m.kind = "confirm" => m.slot \in C0
           /\ Confirmed(thread["responder"]) \subseteq C0
  BY DEF Agreed

LEMMA QuietAgrees ==
    ASSUME TypeInv, [Next]_vars, Agreed, NEW n \in Nodes, NEW t \in Tasks[n], NEW k, Goto(n, t, k),
           UNCHANGED <<thread, lost, mails, booked>>,
           ~lost["initiator"] => Follows(n, k, C0)
    PROVE  Agreed'
<1>1. \A p \in Nodes : booked'[p] = booked[p]
  OBVIOUS
<1> QED
  BY <1>1, GotoAgrees

LEMMA OpenAgrees ==
    ASSUME TypeInv, [Next]_vars, Agreed, NEW n \in Nodes, NEW t \in Tasks[n], Open(n, t) PROVE Agreed'
<1>1. PICK m \in mails : Goto(n, t, [Idle EXCEPT !.pc = "read", !.msg = m])
  BY DEF Open
<1> DEFINE k == [Idle EXCEPT !.pc = "read", !.msg = m]
<1>2. k.pc = "read" /\ k.msg = m /\ Confirmed(k.snap) = {}
  BY NoThreadSound DEF Idle, Sound
<1> HIDE DEF k
<1>3. ~lost["initiator"] => Follows(n, k, C0)
  BY <1>2, AgreedUse DEF Follows
<1> QED
  BY <1>1, <1>3, QuietAgrees DEF Open, k

LEMMA ReadThreadAgrees ==
    ASSUME TypeInv, [Next]_vars, Agreed, NEW n \in Nodes, NEW t \in Tasks[n], ReadThread(n, t) PROVE Agreed'
<1> DEFINE c == task[n][t]
<1>1. c.pc = "read" /\ UNCHANGED <<thread, log, booked, mails, built, faults, lost>>
  BY DEF ReadThread
<1>2. CASE Goto(n, t, Idle)
  BY <1>1, <1>2, IdleFollows, QuietAgrees
<1>3. ASSUME NEW r \in Apply(thread[n], c.msg), Goto(n, t, [c EXCEPT !.pc = "write", !.snap = r])
      PROVE  Agreed'
  <2>1. c \in Commands /\ c.msg \in Sent /\ Sound(thread[n])
    BY <1>1, Known DEF CommandOK
  <2>2. /\ Sound(r)
        /\ r.state = "confirmed" => c.msg.kind = "confirm"
        /\ c.msg.kind = "confirm" => Confirmed(r) = {c.msg.slot}
    BY <1>3, <2>1, ApplyMakes
  <2> DEFINE k == [c EXCEPT !.pc = "write", !.snap = r]
  <2>3. k.pc = "write" /\ k.msg = c.msg /\ k.snap = r
    BY <2>1 DEF Commands
  <2> HIDE DEF k, c
  <2>4. ~lost["initiator"] => Follows(n, k, C0)
    <3>1. CASE n = "responder" /\ ~lost["initiator"]
      <4>1. Follows(n, c, C0)
        BY <3>1, AgreedUse DEF c
      <4>2. c.msg.kind = "confirm" => c.msg.slot \in C0
        BY <1>1, <3>1, <4>1 DEF Follows
      <4>3. Confirmed(r) \subseteq C0
        BY <2>2, <4>2 DEF Sound
      <4> QED
        BY <2>3, <4>2, <4>3 DEF Follows
    <3>2. CASE n # "responder"
      BY <2>3, <3>2 DEF Follows
    <3> QED
      BY <3>1, <3>2
  <2> QED
    BY <1>1, <1>3, <2>4, QuietAgrees DEF k
<1> QED
  BY <1>2, <1>3 DEF ReadThread

LEMMA AnswerAgrees ==
    ASSUME TypeInv, [Next]_vars, Agreed, NEW n \in Nodes, NEW t \in Tasks[n], NEW kind, NEW s,
           kind \in {"request", "propose", "confirm", "release"},
           s \in Slots \/ (s = None /\ kind = "request"),
           kind \in {"confirm", "release"} => n = "initiator",
           Answer(n, t, kind, s)
    PROVE  Agreed'
<1> DEFINE m == [id |-> built + 1, kind |-> kind, from |-> n, slot |-> s]
<1>1. m \in Sent /\ m.kind = kind
  BY Known DEF Answer, Sent, Envelopes
<1>2. PICK r \in Apply(thread[n], m) : Goto(n, t, [Idle EXCEPT !.pc = "write", !.msg = m, !.snap = r])
  BY DEF Answer
<1>3. UNCHANGED <<thread, log, booked, mails, faults, lost>>
  BY DEF Answer
<1> HIDE DEF m
<1> DEFINE k == [Idle EXCEPT !.pc = "write", !.msg = m, !.snap = r]
<1>4. Sound(r) /\ (r.state = "confirmed" => m.kind = "confirm")
  BY <1>1, <1>2, Known, ApplyMakes
<1>5. k.pc = "write" /\ k.msg = m /\ k.snap = r
  BY DEF Idle
<1> HIDE DEF k
<1>6. Follows(n, k, C0)
  <2>1. CASE n = "initiator"
    BY <1>5, <2>1 DEF Follows
  <2>2. CASE n # "initiator"
    <3>1. m.kind # "confirm" /\ Confirmed(r) = {}
      BY <1>1, <1>4, <2>2 DEF Sound
    <3> QED
      BY <1>5, <3>1 DEF Follows
  <2> QED
    BY <2>1, <2>2
<1> QED
  BY <1>2, <1>3, <1>6, QuietAgrees DEF k

LEMMA WriteAgrees ==
    ASSUME TypeInv, [Next]_vars, Agreed, NEW n \in Nodes, NEW t \in Tasks[n], Write(n, t) PROVE Agreed'
<1> DEFINE c == task[n][t]
           k == [Idle EXCEPT !.pc = IF c.msg.from = n THEN "send" ELSE "settle", !.msg = c.msg]
<1>1. c.pc = "write" /\ Store(n, t, c.snap, k) /\ UNCHANGED <<booked, mails, built, faults>>
  BY DEF Write
<1>2. k.pc \in {"send", "settle"} /\ k.msg = c.msg /\ Confirmed(k.snap) = {}
  BY NoThreadSound DEF Idle, Sound
<1>3. c.msg.kind = "confirm" => Confirmed(c.snap) = {c.msg.slot}
  BY <1>1, Known DEF CommandOK
<1>4. thread'[n] = c.snap
  BY <1>1, StoreMoves
<1> HIDE DEF k, c
<1>5. ASSUME ~lost["initiator"], ~lost'["initiator"]
      PROVE  Follows(n, k, C0') /\ (n = "responder" => Confirmed(c.snap) \subseteq C0)
  <2>1. Follows(n, c, C0) /\ C0 \subseteq C0'
    BY <1>5, AgreedUse, ConfirmedGrows DEF c
  <2>2. CASE n = "initiator"
    <3>1. C0' = Confirmed(c.snap)
      BY <1>4, <2>2 DEF C0
    <3> QED
      BY <1>2, <1>3, <2>2, <3>1 DEF Follows
  <2>3. CASE n # "initiator"
    BY <1>1, <1>2, <2>1, <2>3, NodesAre DEF Follows
  <2> QED
    BY <2>2, <2>3
<1> QED
  BY <1>1, <1>5, StoreAgrees

LEMMA SendAgrees ==
    ASSUME TypeInv, [Next]_vars, Agreed, NEW n \in Nodes, NEW t \in Tasks[n], Send(n, t) PROVE Agreed'
<1> DEFINE c == task[n][t]
           k == IF c.msg.kind = "confirm" THEN [c EXCEPT !.pc = "settle"] ELSE Idle
<1>1. c.pc = "send" /\ mails' = mails \cup {c.msg} /\ Goto(n, t, k) /\ UNCHANGED <<thread, log, booked, built, faults, lost>>
  BY DEF Send
<1>2. c \in Commands /\ c.msg \in Sent /\ Sound(c.snap)
  BY <1>1, Known DEF CommandOK
<1>3. ASSUME ~lost["initiator"] PROVE Follows(n, k, C0)
  <2>1. Follows(n, c, C0)
    BY <1>3, AgreedUse
  <2>2. CASE c.msg.kind = "confirm"
    <3> DEFINE d == [c EXCEPT !.pc = "settle"]
    <3>1. d.pc = "settle" /\ d.snap = c.snap
      BY <1>2 DEF Commands
    <3> HIDE DEF d, c
    <3>2. Follows(n, d, C0)
      BY <2>1, <3>1 DEF Follows
    <3> QED
      BY <2>2, <3>2 DEF d
  <2>3. CASE c.msg.kind # "confirm"
    BY <2>3, IdleFollows
  <2> QED
    BY <2>2, <2>3
<1>4. \A m \in mails' \ mails : ~lost["initiator"] /\ m.kind = "confirm" => m.slot \in C0
  <2> SUFFICES ASSUME ~lost["initiator"], c.msg.kind = "confirm" PROVE c.msg.slot \in C0
    BY <1>1
  <2>1. Follows(n, c, C0)
    BY AgreedUse
  <2> QED
    BY <1>1, <2>1 DEF Follows
<1>5. \A p \in Nodes : booked'[p] = booked[p]
  BY <1>1
<1> HIDE DEF k, c
<1> QED
  BY <1>1, <1>3, <1>4, <1>5, GotoAgrees

LEMMA SettleAgrees ==
    ASSUME TypeInv, [Next]_vars, Agreed, NEW n \in Nodes, NEW t \in Tasks[n], Settle(n, t) PROVE Agreed'
<1> DEFINE k == [Idle EXCEPT !.pc = "book", !.snap = thread[n]]
<1>1. UNCHANGED <<thread, log, booked, mails, built, faults, lost>>
  BY DEF Settle
<1>2. CASE Goto(n, t, k)
  <2>1. k.pc = "book" /\ k.snap = thread[n]
    BY DEF Idle
  <2> HIDE DEF k
  <2>2. ~lost["initiator"] => Follows(n, k, C0)
    BY <2>1, AgreedUse DEF Follows
  <2> QED
    BY <1>1, <1>2, <2>2, QuietAgrees
<1>3. CASE Goto(n, t, Idle)
  BY <1>1, <1>3, IdleFollows, QuietAgrees
<1> QED
  BY <1>2, <1>3 DEF Settle

LEMMA BookAgrees ==
    ASSUME TypeInv, [Next]_vars, Agreed, NEW n \in Nodes, NEW t \in Tasks[n], Book(n, t) PROVE Agreed'
<1> DEFINE c == task[n][t]
           k == [c EXCEPT !.pc = "link"]
<1>1. c.pc = "book" /\ Goto(n, t, k) /\ UNCHANGED <<thread, log, mails, built, faults, lost>>
  BY DEF Book
<1>2. PICK s \in Confirmed(c.snap) : booked' = [booked EXCEPT ![n] = s]
  BY DEF Book
<1>3. CommandOK(n, c, thread[n], lost[n]) /\ DOMAIN booked = Nodes
  BY Known
<1>4. k.pc = "link" /\ k.snap = c.snap
  BY <1>3 DEF CommandOK, Commands
<1> HIDE DEF k
<1>5. ~lost["initiator"] => Follows(n, k, C0)
  BY <1>4, AgreedUse DEF Follows
<1>6. ~lost["initiator"] => s \in C0
  <2>1. CASE n = "initiator"
    <3>1. ~lost["initiator"] => Confirmed(c.snap) = C0
      BY <1>1, <1>3, <2>1 DEF CommandOK, C0, Confirmed
    <3> QED
      BY <1>2, <3>1
  <2>2. CASE n # "initiator"
    <3>1. ~lost["initiator"] => Confirmed(c.snap) \subseteq C0
      BY <2>2, NodesAre, AgreedUse DEF Follows
    <3> QED
      BY <1>2, <3>1
  <2> QED
    BY <2>1, <2>2
<1>7. \A p \in Nodes : booked'[p] = booked[p] \/ lost["initiator"] \/ booked'[p] \in C0
  BY <1>2, <1>3, <1>6
<1>8. \A m \in mails' \ mails : ~lost["initiator"] /\ m.kind = "confirm" => m.slot \in C0
  BY <1>1
<1> HIDE DEF c
<1> QED
  BY <1>1, <1>5, <1>7, <1>8, GotoAgrees

LEMMA LinkAgrees ==
    ASSUME TypeInv, [Next]_vars, Agreed, NEW n \in Nodes, NEW t \in Tasks[n], Link(n, t) PROVE Agreed'
<1> DEFINE c == task[n][t]
           r == [c.snap EXCEPT !.linked = TRUE]
<1>1. c.pc = "link" /\ Store(n, t, r, Idle) /\ UNCHANGED <<log, booked, mails, built, faults>>
  BY DEF Link
<1>2. c \in Commands
  BY Known DEF CommandOK
<1>3. Confirmed(r) = Confirmed(c.snap)
  BY <1>2 DEF Commands, Threads, Confirmed
<1> HIDE DEF r
<1>4. ~lost["initiator"] /\ n = "responder" => Confirmed(r) \subseteq C0
  BY <1>3, AgreedUse DEF Follows
<1> QED
  BY <1>1, <1>4, IdleFollows, StoreAgrees

LEMMA CrashAgrees ==
    ASSUME TypeInv, [Next]_vars, Agreed, NEW n \in Nodes, Crash(n) PROVE Agreed'
<1>1. /\ task' = [task EXCEPT ![n] = [t \in Tasks[n] |-> Idle]]
      /\ UNCHANGED <<thread, log, booked, mails, built, lost>>
  BY DEF Crash
<1>2. \A p \in Nodes : task'[p] = IF p = n THEN [t \in Tasks[n] |-> Idle] ELSE task[p]
  BY <1>1 DEF TypeInv
<1>3. lost["initiator"] \/ \A p \in Nodes : \A x \in Tasks[p] : Follows(p, task'[p][x], C0)
  BY <1>2, IdleFollows DEF Agreed
<1>4. C0' = C0
  BY <1>1 DEF C0
<1> QED
  BY <1>1, <1>3, <1>4 DEF Agreed

LEMMA NextAgrees == TypeInv /\ Agreed /\ [Next]_vars => Agreed'
<1> SUFFICES ASSUME TypeInv, Agreed, [Next]_vars PROVE Agreed'
  OBVIOUS
<1>1. ASSUME NEW n \in Nodes, NEW t \in Tasks[n], Open(n, t) \/ Step(n, t) PROVE Agreed'
  BY <1>1, OpenAgrees, ReadThreadAgrees, WriteAgrees, SendAgrees, SettleAgrees, BookAgrees, LinkAgrees DEF Step
<1>2. ASSUME NEW n \in Nodes, NEW t \in Tasks[n], SendFails(n, t) PROVE Agreed'
  BY <1>2, IdleFollows, QuietAgrees DEF SendFails
<1>3. ASSUME NEW n \in Nodes, NEW t \in Tasks[n], SendPropose(n, t) PROVE Agreed'
  BY <1>3, AnswerAgrees DEF SendPropose
<1>4. ASSUME NEW t \in Tasks["initiator"], SendRequest(t) \/ SendConfirm(t) \/ SendRelease(t) PROVE Agreed'
  BY <1>4, NodesAre, AnswerAgrees DEF SendRequest, SendConfirm, SendRelease
<1>5. ASSUME NEW n \in Nodes, Crash(n) PROVE Agreed'
  BY <1>5, CrashAgrees
<1>6. CASE UNCHANGED vars
  <2>1. UNCHANGED <<thread, booked, task, mails, lost>>
    BY <1>6 DEF vars
  <2> QED
    BY <2>1 DEF Agreed, C0
<1> QED
  BY <1>1, <1>2, <1>3, <1>4, <1>5, <1>6 DEF Next

\* The responder is confirmed only for the slot the initiator confirmed, and no
\* other is booked, for any number of slots, commands, mails and faults
\* (commands.rs:1777).
THEOREM CalendarsAgree == Spec => []PeersAgree
<1>1. Init => Agreed
  <2> SUFFICES ASSUME Init PROVE Agreed
    OBVIOUS
  <2>1. mails = {} /\ \A n \in Nodes : thread[n] = NoThread /\ booked[n] = None
    BY DEF Init
  <2>2. \A n \in Nodes : \A t \in Tasks[n] : task[n][t] = Idle
    BY DEF Init
  <2>3. \A n \in Nodes : \A t \in Tasks[n] : Follows(n, task[n][t], C0)
    BY <2>2, IdleFollows
  <2>4. Confirmed(thread["responder"]) = {}
    BY <2>1, NodesAre, NoThreadSound DEF Sound
  <2> QED
    BY <2>1, <2>3, <2>4 DEF Agreed
<1>2. TypeInv /\ Agreed /\ [Next]_vars => Agreed'
  BY NextAgrees
<1>3. Agreed => PeersAgree
  BY DEF Agreed, PeersAgree, C0
<1> QED
  BY <1>1, <1>2, <1>3, NegotiationTypeInvAlways, PTL DEF Spec

-----------------------------------------------------------------------------
(* A confirmed thread is booked.                                           *)

\* A command that will book the thread, or is past it.
Books(k) == k.pc \in {"settle", "book", "link"} \/ (k.pc = "send" /\ k.msg.kind = "confirm")

IsBooked(n) == booked[n] \in Confirmed(thread[n])

\* Nothing failed and nothing was written over in n: a confirmed thread is
\* linked or a command will book it, and what is linked or about to be is booked.
BookingOf(n) ==
    faults > 0 \/ lost[n] \/
    /\ thread[n].state = "confirmed" => thread[n].linked \/ \E t \in Tasks[n] : Books(task[n][t])
    /\ thread[n].linked => IsBooked(n)
    /\ \A t \in Tasks[n] : task[n][t].pc = "link" => IsBooked(n)

\* A step of another installation, or one that fails.
LEMMA ElsewhereBooking ==
    ASSUME NEW n \in Nodes, BookingOf(n),
           faults' > 0 \/ (thread'[n] = thread[n] /\ task'[n] = task[n] /\ booked'[n] = booked[n]),
           faults > 0 => faults' > 0, lost[n] => lost'[n]
    PROVE  BookingOf(n)'
  BY DEF BookingOf, IsBooked

\* A command that moves on keeps it when it does not give up a booking.
LEMMA GotoBooking ==
    ASSUME TypeInv, NEW n \in Nodes, NEW t \in Tasks[n], NEW k, BookingOf(n), Goto(n, t, k),
           UNCHANGED <<thread, lost, faults, booked>>,
           faults = 0 /\ ~lost[n] => (Books(task[n][t]) => Books(k) \/ thread[n].linked \/ thread[n].state # "confirmed"),
           k.pc = "link" => task[n][t].pc = "link"
    PROVE  BookingOf(n)'
<1> SUFFICES ASSUME faults = 0, ~lost[n] PROVE BookingOf(n)'
  BY Known DEF BookingOf
<1>1. task'[n][t] = k /\ \A x \in Tasks[n] \ {t} : task'[n][x] = task[n][x]
  BY GotoMoves
<1>2. ASSUME thread[n].state = "confirmed", ~thread[n].linked
      PROVE  \E x \in Tasks[n] : Books(task'[n][x])
  <2>1. PICK x \in Tasks[n] : Books(task[n][x])
    BY <1>2 DEF BookingOf
  <2> QED
    BY <1>1, <1>2, <2>1
<1>3. \A x \in Tasks[n] : task'[n][x].pc = "link" => IsBooked(n)
  BY <1>1 DEF BookingOf
<1>4. IsBooked(n)' <=> IsBooked(n)
  BY DEF IsBooked
<1> QED
  BY <1>2, <1>3, <1>4 DEF BookingOf

LEMMA BooksStale == \A k \in Commands : LET d == [k EXCEPT !.stale = TRUE] IN
                        (Books(d) <=> Books(k)) /\ d.pc = k.pc
<1> SUFFICES ASSUME NEW k \in Commands
             PROVE  LET d == [k EXCEPT !.stale = TRUE] IN (Books(d) <=> Books(k)) /\ d.pc = k.pc
  OBVIOUS
<1> DEFINE d == [k EXCEPT !.stale = TRUE]
<1>1. d.pc = k.pc /\ d.msg = k.msg
  BY DEF Commands
<1> HIDE DEF d
<1>2. (Books(d) <=> Books(k)) /\ d.pc = k.pc
  BY <1>1 DEF Books
<1> QED
  BY <1>2 DEF d

\* What a write leaves of the other commands.
LEMMA OthersBook ==
    ASSUME TypeInv, NEW n \in Nodes, NEW t \in Tasks[n], NEW r, NEW k, Store(n, t, r, k), NEW x \in Tasks[n] \ {t}
    PROVE  (Books(task'[n][x]) <=> Books(task[n][x])) /\ task'[n][x].pc = task[n][x].pc
<1>1. task[n][x] \in Commands
  BY Known DEF CommandOK
<1>2. task'[n][x] = IF Holds(task[n][x]) THEN [task[n][x] EXCEPT !.stale = TRUE] ELSE task[n][x]
  BY StoreMoves
<1> QED
  BY <1>1, <1>2, BooksStale

LEMMA WriteBooking ==
    ASSUME TypeInv, [Next]_vars, NEW n \in Nodes, NEW t \in Tasks[n], BookingOf(n), Write(n, t)
    PROVE  BookingOf(n)'
<1> DEFINE c == task[n][t]
           k == [Idle EXCEPT !.pc = IF c.msg.from = n THEN "send" ELSE "settle", !.msg = c.msg]
<1>1. c.pc = "write" /\ Store(n, t, c.snap, k) /\ UNCHANGED <<booked, mails, built, faults>>
  BY DEF Write
<1> SUFFICES ASSUME faults = 0, ~lost'[n] PROVE BookingOf(n)'
  BY <1>1, Known DEF BookingOf
<1>2. ~lost[n] /\ ~c.stale /\ thread'[n] = c.snap /\ task'[n][t] = k
  <2>1. lost'[n] = (lost[n] \/ c.stale)
    BY <1>1, StoreMoves
  <2>2. thread'[n] = c.snap /\ task'[n][t] = k
    BY <1>1, StoreMoves
  <2> HIDE DEF c, k
  <2> QED
    BY <2>1, <2>2
<1>3. ~Terminal(thread[n]) /\ ~c.snap.linked /\ (c.snap.state = "confirmed" => c.msg.kind = "confirm")
  BY <1>1, <1>2, Known DEF CommandOK
<1>4. c.snap.state = "confirmed" => Books(k)
  BY <1>3 DEF Books, Idle
<1>5. ASSUME NEW x \in Tasks[n] PROVE task'[n][x].pc # "link"
  <2>1. CASE x = t
    BY <1>2, <2>1 DEF Idle
  <2>2. CASE x # t
    <3>1. CommandOK(n, task[n][x], thread[n], lost[n])
      BY Known
    <3>2. task[n][x].pc # "link"
      BY <1>2, <1>3, <3>1 DEF CommandOK, Terminal
    <3> QED
      BY <1>1, <2>2, <3>2, OthersBook
  <2> QED
    BY <2>1, <2>2
<1> HIDE DEF k, c
<1> QED
  BY <1>2, <1>3, <1>4, <1>5 DEF BookingOf

LEMMA LinkBooking ==
    ASSUME TypeInv, [Next]_vars, NEW n \in Nodes, NEW t \in Tasks[n], BookingOf(n), Link(n, t)
    PROVE  BookingOf(n)'
<1> DEFINE c == task[n][t]
           r == [c.snap EXCEPT !.linked = TRUE]
<1>1. c.pc = "link" /\ Store(n, t, r, Idle) /\ UNCHANGED <<log, booked, mails, built, faults>>
  BY DEF Link
<1> SUFFICES ASSUME faults = 0, ~lost'[n] PROVE BookingOf(n)'
  BY <1>1, Known DEF BookingOf
<1>2. CommandOK(n, c, thread[n], lost[n])
  BY Known
<1>3. ~lost[n] /\ thread'[n] = r
  <2>1. lost'[n] = (lost[n] \/ c.stale)
    BY <1>1, StoreMoves
  <2>2. thread'[n] = r
    BY <1>1, StoreMoves
  <2> HIDE DEF c, r
  <2> QED
    BY <2>1, <2>2
<1>4. r.linked /\ r.slots = thread[n].slots
  BY <1>1, <1>2, <1>3 DEF CommandOK, Commands, Threads
<1>5. IsBooked(n)
  BY <1>1, <1>3 DEF BookingOf
<1>6. IsBooked(n)'
  BY <1>1, <1>3, <1>4, <1>5 DEF IsBooked, Confirmed
<1> HIDE DEF r, c
<1> QED
  BY <1>3, <1>4, <1>6 DEF BookingOf

LEMMA BookBooking ==
    ASSUME TypeInv, [Next]_vars, NEW n \in Nodes, NEW t \in Tasks[n], BookingOf(n), Book(n, t)
    PROVE  BookingOf(n)'
<1> DEFINE c == task[n][t]
           k == [c EXCEPT !.pc = "link"]
<1>1. c.pc = "book" /\ Goto(n, t, k) /\ UNCHANGED <<thread, log, mails, built, faults, lost>>
  BY DEF Book
<1> SUFFICES ASSUME faults = 0, ~lost[n] PROVE BookingOf(n)'
  BY <1>1, Known DEF BookingOf
<1>2. PICK s \in Confirmed(c.snap) : booked' = [booked EXCEPT ![n] = s]
  BY DEF Book
<1>3. CommandOK(n, c, thread[n], lost[n]) /\ DOMAIN booked = Nodes
  BY Known
<1>4. c.snap.slots = thread[n].slots
  BY <1>1, <1>3 DEF CommandOK
<1>5. IsBooked(n)'
  BY <1>1, <1>2, <1>3, <1>4 DEF IsBooked, Confirmed
<1>6. k.pc = "link"
  BY <1>3 DEF CommandOK, Commands
<1>7. task'[n][t] = k
  BY <1>1, GotoMoves
<1>8. Books(task'[n][t])
  BY <1>6, <1>7 DEF Books
<1> HIDE DEF k, c
<1> QED
  BY <1>5, <1>8 DEF BookingOf

LEMMA SendBooking ==
    ASSUME TypeInv, NEW n \in Nodes, NEW t \in Tasks[n], BookingOf(n), Send(n, t)
    PROVE  BookingOf(n)'
<1> DEFINE c == task[n][t]
           d == [c EXCEPT !.pc = "settle"]
           k == IF c.msg.kind = "confirm" THEN d ELSE Idle
<1>1. c.pc = "send" /\ Goto(n, t, k) /\ UNCHANGED <<thread, log, booked, built, faults, lost>>
  BY DEF Send
<1>2. c \in Commands
  BY Known DEF CommandOK
<1>3. d.pc = "settle"
  BY <1>2 DEF Commands
<1>4. k.pc # "link" /\ (Books(c) => Books(k))
  BY <1>1, <1>3 DEF Books, Idle
<1> HIDE DEF k
<1> QED
  BY <1>1, <1>4, GotoBooking

LEMMA SettleBooking ==
    ASSUME TypeInv, NEW n \in Nodes, NEW t \in Tasks[n], BookingOf(n), Settle(n, t)
    PROVE  BookingOf(n)'
<1> DEFINE r == thread[n]
           k == [Idle EXCEPT !.pc = "book", !.snap = r]
<1>1. UNCHANGED <<thread, log, booked, mails, built, faults, lost>>
  BY DEF Settle
<1>2. k.pc = "book"
  BY DEF Idle
<1>3. CASE Goto(n, t, k)
  <2>1. Books(k)
    BY <1>2 DEF Books
  <2> HIDE DEF k
  <2> QED
    BY <1>1, <1>2, <1>3, <2>1, GotoBooking
<1>4. CASE Goto(n, t, Idle) /\ ~(r.state = "confirmed" /\ ~r.linked /\ Confirmed(r) # {})
  <2>1. r.linked \/ r.state # "confirmed"
    BY <1>4, Known DEF Sound
  <2>2. Idle.pc # "link"
    BY DEF Idle
  <2> QED
    BY <1>1, <1>4, <2>1, <2>2, GotoBooking
<1> QED
  BY <1>3, <1>4 DEF Settle

\* The steps of a command before it books anything.
LEMMA EarlyBooking ==
    ASSUME TypeInv, NEW n \in Nodes, NEW t \in Tasks[n], BookingOf(n), NEW k, Goto(n, t, k),
           UNCHANGED <<thread, lost, faults, booked>>,
           task[n][t].pc \in {"idle", "read"}, k.pc # "link"
    PROVE  BookingOf(n)'
<1>1. ~Books(task[n][t])
  BY DEF Books
<1> QED
  BY <1>1, GotoBooking

LEMMA OpenBooking ==
    ASSUME TypeInv, NEW n \in Nodes, NEW t \in Tasks[n], BookingOf(n), Open(n, t) PROVE BookingOf(n)'
<1>1. PICK m \in mails : Goto(n, t, [Idle EXCEPT !.pc = "read", !.msg = m])
  BY DEF Open
<1> DEFINE k == [Idle EXCEPT !.pc = "read", !.msg = m]
<1>2. k.pc = "read" /\ Idle.pc = "idle"
  BY DEF Idle
<1>3. task[n][t] = Idle /\ UNCHANGED <<thread, lost, faults, booked>>
  BY DEF Open
<1> HIDE DEF k
<1>4. Goto(n, t, k)
  BY <1>1 DEF k
<1> QED
  BY <1>2, <1>3, <1>4, EarlyBooking

LEMMA ReadThreadBooking ==
    ASSUME TypeInv, NEW n \in Nodes, NEW t \in Tasks[n], BookingOf(n), ReadThread(n, t) PROVE BookingOf(n)'
<1>1. task[n][t].pc = "read" /\ task[n][t] \in Commands /\ UNCHANGED <<thread, lost, faults, booked>>
  BY Known DEF ReadThread, CommandOK
<1>2. CASE Goto(n, t, Idle)
  <2>1. Idle.pc # "link"
    BY DEF Idle
  <2> QED
    BY <1>1, <1>2, <2>1, EarlyBooking
<1>3. ASSUME NEW r, Goto(n, t, [task[n][t] EXCEPT !.pc = "write", !.snap = r]) PROVE BookingOf(n)'
  <2> DEFINE k == [task[n][t] EXCEPT !.pc = "write", !.snap = r]
  <2>1. k.pc = "write"
    BY <1>1 DEF Commands
  <2> HIDE DEF k
  <2>2. Goto(n, t, k)
    BY <1>3 DEF k
  <2> QED
    BY <1>1, <2>1, <2>2, EarlyBooking
<1> QED
  BY <1>2, <1>3 DEF ReadThread

LEMMA AnswerBooking ==
    ASSUME TypeInv, NEW n \in Nodes, NEW t \in Tasks[n], BookingOf(n), NEW kind, NEW s, Answer(n, t, kind, s)
    PROVE  BookingOf(n)'
<1>1. PICK m, r : Goto(n, t, [Idle EXCEPT !.pc = "write", !.msg = m, !.snap = r])
  BY DEF Answer
<1> DEFINE k == [Idle EXCEPT !.pc = "write", !.msg = m, !.snap = r]
<1>2. k.pc = "write" /\ Idle.pc = "idle"
  BY DEF Idle
<1>3. task[n][t] = Idle /\ UNCHANGED <<thread, lost, faults, booked>>
  BY DEF Answer
<1> HIDE DEF k
<1>4. Goto(n, t, k)
  BY <1>1 DEF k
<1> QED
  BY <1>2, <1>3, <1>4, EarlyBooking

\* What a step of one installation leaves of the other.
LEMMA Elsewhere ==
    ASSUME TypeInv, NEW p \in Nodes, NEW t \in Tasks[p], NEW n \in Nodes \ {p},
           Open(p, t) \/ Step(p, t) \/ SendFails(p, t) \/ \E kind, s : Answer(p, t, kind, s)
    PROVE  thread'[n] = thread[n] /\ task'[n] = task[n] /\ booked'[n] = booked[n]
<1>1. (\E k : Goto(p, t, k) /\ UNCHANGED thread) \/ \E r, k : Store(p, t, r, k)
  BY DEF Open, Step, ReadThread, Write, Send, SendFails, Settle, Book, Link, Answer
<1>2. thread'[n] = thread[n] /\ task'[n] = task[n]
  <2>1. CASE \E r, k : Store(p, t, r, k)
    BY <2>1, StoreMoves
  <2>2. CASE \E k : Goto(p, t, k) /\ UNCHANGED thread
    BY <2>2 DEF Goto, TypeInv
  <2> QED
    BY <1>1, <2>1, <2>2
<1>3. UNCHANGED booked \/ \E s : booked' = [booked EXCEPT ![p] = s]
  BY DEF Open, Step, ReadThread, Write, Send, SendFails, Settle, Book, Link, Answer
<1>4. booked'[n] = booked[n]
  BY <1>3 DEF TypeInv
<1> QED
  BY <1>2, <1>4

Booking == \A n \in Nodes : BookingOf(n)

LEMMA NextBooking == TypeInv /\ Booking /\ [Next]_vars => Booking'
<1> SUFFICES ASSUME TypeInv, Booking, [Next]_vars, NEW n \in Nodes PROVE BookingOf(n)'
  BY DEF Booking
<1>1. BookingOf(n) /\ (lost[n] => lost'[n])
  BY ThreadMoves DEF Booking, Kept
<1>2. ASSUME NEW p \in Nodes, NEW t \in Tasks[p],
             Open(p, t) \/ Step(p, t) \/ SendFails(p, t) \/ \E kind, s : Answer(p, t, kind, s)
      PROVE  BookingOf(n)'
  <2>1. CASE SendFails(p, t)
    <3>1. faults' > 0
      BY <2>1, Known DEF SendFails, Fault
    <3> QED
      BY <1>1, <3>1, ElsewhereBooking
  <2>2. CASE ~SendFails(p, t)
    <3>1. faults' = faults
      BY <1>2, <2>2 DEF Open, Step, ReadThread, Write, Send, Settle, Book, Link, Answer
    <3>2. CASE p # n
      BY <1>1, <1>2, <3>1, <3>2, Elsewhere, ElsewhereBooking
    <3>3. CASE p = n
      BY <1>1, <1>2, <2>2, <3>3, OpenBooking, ReadThreadBooking, AnswerBooking, WriteBooking, SendBooking,
         SettleBooking, BookBooking, LinkBooking DEF Step
    <3> QED
      BY <3>2, <3>3
  <2> QED
    BY <2>1, <2>2
<1>3. ASSUME NEW p \in Nodes, NEW t \in Tasks[p], SendPropose(p, t) PROVE BookingOf(n)'
  BY <1>2, <1>3 DEF SendPropose
<1>4. ASSUME NEW t \in Tasks["initiator"], SendRequest(t) \/ SendConfirm(t) \/ SendRelease(t) PROVE BookingOf(n)'
  BY <1>2, <1>4, NodesAre DEF SendRequest, SendConfirm, SendRelease
<1>5. ASSUME NEW p \in Nodes, Crash(p) PROVE BookingOf(n)'
  <2>1. faults' > 0
    BY <1>5 DEF Crash, Fault, TypeInv
  <2> QED
    BY <1>1, <2>1, ElsewhereBooking
<1>6. CASE UNCHANGED vars
  <2>1. UNCHANGED <<thread, task, booked, faults, lost>>
    BY <1>6 DEF vars
  <2> QED
    BY <1>1, <2>1, ElsewhereBooking
<1> QED
  BY <1>2, <1>3, <1>4, <1>5, <1>6 DEF Next

\* A confirmed thread is booked once no command of its installation is under
\* way, when nothing failed and nothing was written over
\* (negotiation_engine.rs:178, commands.rs:1777).
THEOREM ConfirmedThreadsAreBooked == Spec => []ConfirmedIsBooked
<1>1. Init => Booking
  <2> SUFFICES ASSUME Init, NEW n \in Nodes PROVE BookingOf(n)
    BY DEF Booking
  <2>1. thread[n] = NoThread /\ \A t \in Tasks[n] : task[n][t] = Idle
    BY DEF Init
  <2>2. Idle.pc = "idle"
    BY DEF Idle
  <2>3. NoThread.state = "none" /\ NoThread.linked = FALSE
    BY DEF NoThread
  <2> QED
    BY <2>1, <2>2, <2>3 DEF BookingOf
<1>2. TypeInv /\ Booking /\ [Next]_vars => Booking'
  BY NextBooking
<1>3. TypeInv /\ Booking => ConfirmedIsBooked
  <2> SUFFICES ASSUME TypeInv, Booking, NEW n \in Nodes,
                      thread[n].state = "confirmed", \A t \in Tasks[n] : task[n][t] = Idle,
                      faults = 0, ~lost[n]
               PROVE  thread[n].linked /\ booked[n] \in Confirmed(thread[n])
    BY DEF ConfirmedIsBooked
  <2>1. \A t \in Tasks[n] : ~Books(task[n][t])
    BY DEF Books, Idle
  <2> QED
    BY <2>1 DEF Booking, BookingOf, IsBooked
<1> QED
  BY <1>1, <1>2, <1>3, NegotiationTypeInvAlways, PTL DEF Spec

=============================================================================
