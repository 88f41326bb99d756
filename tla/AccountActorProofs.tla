------------------------- MODULE AccountActorProofs -------------------------
(***************************************************************************)
(* Proofs about AccountActor, for any accounts, commands, actors, channel  *)
(* capacities and faults.                                                  *)
(***************************************************************************)
EXTENDS AccountActor, SequenceTheorems, TLAPS

USE AccountActorAssumption DEF AccountActorAssumption

\* A command past its start has a sync_mode for its account, and spawn_all one
\* for every account it has left.
ConfOK ==
    \A c \in Cmds :
        /\ \/ cpc[c] \in {"write", "remove", "send", "spawn", "notify", "drain", "join"}
           \/ cpc[c] = "lock" /\ op[c] # "start"
           => conf[c][acct[c]] \in Modes
        /\ rest[c] # {} => op[c] = "start" /\ cpc[c] \in {"lock", "next", "remove", "send", "spawn"}
        /\ \A a \in rest[c] : conf[c][a] \in Modes

TypeInv == TypeOK /\ ConfOK

\* A task that ended leaves no message in its channel, and a handle that a
\* command has taken from the map is not in it any more.
EndedEmpty == \A i \in ActorIds : apc[i] = "ended" => inbox[i] = <<>>
HeldApart == \A c \in Cmds, a \in Accounts : handles[a] \notin held[c]

\* Nothing is under way while the program does not run.
Down == ~up => (\A c \in Cmds : cpc[c] = "idle") /\ \A a \in Accounts : handles[a] = 0

IInv == TypeInv /\ EndedEmpty /\ HeldApart /\ HandlesUsable

-----------------------------------------------------------------------------
(* How the accounts stand while commands are under way.                    *)

\* The sync_mode an actor works with once it has emptied its channel.
Eventual(i) == IF inbox[i] = <<>> THEN amode[i] ELSE inbox[i][Len(inbox[i])]

Follows(a) ==
    IF a \notin Rows THEN handles[a] = 0
    ELSE handles[a] # 0 /\ table[a] = Eventual(handles[a])

\* Accounts that have a row and wait for command c to spawn their actor.
Unspawned(c) ==
    IF op[c] = "start"
      THEN rest[c] \cup IF cpc[c] \in {"remove", "send", "spawn"} THEN {acct[c]} ELSE {}
      ELSE IF \/ op[c] \in {"add", "import"} /\ cpc[c] \in {"lock", "remove", "send", "spawn"}
              \/ op[c] = "import" /\ cpc[c] = "read"
      THEN {acct[c]} ELSE {}

\* An account whose actor c is about to tell, and one whose actor it has told
\* to end.
Untold(c) == IF op[c] = "update" /\ cpc[c] \in {"lock", "notify"} THEN {acct[c]} ELSE {}
Ending(c) == IF op[c] = "delete" /\ cpc[c] \in {"send", "write"} THEN {acct[c]} ELSE {}

Reading(c) == op[c] = "start" /\ cpc[c] = "read"

\* How account a stands while c, and no other command, is at work on it.
Stands(c, a) ==
    IF Reading(c) THEN handles[a] = 0
    ELSE /\ a \in Unspawned(c) => a \in Rows /\ handles[a] = 0 /\ (cpc[c] # "read" => conf[c][a] = table[a])
         /\ a \in Untold(c) => a \in Rows /\ handles[a] # 0 /\ conf[c][a] = table[a]
         /\ a \in Ending(c) => handles[a] = 0
         /\ a \notin Unspawned(c) \cup Untold(c) \cup Ending(c) => Follows(a)
         /\ op[c] = "correct" /\ cpc[c] = "write" => conf[c][a] = table[a]

Path(k) ==
    CASE k = "start" -> {"idle", "read", "lock", "next", "remove", "send", "spawn"}
      [] k = "add" -> {"idle", "write", "lock", "remove", "send", "spawn"}
      [] k = "import" -> {"idle", "write", "read", "lock", "remove", "send", "spawn"}
      [] k = "update" -> {"idle", "write", "lock", "notify"}
      [] k = "correct" -> {"idle", "read", "write"}
      [] k = "delete" -> {"idle", "lock", "remove", "send", "write"}
      [] k = "quit" -> {"lock", "drain", "send", "join"}

PathOK(c) ==
    /\ cpc[c] \in Path(op[c])
    /\ op[c] = "start" /\ cpc[c] \in {"remove", "send", "spawn"} => acct[c] \notin rest[c]

Quitting == \E c \in Cmds : op[c] = "quit" /\ cpc[c] # "idle"

\* At most one command is at work on account a; and unless the program is about
\* to end, a stands as that command left it, or else follows the table.
Orderly(a) ==
    /\ \A c, d \in Cmds : Concerns(c, a) /\ Concerns(d, a) => c = d
    /\ up /\ ~Quitting =>
         /\ (\A c \in Cmds : ~Concerns(c, a)) => Follows(a)
         /\ \A c \in Cmds : Concerns(c, a) => Stands(c, a)

FollowInv ==
    /\ Down
    /\ \A c \in Cmds : PathOK(c)
    /\ \A a \in Accounts \ muddled : Orderly(a)

-----------------------------------------------------------------------------
(* Channels.                                                               *)

LEMMA ChannelAppend ==
    ASSUME NEW S, NEW s \in Seq(S), NEW e \in S
    PROVE  /\ Append(s, e) \in Seq(S) /\ Append(s, e) # <<>>
           /\ Len(s) \in Nat /\ Len(Append(s, e)) = Len(s) + 1
           /\ Append(s, e)[Len(s) + 1] = e
           /\ \A k \in 1..Len(s) : Append(s, e)[k] = s[k]
  OBVIOUS

LEMMA ChannelTail ==
    ASSUME NEW S, NEW s \in Seq(S), s # <<>>
    PROVE  /\ Len(s) \in Nat \ {0}
           /\ Head(s) = s[1] /\ Head(s) \in S
           /\ Tail(s) \in Seq(S) /\ Len(Tail(s)) = Len(s) - 1
           /\ \A k \in 1..Len(Tail(s)) : Tail(s)[k] = s[k + 1]
  OBVIOUS

\* Taking the first message leaves the last one the last.
LEMMA ChannelLast ==
    ASSUME NEW S, NEW s \in Seq(S), s # <<>>
    PROVE  IF Tail(s) = <<>> THEN s[Len(s)] = Head(s) ELSE Tail(s)[Len(Tail(s))] = s[Len(s)]
<1>1. Len(s) \in Nat \ {0} /\ Head(s) = s[1] /\ Tail(s) \in Seq(S) /\ Len(Tail(s)) = Len(s) - 1
      /\ \A k \in 1..Len(Tail(s)) : Tail(s)[k] = s[k + 1]
  BY ChannelTail
<1>2. CASE Tail(s) = <<>>
  <2> DEFINE n == Len(s)
             t == Tail(s)
  <2>1. n \in Nat /\ Len(t) = n - 1 /\ t = <<>>
    BY <1>1, <1>2
  <2> HIDE DEF n, t
  <2>2. n = 1
    <3>1. Len(<<>>) = 0
      OBVIOUS
    <3> QED
      BY <2>1, <3>1
  <2> QED
    BY <1>1, <1>2, <2>2 DEF n
<1>3. CASE Tail(s) # <<>>
  <2>1. Len(Tail(s)) # 0
    BY <1>1, <1>3
  <2>2. Len(Tail(s)) \in 1..Len(Tail(s)) /\ Len(Tail(s)) + 1 = Len(s)
    BY <1>1, <2>1
  <2> QED
    BY <1>1, <1>3, <2>2
<1> QED
  BY <1>2, <1>3

Orders == Modes \cup {"shutdown"}

\* What a send does to the channels.
LEMMA SendEffect ==
    ASSUME TypeOK, NEW i \in ActorIds, NEW msg \in Orders, SendTo(i, msg)
    PROVE  /\ inbox' \in [ActorIds -> Seq(Orders)]
           /\ \A j \in ActorIds : Len(inbox'[j]) <= Cap
           /\ \A j \in ActorIds \ {i} : inbox'[j] = inbox[j]
           /\ apc[i] = "ended" => inbox'[i] = inbox[i]
           /\ apc[i] # "ended" => inbox'[i] = Append(inbox[i], msg)
<1>1. inbox \in [ActorIds -> Seq(Orders)] /\ \A j \in ActorIds : Len(inbox[j]) <= Cap
  BY DEF TypeOK, Orders
<1>2. CASE apc[i] = "ended"
  BY <1>1, <1>2 DEF SendTo
<1>3. CASE apc[i] # "ended"
  <2>1. Append(inbox[i], msg) \in Seq(Orders) /\ Len(Append(inbox[i], msg)) = Len(inbox[i]) + 1 /\ Len(inbox[i]) \in Nat
    BY <1>1, ChannelAppend
  <2>2. Len(inbox[i]) < Cap /\ inbox' = [inbox EXCEPT ![i] = Append(inbox[i], msg)]
    BY <1>3 DEF SendTo
  <2>3. Len(Append(inbox[i], msg)) <= Cap
    BY <2>1, <2>2
  <2> DEFINE s == Append(inbox[i], msg)
  <2>4. inbox' = [inbox EXCEPT ![i] = s] /\ s \in Seq(Orders) /\ Len(s) <= Cap
    BY <2>1, <2>2, <2>3
  <2> HIDE DEF s
  <2>5. /\ inbox' \in [ActorIds -> Seq(Orders)] /\ inbox'[i] = s
        /\ \A j \in ActorIds \ {i} : inbox'[j] = inbox[j]
    BY <1>1, <2>4
  <2>6. \A j \in ActorIds : Len(inbox'[j]) <= Cap
    BY <1>1, <2>4, <2>5
  <2> QED
    BY <1>3, <2>5, <2>6 DEF s
<1> QED
  BY <1>2, <1>3

LEMMA ModeFacts ==
    /\ Modes \cap Gone = {} /\ "shutdown" \notin Modes
    /\ AnyMode \in Modes /\ AnyAccount \in Accounts
    /\ \A m : Entry(m) \in {"wait", "open"}
    /\ NoConf \in [Accounts -> Modes \cup Gone]
    /\ ActorIds \subseteq Nat \ {0}
  BY DEF AllModes, Gone, AnyMode, AnyAccount, Entry, NoConf, ActorIds

-----------------------------------------------------------------------------
(* Type correctness.                                                       *)

LEMMA EmptyChannel == /\ <<>> \in Seq(Orders) /\ Len(<<>>) = 0 /\ Len(<<>>) <= Cap
                       /\ 0 \in 0..MaxActors /\ 0 \in 0..MaxCalls /\ 0 \in 0..MaxFaults
  OBVIOUS

LEMMA InitIInv == Init => IInv
<1> SUFFICES ASSUME Init PROVE IInv
  OBVIOUS
<1>1. inbox \in [ActorIds -> Seq(Orders)] /\ \A i \in ActorIds : inbox[i] = <<>> /\ Len(inbox[i]) <= Cap
  BY EmptyChannel DEF Init
<1>2. TypeOK
  <2>1. /\ table \in [Accounts -> Modes \cup Gone] /\ mail \in [Accounts -> BOOLEAN]
        /\ up \in BOOLEAN /\ handles \in [Accounts -> 0..MaxActors]
        /\ calls \in 0..MaxCalls /\ faults \in 0..MaxFaults /\ mutex \in Cmds \cup {NoCmd}
    BY EmptyChannel DEF Init, Gone
  <2>2. /\ owner \in [ActorIds -> Accounts] /\ amode \in [ActorIds -> Modes]
        /\ apc \in [ActorIds -> APCs] /\ home \in [ActorIds -> {"idle", "backoff", "wait"}]
        /\ seen \in [ActorIds -> BOOLEAN]
    BY ModeFacts DEF Init, APCs
  <2>3. /\ op \in [Cmds -> AllKinds \cup {"start"}] /\ cpc \in [Cmds -> CPCs] /\ acct \in [Cmds -> Accounts]
        /\ conf \in [Cmds -> [Accounts -> Modes \cup Gone]] /\ rest \in [Cmds -> SUBSET Accounts]
        /\ held \in [Cmds -> SUBSET ActorIds] /\ joins \in [Cmds -> SUBSET ActorIds] /\ muddled \in SUBSET Accounts
    BY ModeFacts DEF Init, CPCs
  <2> QED
    BY <1>1, <2>1, <2>2, <2>3 DEF TypeOK, Orders
<1>3. ConfOK
  BY DEF Init, ConfOK
<1>4. EndedEmpty /\ HeldApart /\ HandlesUsable
  BY DEF Init, EndedEmpty, HeldApart, HandlesUsable
<1> QED
  BY <1>2, <1>3, <1>4 DEF IInv, TypeInv

LEMMA DieIInv ==
    ASSUME TypeInv, Die, faults' \in 0..MaxFaults
    PROVE  IInv'
<1>1. inbox' \in [ActorIds -> Seq(Orders)] /\ \A i \in ActorIds : inbox'[i] = <<>> /\ Len(inbox'[i]) <= Cap
  BY EmptyChannel DEF Die
<1>2. TypeOK'
  <2>1. /\ table' \in [Accounts -> Modes \cup Gone] /\ mail' \in [Accounts -> BOOLEAN]
        /\ up' \in BOOLEAN /\ handles' \in [Accounts -> 0..MaxActors]
        /\ calls' \in 0..MaxCalls /\ mutex' \in Cmds \cup {NoCmd}
    BY EmptyChannel DEF Die, TypeInv, TypeOK
  <2>2. /\ owner' \in [ActorIds -> Accounts] /\ amode' \in [ActorIds -> Modes]
        /\ apc' \in [ActorIds -> APCs] /\ home' \in [ActorIds -> {"idle", "backoff", "wait"}]
        /\ seen' \in [ActorIds -> BOOLEAN]
    BY ModeFacts DEF Die, APCs
  <2>3. /\ op' \in [Cmds -> AllKinds \cup {"start"}] /\ cpc' \in [Cmds -> CPCs] /\ acct' \in [Cmds -> Accounts]
        /\ conf' \in [Cmds -> [Accounts -> Modes \cup Gone]] /\ rest' \in [Cmds -> SUBSET Accounts]
        /\ held' \in [Cmds -> SUBSET ActorIds] /\ joins' \in [Cmds -> SUBSET ActorIds] /\ muddled' \in SUBSET Accounts
    BY ModeFacts DEF Die, CPCs
  <2> QED
    BY <1>1, <2>1, <2>2, <2>3 DEF TypeOK, Orders
<1>3. ConfOK'
  BY DEF Die, ConfOK
<1>4. EndedEmpty' /\ HeldApart' /\ HandlesUsable'
  BY DEF Die, EndedEmpty, HeldApart, HandlesUsable
<1> QED
  BY <1>2, <1>3, <1>4 DEF IInv, TypeInv

\* A step of an actor other than the receipt of a command.
LEMMA ActorTypes ==
    ASSUME TypeInv, NEW i \in ActorIds,
           Network(i) \/ IdleTimeout(i) \/ PollTick(i) \/ BackoffOver(i) \/ IdlePush(i) \/ IdleBroken(i)
    PROVE  /\ TypeInv'
           /\ UNCHANGED <<table, up, handles, mutex, owner, amode, inbox, cmdVars, calls>>
           /\ \A j \in ActorIds : apc'[j] = "ended" <=> apc[j] = "ended"
<1> DEFINE Same == UNCHANGED <<table, up, handles, mutex, owner, amode, inbox, cmdVars, calls>>
<1> DEFINE Goal == /\ mail' \in [Accounts -> BOOLEAN]
                  /\ apc' \in [ActorIds -> APCs]
                  /\ home' \in [ActorIds -> {"idle", "backoff", "wait"}]
                  /\ seen' \in [ActorIds -> BOOLEAN]
                  /\ faults' \in 0..MaxFaults
                  /\ Same
                  /\ \A j \in ActorIds : apc'[j] = "ended" <=> apc[j] = "ended"
<1>1. ASSUME Open(i) PROVE Goal
  <2>1. \E l \in {"fetch", "backoff"} : AGoto(i, l) /\ apc[i] = "open"
    BY <1>1 DEF Open
  <2>2. faults' \in 0..MaxFaults
    BY <1>1 DEF Open, TypeInv, TypeOK, Fault, NoFault
  <2>3. apc' \in [ActorIds -> APCs] /\ \A j \in ActorIds : apc'[j] = "ended" <=> apc[j] = "ended"
    BY <2>1 DEF TypeInv, TypeOK, APCs, AGoto
  <2>4. Same /\ UNCHANGED <<mail, seen>> /\ home' = [home EXCEPT ![i] = "idle"]
    BY <1>1 DEF Open, cmdVars
  <2> QED
    BY <2>2, <2>3, <2>4 DEF TypeInv, TypeOK
<1>2. ASSUME FetchSearch(i) PROVE Goal
  BY <1>2 DEF FetchSearch, TypeInv, TypeOK, APCs, AGoto, cmdVars
<1>3. ASSUME FetchDone(i) PROVE Goal
  BY <1>3 DEF FetchDone, TypeInv, TypeOK, APCs, AGoto, cmdVars
<1>4. ASSUME FetchFails(i) PROVE Goal
  BY <1>4 DEF FetchFails, TypeInv, TypeOK, APCs, AGoto, Fault, NoFault, cmdVars
<1>5. ASSUME IdleTimeout(i) \/ BackoffOver(i) \/ IdlePush(i) PROVE Goal
  BY <1>5 DEF IdleTimeout, BackoffOver, IdlePush, TypeInv, TypeOK, APCs, AGoto, cmdVars
<1>6. ASSUME PollTick(i) PROVE Goal
  BY <1>6 DEF PollTick, TypeInv, TypeOK, APCs, AGoto, cmdVars
<1>7. ASSUME IdleBroken(i) PROVE Goal
  BY <1>7 DEF IdleBroken, TypeInv, TypeOK, APCs, AGoto, Fault, cmdVars
<1>8. Goal
  BY <1>1, <1>2, <1>3, <1>4, <1>5, <1>6, <1>7 DEF Network
<1> QED
  BY <1>8 DEF TypeInv, TypeOK, ConfOK, cmdVars

LEMMA ActorKeepsIInv ==
    ASSUME IInv, NEW i \in ActorIds,
           Network(i) \/ IdleTimeout(i) \/ PollTick(i) \/ BackoffOver(i) \/ IdlePush(i) \/ IdleBroken(i)
    PROVE  IInv'
<1>1. /\ TypeInv'
      /\ UNCHANGED <<table, up, handles, mutex, owner, amode, inbox, cmdVars, calls>>
      /\ \A j \in ActorIds : apc'[j] = "ended" <=> apc[j] = "ended"
  BY ActorTypes DEF IInv
<1>2. EndedEmpty' /\ HeldApart'
  BY <1>1 DEF IInv, EndedEmpty, HeldApart, cmdVars
<1>3. HandlesUsable'
  BY <1>1 DEF IInv, TypeInv, TypeOK, HandlesUsable, ActorIds
<1> QED
  BY <1>1, <1>2, <1>3 DEF IInv

\* Recv and RecvDoneFails take one message from the channel, or end a task that
\* is not in the map.
LEMMA RecvEffect ==
    ASSUME IInv, NEW i \in ActorIds, Recv(i) \/ RecvDoneFails(i)
    PROVE  /\ UNCHANGED <<table, mail, up, handles, mutex, owner, home, seen, calls, op, cpc, acct, conf, rest, held, joins>>
           /\ muddled' \in SUBSET Accounts
           /\ inbox' \in [ActorIds -> Seq(Orders)]
           /\ amode' \in [ActorIds -> Modes] /\ apc' \in [ActorIds -> APCs] /\ faults' \in 0..MaxFaults
           /\ \A j \in ActorIds \ {i} : inbox'[j] = inbox[j] /\ amode'[j] = amode[j] /\ apc'[j] = apc[j]
           /\ apc[i] # "ended"
           /\ \/ /\ inbox[i] # <<>> /\ inbox'[i] = Tail(inbox[i]) /\ apc'[i] # "ended"
                 /\ ~RecvDoneFails(i) => amode'[i] = Head(inbox[i])
              \/ /\ inbox'[i] = <<>> /\ apc'[i] = "ended"
                 /\ \A a \in Accounts : handles[a] # i
<1>1. /\ inbox \in [ActorIds -> Seq(Orders)] /\ amode \in [ActorIds -> Modes] /\ apc \in [ActorIds -> APCs]
      /\ faults \in 0..MaxFaults /\ handles \in [Accounts -> 0..MaxActors] /\ muddled \in SUBSET Accounts
  BY DEF IInv, TypeInv, TypeOK, Orders
<1>2. inbox[i] # <<>> => /\ Head(inbox[i]) \in Orders /\ Tail(inbox[i]) \in Seq(Orders)
                         /\ Head(inbox[i]) = inbox[i][1] /\ 1 \in 1..Len(inbox[i])
  BY <1>1, ChannelTail
<1>3. inbox[i] # <<>> /\ Head(inbox[i]) = "shutdown" => \A a \in Accounts : handles[a] # i
  <2> SUFFICES ASSUME inbox[i] # <<>>, Head(inbox[i]) = "shutdown", NEW a \in Accounts, handles[a] = i PROVE FALSE
    OBVIOUS
  <2>1. handles[a] # 0
    BY DEF ActorIds
  <2>2. \A k \in 1..Len(inbox[i]) : inbox[i][k] # "shutdown"
    BY <2>1 DEF IInv, HandlesUsable
  <2> QED
    BY <1>2, <2>2
<1>4. CASE RecvDoneFails(i)
  <2>1. inbox[i] # <<>> /\ inbox' = [inbox EXCEPT ![i] = Tail(inbox[i])] /\ DoneMayFail
        /\ apc[i] = "idle" /\ apc' = [apc EXCEPT ![i] = "backoff"] /\ amode' = amode
    BY <1>4 DEF RecvDoneFails, AGoto
  <2>2. faults' \in 0..MaxFaults
    BY <1>1, <1>4 DEF RecvDoneFails, Fault
  <2>3. UNCHANGED <<table, mail, up, handles, mutex, owner, home, seen, calls, op, cpc, acct, conf, rest, held, joins>> /\ muddled' \in SUBSET Accounts
    BY <1>1, <1>4 DEF RecvDoneFails
  <2> HIDE <1>3
  <2> QED
    BY <1>1, <1>2, <1>4, <2>1, <2>2, <2>3 DEF APCs
<1>5. CASE Recv(i) /\ apc'[i] # "ended"
  <2>1. /\ inbox[i] # <<>> /\ inbox' = [inbox EXCEPT ![i] = Tail(inbox[i])]
        /\ Head(inbox[i]) # "shutdown" /\ amode' = [amode EXCEPT ![i] = Head(inbox[i])]
        /\ apc' = [apc EXCEPT ![i] = Entry(Head(inbox[i]))]
    BY <1>1, <1>5 DEF Recv, AGoto
  <2>2. Head(inbox[i]) \in Modes
    BY <1>2, <2>1 DEF Orders
  <2>3. apc[i] # "ended" /\ faults' = faults
        /\ UNCHANGED <<table, mail, up, handles, mutex, owner, home, seen, calls, op, cpc, acct, conf, rest, held, joins>> /\ muddled' \in SUBSET Accounts
    BY <1>1, <1>5 DEF Recv, cmdVars
  <2>4. Entry(Head(inbox[i])) \in APCs \ {"ended"}
    BY ModeFacts DEF APCs
  <2> QED
    BY <1>1, <1>2, <2>1, <2>2, <2>3, <2>4
<1>6. CASE Recv(i) /\ apc'[i] = "ended"
  <2>1. Entry(Head(inbox[i])) # "ended"
    BY ModeFacts
  <2>2. /\ IF inbox[i] = <<>> THEN Closed(i) ELSE Head(inbox[i]) = "shutdown"
        /\ inbox' = [inbox EXCEPT ![i] = <<>>] /\ apc' = [apc EXCEPT ![i] = "ended"] /\ amode' = amode
    BY <1>1, <1>6, <2>1 DEF Recv, AGoto
  <2>3. apc[i] # "ended" /\ faults' = faults
        /\ UNCHANGED <<table, mail, up, handles, mutex, owner, home, seen, calls, op, cpc, acct, conf, rest, held, joins>> /\ muddled' \in SUBSET Accounts
    BY <1>1, <1>6 DEF Recv, cmdVars
  <2>4. \A a \in Accounts : handles[a] # i
    BY <1>3, <2>2 DEF Closed
  <2>5. inbox' \in [ActorIds -> Seq(Orders)] /\ inbox'[i] = <<>>
    BY <1>1, <2>2, EmptyChannel
  <2> QED
    BY <1>1, <2>2, <2>3, <2>4, <2>5 DEF APCs
<1> QED
  BY <1>4, <1>5, <1>6

LEMMA RecvKeepsIInv ==
    ASSUME IInv, NEW i \in ActorIds, Recv(i) \/ RecvDoneFails(i)
    PROVE  IInv'
<1>1. /\ UNCHANGED <<table, mail, up, handles, mutex, owner, home, seen, calls, op, cpc, acct, conf, rest, held, joins>>
      /\ muddled' \in SUBSET Accounts
      /\ inbox' \in [ActorIds -> Seq(Orders)]
      /\ amode' \in [ActorIds -> Modes] /\ apc' \in [ActorIds -> APCs] /\ faults' \in 0..MaxFaults
      /\ \A j \in ActorIds \ {i} : inbox'[j] = inbox[j] /\ amode'[j] = amode[j] /\ apc'[j] = apc[j]
      /\ apc[i] # "ended"
      /\ \/ inbox[i] # <<>> /\ inbox'[i] = Tail(inbox[i]) /\ apc'[i] # "ended"
         \/ inbox'[i] = <<>> /\ apc'[i] = "ended" /\ \A a \in Accounts : handles[a] # i
  BY RecvEffect
<1>2. \A j \in ActorIds : inbox[j] \in Seq(Orders) /\ Len(inbox[j]) \in Nat /\ Len(inbox[j]) <= Cap
  BY DEF IInv, TypeInv, TypeOK, Orders
<1>3. inbox[i] # <<>> => /\ Len(Tail(inbox[i])) = Len(inbox[i]) - 1
                         /\ \A k \in 1..Len(Tail(inbox[i])) : Tail(inbox[i])[k] = inbox[i][k + 1] /\ k + 1 \in 1..Len(inbox[i])
  BY <1>2, ChannelTail
<1>4. \A j \in ActorIds : Len(inbox'[j]) <= Cap
  <2>1. \A j \in ActorIds \ {i} : Len(inbox'[j]) <= Cap
    BY <1>1, <1>2
  <2>2. CASE inbox'[i] = <<>>
    BY <2>1, <2>2, EmptyChannel
  <2>3. CASE inbox[i] # <<>> /\ inbox'[i] = Tail(inbox[i])
    <3>1. Len(inbox'[i]) = Len(inbox[i]) - 1
      BY <1>3, <2>3
    <3>2. Len(inbox'[i]) <= Cap
      BY <1>2, <3>1
    <3> QED
      BY <2>1, <3>2
  <2> QED
    BY <1>1, <2>2, <2>3
<1>5. TypeInv'
  BY <1>1, <1>4 DEF IInv, TypeInv, TypeOK, ConfOK, Orders, cmdVars
<1>6. EndedEmpty' /\ HeldApart'
  BY <1>1 DEF IInv, EndedEmpty, HeldApart, cmdVars
<1>7. HandlesUsable'
  <2> SUFFICES ASSUME NEW a \in Accounts, handles[a] # 0
               PROVE  /\ owner[handles[a]] = a /\ apc'[handles[a]] # "ended"
                      /\ \A k \in 1..Len(inbox'[handles[a]]) : inbox'[handles[a]][k] # "shutdown"
    BY <1>1 DEF HandlesUsable
  <2>1. handles[a] \in ActorIds
    BY DEF IInv, TypeInv, TypeOK, ActorIds
  <2>2. /\ owner[handles[a]] = a /\ apc[handles[a]] # "ended"
        /\ \A k \in 1..Len(inbox[handles[a]]) : inbox[handles[a]][k] # "shutdown"
    BY DEF IInv, HandlesUsable
  <2>3. CASE handles[a] # i
    BY <1>1, <2>1, <2>2, <2>3
  <2>4. CASE handles[a] = i
    <3>1. inbox[i] # <<>> /\ inbox'[i] = Tail(inbox[i]) /\ apc'[i] # "ended"
      BY <1>1, <2>4
    <3>2. \A k \in 1..Len(Tail(inbox[i])) : Tail(inbox[i])[k] # "shutdown"
      BY <1>3, <2>2, <2>4, <3>1
    <3> QED
      BY <2>2, <2>4, <3>1, <3>2
  <2> QED
    BY <2>3, <2>4
<1> QED
  BY <1>5, <1>6, <1>7 DEF IInv

LEMMA MailKeepsIInv == ASSUME IInv, NEW a \in Accounts, MailArrives(a) PROVE IInv'
<1>1. TypeInv'
  <2>1. mail' \in [Accounts -> BOOLEAN]
    BY DEF MailArrives, IInv, TypeInv, TypeOK
  <2>2. seen' \in [ActorIds -> BOOLEAN]
    BY ZenonT(30) DEF MailArrives
  <2> QED
    BY <2>1, <2>2 DEF MailArrives, IInv, TypeInv, TypeOK, ConfOK, cmdVars
<1> QED
  BY <1>1 DEF MailArrives, IInv, EndedEmpty, HeldApart, HandlesUsable, cmdVars

-----------------------------------------------------------------------------
(* The commands.                                                           *)

LEMMA MapKept ==
    ASSUME IInv, UNCHANGED <<handles, owner, apc, inbox, held>>
    PROVE  EndedEmpty' /\ HeldApart' /\ HandlesUsable'
  BY DEF IInv, EndedEmpty, HeldApart, HandlesUsable

LEMMA CallKeepsIInv == ASSUME IInv, NEW c \in Cmds, Call(c) PROVE IInv'
<1>1. PICK k \in Kinds, a \in Accounts, m \in Modes :
        /\ op' = [op EXCEPT ![c] = k]
        /\ acct' = [acct EXCEPT ![c] = a]
        /\ conf' = [conf EXCEPT ![c] = [NoConf EXCEPT ![a] = m]]
        /\ cpc' = [cpc EXCEPT ![c] = FirstStep(k)]
  BY DEF Call, CGoto
<1>2. FirstStep(k) \in CPCs
  BY DEF FirstStep, CPCs, AllKinds
<1>3. [NoConf EXCEPT ![a] = m] \in [Accounts -> Modes \cup Gone] /\ [NoConf EXCEPT ![a] = m][a] = m
  BY ModeFacts
<1>4. UNCHANGED <<table, mail, up, handles, mutex, actorVars, rest, held, joins, faults>> /\ cpc[c] = "idle"
      /\ calls' = calls + 1 /\ calls < MaxCalls /\ muddled' \in SUBSET Accounts
  BY DEF Call, Slot, IInv, TypeInv, TypeOK
<1>5. TypeOK'
  BY <1>1, <1>2, <1>3, <1>4 DEF IInv, TypeInv, TypeOK, actorVars
<1>6. ConfOK'
  <2> SUFFICES ASSUME NEW d \in Cmds
               PROVE  /\ \/ cpc'[d] \in {"write", "remove", "send", "spawn", "notify", "drain", "join"}
                         \/ cpc'[d] = "lock" /\ op'[d] # "start"
                         => conf'[d][acct'[d]] \in Modes
                      /\ rest'[d] # {} => op'[d] = "start" /\ cpc'[d] \in {"lock", "next", "remove", "send", "spawn"}
                      /\ \A b \in rest'[d] : conf'[d][b] \in Modes
    BY DEF ConfOK
  <2>1. CASE d = c
    <3>1. rest'[d] = {}
      BY <1>4, <2>1 DEF IInv, TypeInv, ConfOK
    <3>2. conf'[d][acct'[d]] = m
      BY <1>1, <1>3, <2>1 DEF IInv, TypeInv, TypeOK
    <3> QED
      BY <3>1, <3>2
  <2>2. CASE d # c
    BY <1>1, <1>4, <2>2 DEF IInv, TypeInv, TypeOK, ConfOK
  <2> QED
    BY <2>1, <2>2
<1> QED
  BY <1>4, <1>5, <1>6, MapKept DEF IInv, TypeInv, actorVars

LEMMA BootKeepsIInv == ASSUME IInv, NEW c \in Cmds, Boot(c), rest[c] = {} PROVE IInv'
<1>1. TypeOK'
  BY DEF Boot, IInv, TypeInv, TypeOK, CPCs, CGoto, actorVars
<1>2. ConfOK'
  BY DEF Boot, IInv, TypeInv, TypeOK, ConfOK, CGoto
<1> QED
  BY <1>1, <1>2, MapKept DEF Boot, IInv, TypeInv, actorVars

LEMMA ReadRowKeepsIInv == ASSUME IInv, NEW c \in Cmds, ReadRow(c) PROVE IInv'
<1> DEFINE l == CASE op[c] # "start" /\ acct[c] \notin Rows -> "idle"
                  [] op[c] = "correct" /\ acct[c] \in Rows -> "write"
                  [] OTHER -> "lock"
<1>1. /\ conf' = [conf EXCEPT ![c] = table]
      /\ rest' = [rest EXCEPT ![c] = IF op[c] = "start" THEN Rows ELSE {}]
      /\ cpc' = [cpc EXCEPT ![c] = l]
      /\ UNCHANGED <<table, mail, up, handles, mutex, actorVars, op, acct, held, joins, muddled, calls, faults>>
  BY DEF ReadRow, CGoto
<1>2. /\ l \in {"lock", "idle", "write"}
      /\ op[c] = "start" => l = "lock"
      /\ op[c] # "start" /\ l \in {"lock", "write"} => acct[c] \in Rows
  <2>1. CASE op[c] = "start"
    BY <2>1
  <2>2. CASE op[c] # "start" /\ acct[c] \notin Rows
    BY <2>2
  <2>3. CASE op[c] # "start" /\ acct[c] \in Rows /\ op[c] = "correct"
    BY <2>3
  <2>4. CASE op[c] # "start" /\ acct[c] \in Rows /\ op[c] # "correct"
    BY <2>4
  <2> QED
    BY <2>1, <2>2, <2>3, <2>4
<1> HIDE DEF l
<1>3. \A a \in Rows : a \in Accounts /\ table[a] \in Modes
  BY DEF IInv, TypeInv, TypeOK, Rows
<1>4. TypeOK'
  <2>1. conf' \in [Cmds -> [Accounts -> Modes \cup Gone]] /\ cpc' \in [Cmds -> CPCs]
    BY <1>1, <1>2 DEF IInv, TypeInv, TypeOK, CPCs
  <2>2. rest' \in [Cmds -> SUBSET Accounts]
    BY <1>1, <1>3 DEF IInv, TypeInv, TypeOK
  <2> QED
    BY <1>1, <2>1, <2>2 DEF IInv, TypeInv, TypeOK, actorVars
<1>5. ConfOK'
  <2> SUFFICES ASSUME NEW d \in Cmds
               PROVE  /\ \/ cpc'[d] \in {"write", "remove", "send", "spawn", "notify", "drain", "join"}
                         \/ cpc'[d] = "lock" /\ op'[d] # "start"
                         => conf'[d][acct'[d]] \in Modes
                      /\ rest'[d] # {} => op'[d] = "start" /\ cpc'[d] \in {"lock", "next", "remove", "send", "spawn"}
                      /\ \A b \in rest'[d] : conf'[d][b] \in Modes
    BY DEF ConfOK
  <2>1. CASE d = c
    <3>1. conf'[d] = table /\ cpc'[d] = l /\ op'[d] = op[c] /\ acct'[d] = acct[c]
          /\ rest'[d] = (IF op[c] = "start" THEN Rows ELSE {})
      BY <1>1, <2>1 DEF IInv, TypeInv, TypeOK
    <3> QED
      BY <1>2, <1>3, <3>1
  <2>2. CASE d # c
    BY <1>1, <2>2 DEF IInv, TypeInv, TypeOK, ConfOK
  <2> QED
    BY <2>1, <2>2
<1> QED
  BY <1>1, <1>4, <1>5, MapKept DEF IInv, TypeInv, actorVars

LEMMA WriteRowKeepsIInv == ASSUME IInv, NEW c \in Cmds, WriteRow(c) PROVE IInv'
<1>1. \E l \in {"idle", "read", "lock"} : cpc' = [cpc EXCEPT ![c] = l]
  BY DEF WriteRow, CGoto
<1>2. \/ table' = [table EXCEPT ![acct[c]] = "deleted"]
      \/ table' = [table EXCEPT ![acct[c]] = conf[c][acct[c]]]
      \/ table' = table
  BY DEF WriteRow
<1>3. UNCHANGED <<mail, up, handles, mutex, actorVars, op, acct, conf, rest, held, joins, muddled, calls, faults>> /\ cpc[c] = "write"
  BY DEF WriteRow
<1>4. conf[c][acct[c]] \in Modes /\ rest[c] = {}
  BY <1>3 DEF IInv, TypeInv, ConfOK
<1>5. TypeOK'
  <2>1. table' \in [Accounts -> Modes \cup Gone]
    BY <1>2, <1>4 DEF IInv, TypeInv, TypeOK, Gone
  <2>2. cpc' \in [Cmds -> CPCs]
    BY <1>1 DEF IInv, TypeInv, TypeOK, CPCs
  <2> QED
    BY <1>3, <2>1, <2>2 DEF IInv, TypeInv, TypeOK, actorVars
<1>6. ConfOK'
  BY <1>1, <1>3, <1>4 DEF IInv, TypeInv, TypeOK, ConfOK
<1> QED
  BY <1>3, <1>5, <1>6, MapKept DEF IInv, TypeInv, actorVars

LEMMA LockKeepsIInv == ASSUME IInv, NEW c \in Cmds, Lock(c) PROVE IInv'
<1> DEFINE l == CASE op[c] = "update" -> "notify"
                  [] op[c] = "start" -> "next"
                  [] op[c] = "quit" -> "drain"
                  [] OTHER -> "remove"
<1>1. /\ cpc[c] = "lock" /\ mutex' = c /\ cpc' = [cpc EXCEPT ![c] = l]
      /\ UNCHANGED <<table, mail, up, handles, actorVars, op, acct, conf, rest, held, joins, muddled, calls, faults>>
  BY DEF Lock, CGoto
<1>2. l \in {"notify", "next", "drain", "remove"} /\ (op[c] = "start" <=> l = "next")
  OBVIOUS
<1> HIDE DEF l
<1>3. TypeOK'
  BY <1>1, <1>2 DEF IInv, TypeInv, TypeOK, CPCs, actorVars
<1>4. ConfOK'
  BY <1>1, <1>2 DEF IInv, TypeInv, TypeOK, ConfOK
<1> QED
  BY <1>1, <1>3, <1>4, MapKept DEF IInv, TypeInv, actorVars

LEMMA NextAccountKeepsIInv == ASSUME IInv, NEW c \in Cmds, NextAccount(c) PROVE IInv'
<1>1. cpc[c] = "next" /\ UNCHANGED <<table, mail, up, handles, actorVars, op, conf, held, joins, muddled, calls, faults>>
  BY DEF NextAccount
<1>2. CASE rest[c] = {} /\ mutex' = NoCmd /\ cpc' = [cpc EXCEPT ![c] = "idle"] /\ UNCHANGED <<acct, rest>>
  <2>1. TypeOK'
    BY <1>1, <1>2 DEF IInv, TypeInv, TypeOK, CPCs, actorVars
  <2>2. ConfOK'
    BY <1>1, <1>2 DEF IInv, TypeInv, TypeOK, ConfOK
  <2> QED
    BY <1>1, <2>1, <2>2, MapKept DEF IInv, TypeInv, actorVars
<1>3. ASSUME NEW a \in rest[c], acct' = [acct EXCEPT ![c] = a], rest' = [rest EXCEPT ![c] = rest[c] \ {a}],
             cpc' = [cpc EXCEPT ![c] = "remove"], mutex' = mutex
      PROVE  IInv'
  <2>1. a \in Accounts /\ conf[c][a] \in Modes /\ op[c] = "start"
    BY DEF IInv, TypeInv, TypeOK, ConfOK
  <2>2. TypeOK'
    BY <1>1, <1>3, <2>1 DEF IInv, TypeInv, TypeOK, CPCs, actorVars
  <2>3. ConfOK'
    BY <1>1, <1>3, <2>1 DEF IInv, TypeInv, TypeOK, ConfOK
  <2> QED
    BY <1>1, <2>2, <2>3, MapKept DEF IInv, TypeInv, actorVars
<1> QED
  BY <1>2, <1>3 DEF NextAccount, CGoto

\* A command that has told whoever it had to tell.
LEMMA ToldGoesOn ==
    ASSUME TypeOK, NEW c \in Cmds, Told(c)
    PROVE  /\ \E l \in {"write", "join", "spawn"} :
                /\ cpc' = [cpc EXCEPT ![c] = l]
                /\ (op[c] \notin {"delete", "quit"} <=> l = "spawn") /\ (op[c] = "delete" <=> l = "write")
           /\ mutex' \in Cmds \cup {NoCmd}
<1> DEFINE l == CASE op[c] = "delete" -> "write"
                  [] op[c] = "quit" -> "join"
                  [] OTHER -> "spawn"
<1>1. /\ l \in {"write", "join", "spawn"}
      /\ (op[c] \notin {"delete", "quit"} <=> l = "spawn") /\ (op[c] = "delete" <=> l = "write")
  OBVIOUS
<1>2. cpc' = [cpc EXCEPT ![c] = l] /\ mutex' = IF op[c] = "delete" THEN NoCmd ELSE mutex
  BY DEF Told, CGoto
<1> HIDE DEF l
<1> QED
  BY <1>1, <1>2 DEF TypeOK

LEMMA HandlesDiffer ==
    ASSUME IInv
    PROVE  /\ \A a \in Accounts : handles[a] \in 0..MaxActors /\ (handles[a] # 0 => handles[a] \in ActorIds)
           /\ \A a, b \in Accounts : handles[a] # 0 /\ handles[a] = handles[b] => a = b
           /\ 0 \notin ActorIds /\ \A c \in Cmds : held[c] \subseteq ActorIds
  BY DEF IInv, TypeInv, TypeOK, HandlesUsable, ActorIds

LEMMA RemoveEntryKeepsIInv == ASSUME IInv, NEW c \in Cmds, RemoveEntry(c) PROVE IInv'
<1> DEFINE i == handles[acct[c]]
<1>1. /\ cpc[c] = "remove" /\ held' = [held EXCEPT ![c] = {i} \ {0}]
      /\ handles' = [handles EXCEPT ![acct[c]] = 0]
      /\ UNCHANGED <<table, mail, up, actorVars, op, acct, conf, rest, joins, muddled, calls, faults>>
  BY DEF RemoveEntry
<1>2. /\ \E l \in {"write", "join", "spawn", "send"} :
            cpc' = [cpc EXCEPT ![c] = l] /\ (op[c] = "start" => l \in {"spawn", "send"})
      /\ mutex' \in Cmds \cup {NoCmd}
  <2>1. CASE i = 0
    <3>1. Told(c)
      BY <2>1 DEF RemoveEntry
    <3> QED
      BY <3>1, ToldGoesOn DEF IInv, TypeInv
  <2>2. CASE i # 0
    BY <2>2 DEF RemoveEntry, CGoto, IInv, TypeInv, TypeOK
  <2> QED
    BY <2>1, <2>2
<1>3. acct[c] \in Accounts /\ i \in 0..MaxActors /\ (i # 0 => i \in ActorIds) /\ {i} \ {0} \subseteq ActorIds
  BY HandlesDiffer DEF IInv, TypeInv, TypeOK
<1>4. \A a \in Accounts : handles'[a] = (IF a = acct[c] THEN 0 ELSE handles[a])
  BY <1>1 DEF IInv, TypeInv, TypeOK
<1>5. TypeOK'
  <2>1. held' \in [Cmds -> SUBSET ActorIds] /\ handles' \in [Accounts -> 0..MaxActors] /\ cpc' \in [Cmds -> CPCs]
    BY <1>1, <1>2, <1>3 DEF IInv, TypeInv, TypeOK, CPCs
  <2> QED
    BY <1>1, <1>2, <2>1 DEF IInv, TypeInv, TypeOK, actorVars
<1>6. ConfOK'
  BY <1>1, <1>2 DEF IInv, TypeInv, TypeOK, ConfOK
<1>7. EndedEmpty'
  BY <1>1 DEF IInv, EndedEmpty, actorVars
<1>8. HeldApart'
  <2> SUFFICES ASSUME NEW d \in Cmds, NEW a \in Accounts PROVE handles'[a] \notin held'[d]
    BY DEF HeldApart
  <2>1. CASE d = c
    <3>1. held'[d] = {i} \ {0}
      BY <1>1, <2>1 DEF IInv, TypeInv, TypeOK
    <3> QED
      BY <1>3, <1>4, <3>1, HandlesDiffer
  <2>2. CASE d # c
    <3>1. held'[d] = held[d]
      BY <1>1, <2>2 DEF IInv, TypeInv, TypeOK
    <3> QED
      BY <1>4, <3>1, HandlesDiffer DEF IInv, HeldApart
  <2> QED
    BY <2>1, <2>2
<1>9. HandlesUsable'
  <2>1. owner' = owner /\ apc' = apc /\ inbox' = inbox
    BY <1>1 DEF actorVars
  <2>2. \A a \in Accounts : handles'[a] # 0 => handles'[a] = handles[a]
    BY <1>4
  <2> QED
    BY <2>1, <2>2 DEF IInv, HandlesUsable
<1> QED
  BY <1>5, <1>6, <1>7, <1>8, <1>9 DEF IInv, TypeInv

LEMMA DrainKeepsIInv == ASSUME IInv, NEW c \in Cmds, Drain(c) PROVE IInv'
<1> DEFINE H == {handles[a] : a \in Accounts} \ {0}
<1>1. /\ cpc[c] = "drain" /\ held' = [held EXCEPT ![c] = H]
      /\ handles' = [a \in Accounts |-> 0] /\ mutex' = NoCmd
      /\ \E l \in {"join", "send"} : cpc' = [cpc EXCEPT ![c] = l]
      /\ UNCHANGED <<table, mail, up, actorVars, op, acct, conf, rest, joins, muddled, calls, faults>>
  BY DEF Drain, CGoto
<1>2. H \subseteq ActorIds
  BY HandlesDiffer
<1> HIDE DEF H
<1>3. TypeOK'
  <2>1. held' \in [Cmds -> SUBSET ActorIds] /\ cpc' \in [Cmds -> CPCs]
    BY <1>1, <1>2 DEF IInv, TypeInv, TypeOK, CPCs
  <2>2. handles' \in [Accounts -> 0..MaxActors]
    BY <1>1, EmptyChannel
  <2> QED
    BY <1>1, <2>1, <2>2 DEF IInv, TypeInv, TypeOK, actorVars
<1>4. ConfOK'
  BY <1>1 DEF IInv, TypeInv, TypeOK, ConfOK
<1>5. HeldApart'
  <2>1. held' \in [Cmds -> SUBSET ActorIds]
    BY <1>3 DEF TypeOK
  <2> QED
    BY <1>1, <2>1, HandlesDiffer DEF HeldApart
<1> QED
  BY <1>1, <1>3, <1>4, <1>5 DEF IInv, TypeInv, EndedEmpty, HandlesUsable, actorVars

LEMMA SendShutdownKeepsIInv == ASSUME IInv, NEW c \in Cmds, SendShutdown(c) PROVE IInv'
<1>1. PICK i \in held[c] :
        /\ SendTo(i, "shutdown")
        /\ held' = [held EXCEPT ![c] = held[c] \ {i}]
        /\ joins' = IF op[c] = "quit" THEN [joins EXCEPT ![c] = joins[c] \cup {i}] ELSE joins
  BY DEF SendShutdown
<1>2. /\ cpc[c] = "send"
      /\ UNCHANGED <<table, mail, up, handles, owner, amode, apc, home, seen, op, acct, conf, rest, muddled, calls, faults>>
      /\ IF held'[c] = {} THEN Told(c) ELSE UNCHANGED <<cpc, mutex>>
  BY DEF SendShutdown
<1>3. i \in ActorIds /\ \A a \in Accounts : handles[a] # i
  BY HandlesDiffer DEF IInv, HeldApart
<1>4. /\ inbox' \in [ActorIds -> Seq(Orders)] /\ \A j \in ActorIds : Len(inbox'[j]) <= Cap
      /\ \A j \in ActorIds \ {i} : inbox'[j] = inbox[j]
      /\ apc[i] = "ended" => inbox'[i] = inbox[i]
  BY <1>1, <1>3, SendEffect DEF Orders, IInv, TypeInv
<1>5. /\ \E l \in {"write", "join", "spawn", "send"} :
            cpc' = [cpc EXCEPT ![c] = l] /\ (op[c] = "start" => l \in {"spawn", "send"})
      /\ mutex' \in Cmds \cup {NoCmd}
  <2>1. CASE Told(c)
    BY <2>1, ToldGoesOn DEF IInv, TypeInv
  <2>2. CASE UNCHANGED <<cpc, mutex>>
    <3>1. cpc' = [cpc EXCEPT ![c] = "send"] /\ mutex' \in Cmds \cup {NoCmd}
      BY <1>2, <2>2 DEF IInv, TypeInv, TypeOK
    <3> QED
      BY <3>1
  <2> QED
    BY <1>2, <2>1, <2>2
<1>6. TypeOK'
  <2>1. cpc' \in [Cmds -> CPCs]
    BY <1>5 DEF IInv, TypeInv, TypeOK, CPCs
  <2>2. held' \in [Cmds -> SUBSET ActorIds] /\ joins' \in [Cmds -> SUBSET ActorIds]
    BY <1>1, <1>3 DEF IInv, TypeInv, TypeOK
  <2> QED
    BY <1>2, <1>4, <1>5, <2>1, <2>2 DEF IInv, TypeInv, TypeOK, Orders
<1>7. ConfOK'
  BY <1>2, <1>5 DEF IInv, TypeInv, TypeOK, ConfOK
<1>8. EndedEmpty'
  BY <1>2, <1>3, <1>4 DEF IInv, EndedEmpty
<1>9. HeldApart'
  <2>1. \A d \in Cmds : held'[d] \subseteq held[d]
    BY <1>1 DEF IInv, TypeInv, TypeOK
  <2> QED
    BY <1>2, <2>1 DEF IInv, HeldApart
<1>10. HandlesUsable'
  <2>1. \A a \in Accounts : handles[a] # 0 => inbox'[handles[a]] = inbox[handles[a]]
    BY <1>3, <1>4, HandlesDiffer
  <2> QED
    BY <1>2, <2>1 DEF IInv, HandlesUsable
<1> QED
  BY <1>6, <1>7, <1>8, <1>9, <1>10 DEF IInv, TypeInv

LEMMA NotifyKeepsIInv == ASSUME IInv, NEW c \in Cmds, NotifyUpdated(c) PROVE IInv'
<1> DEFINE i == handles[acct[c]]
           m == conf[c][acct[c]]
<1>1. /\ cpc[c] = "notify" /\ mutex' = NoCmd /\ cpc' = [cpc EXCEPT ![c] = "idle"]
      /\ IF i = 0 THEN UNCHANGED inbox ELSE SendTo(i, m)
      /\ UNCHANGED <<table, mail, up, handles, owner, amode, apc, home, seen, op, acct, conf, rest, held, joins, muddled, calls, faults>>
  BY DEF NotifyUpdated, CGoto
<1>2. acct[c] \in Accounts /\ m \in Modes /\ rest[c] = {} /\ (i # 0 => i \in ActorIds)
  BY <1>1, HandlesDiffer DEF IInv, TypeInv, TypeOK, ConfOK
<1>3. TypeOK /\ m \in Orders
  BY <1>2 DEF IInv, TypeInv, Orders
<1>4. /\ inbox' \in [ActorIds -> Seq(Orders)] /\ \A j \in ActorIds : Len(inbox'[j]) <= Cap
      /\ \A j \in ActorIds : apc[j] = "ended" => inbox'[j] = inbox[j]
  <2>1. CASE i = 0
    BY <1>1, <1>3, <2>1 DEF TypeOK, Orders
  <2>2. CASE i # 0
    <3>1. SendTo(i, m) /\ i \in ActorIds
      BY <1>1, <1>2, <2>2
    <3> HIDE DEF i, m
    <3> QED
      BY <1>3, <3>1, SendEffect
  <2> QED
    BY <2>1, <2>2
<1>5. \A j \in ActorIds : \/ inbox'[j] = inbox[j]
                         \/ inbox'[j] = Append(inbox[j], m)
  <2>1. CASE i = 0
    BY <1>1, <2>1
  <2>2. CASE i # 0
    <3>1. SendTo(i, m) /\ i \in ActorIds
      BY <1>1, <1>2, <2>2
    <3> HIDE DEF i, m
    <3> QED
      BY <1>3, <3>1, SendEffect
  <2> QED
    BY <2>1, <2>2
<1>6. TypeOK'
  BY <1>1, <1>4 DEF IInv, TypeInv, TypeOK, Orders, CPCs
<1>7. ConfOK'
  BY <1>1, <1>2 DEF IInv, TypeInv, TypeOK, ConfOK
<1>8. EndedEmpty' /\ HeldApart'
  BY <1>1, <1>4 DEF IInv, EndedEmpty, HeldApart
<1>9. HandlesUsable'
  <2> SUFFICES ASSUME NEW a \in Accounts, handles[a] # 0
               PROVE  /\ owner[handles[a]] = a /\ apc[handles[a]] # "ended"
                      /\ \A k \in 1..Len(inbox'[handles[a]]) : inbox'[handles[a]][k] # "shutdown"
    BY <1>1 DEF HandlesUsable
  <2>1. handles[a] \in ActorIds
    BY HandlesDiffer
  <2>2. /\ owner[handles[a]] = a /\ apc[handles[a]] # "ended"
        /\ \A k \in 1..Len(inbox[handles[a]]) : inbox[handles[a]][k] # "shutdown"
    BY DEF IInv, HandlesUsable
  <2>3. inbox[handles[a]] \in Seq(Orders)
    BY <1>3, <2>1 DEF TypeOK, Orders
  <2>4. CASE inbox'[handles[a]] = Append(inbox[handles[a]], m)
    <3> DEFINE s == inbox[handles[a]]
    <3>1. /\ Len(s) \in Nat /\ Len(Append(s, m)) = Len(s) + 1 /\ Append(s, m)[Len(s) + 1] = m
          /\ \A k \in 1..Len(s) : Append(s, m)[k] = s[k]
      BY <1>3, <2>3, ChannelAppend
    <3>2. m # "shutdown"
      BY <1>2, ModeFacts
    <3>3. \A k \in 1..Len(s) : s[k] # "shutdown"
      BY <2>2
    <3> HIDE DEF m, s
    <3>4. \A k \in 1..Len(Append(s, m)) : Append(s, m)[k] # "shutdown"
      BY <3>1, <3>2, <3>3
    <3> QED
      BY <2>2, <2>4, <3>4 DEF s
  <2> QED
    BY <1>5, <2>1, <2>2, <2>4
<1> QED
  BY <1>6, <1>7, <1>8, <1>9 DEF IInv, TypeInv

LEMMA SpawnKeepsIInv == ASSUME IInv, NEW c \in Cmds, Spawn(c) PROVE IInv'
<1> DEFINE m == conf[c][acct[c]]
<1>1. PICK i \in ActorIds :
        /\ Free(i)
        /\ handles' = [handles EXCEPT ![acct[c]] = i]
        /\ owner' = [owner EXCEPT ![i] = acct[c]]
        /\ amode' = [amode EXCEPT ![i] = m]
        /\ apc' = [apc EXCEPT ![i] = Entry(m)]
  BY DEF Spawn, AGoto
<1>2. /\ cpc[c] = "spawn"
      /\ UNCHANGED <<table, mail, up, home, seen, inbox, op, acct, conf, rest, held, joins, muddled, calls, faults>>
      /\ \E l \in {"next", "idle"} : cpc' = [cpc EXCEPT ![c] = l] /\ (op[c] = "start" => l = "next")
      /\ mutex' \in Cmds \cup {NoCmd}
  <2>1. /\ cpc[c] = "spawn"
        /\ UNCHANGED <<table, mail, up, home, seen, inbox, op, acct, conf, rest, held, joins, muddled, calls, faults>>
        /\ IF op[c] = "start" THEN CGoto(c, "next") /\ UNCHANGED mutex ELSE CGoto(c, "idle") /\ mutex' = NoCmd
    BY DEF Spawn
  <2>2. mutex \in Cmds \cup {NoCmd}
    BY DEF IInv, TypeInv, TypeOK
  <2> QED
    BY <2>1, <2>2 DEF CGoto
<1>3. acct[c] \in Accounts /\ m \in Modes /\ Entry(m) \in APCs \ {"ended"}
  BY <1>2, ModeFacts DEF IInv, TypeInv, TypeOK, ConfOK, APCs
<1>4. /\ apc[i] = "ended" /\ inbox[i] = <<>>
      /\ \A a \in Accounts : handles[a] # i
      /\ \A d \in Cmds : i \notin held[d]
  BY <1>1 DEF Free, Closed, IInv, EndedEmpty
<1> HIDE DEF m
<1>5. TypeOK'
  <2>1. /\ handles' \in [Accounts -> 0..MaxActors] /\ owner' \in [ActorIds -> Accounts]
        /\ amode' \in [ActorIds -> Modes] /\ apc' \in [ActorIds -> APCs]
    BY <1>1, <1>3 DEF IInv, TypeInv, TypeOK, ActorIds
  <2>2. cpc' \in [Cmds -> CPCs]
    BY <1>2 DEF IInv, TypeInv, TypeOK, CPCs
  <2> QED
    BY <1>2, <2>1, <2>2 DEF IInv, TypeInv, TypeOK
<1>6. ConfOK'
  BY <1>2 DEF IInv, TypeInv, TypeOK, ConfOK
<1>7. EndedEmpty'
  BY <1>1, <1>2, <1>4 DEF IInv, TypeInv, TypeOK, EndedEmpty
<1>8. HeldApart'
  BY <1>1, <1>2, <1>4 DEF IInv, TypeInv, TypeOK, HeldApart
<1>9. HandlesUsable'
  <2> SUFFICES ASSUME NEW a \in Accounts, handles'[a] # 0
               PROVE  /\ owner'[handles'[a]] = a /\ apc'[handles'[a]] # "ended"
                      /\ \A k \in 1..Len(inbox'[handles'[a]]) : inbox'[handles'[a]][k] # "shutdown"
    BY DEF HandlesUsable
  <2>1. CASE a = acct[c]
    <3>1. handles'[a] = i /\ owner'[i] = a /\ apc'[i] # "ended" /\ inbox'[i] = <<>>
      BY <1>1, <1>2, <1>3, <1>4, <2>1 DEF IInv, TypeInv, TypeOK
    <3> QED
      BY <3>1, EmptyChannel
  <2>2. CASE a # acct[c]
    <3>1. handles'[a] = handles[a] /\ handles[a] # i
      BY <1>1, <1>4, <2>2 DEF IInv, TypeInv, TypeOK
    <3>2. owner'[handles[a]] = owner[handles[a]] /\ apc'[handles[a]] = apc[handles[a]]
      BY <1>1, <3>1, HandlesDiffer DEF IInv, TypeInv, TypeOK
    <3> QED
      BY <1>2, <3>1, <3>2 DEF IInv, HandlesUsable
  <2> QED
    BY <2>1, <2>2
<1> QED
  BY <1>5, <1>6, <1>7, <1>8, <1>9 DEF IInv, TypeInv

LEMMA EndKeepsIInv == ASSUME IInv, Crash \/ \E c \in Cmds : Join(c) \/ QuitTimeout(c) PROVE IInv'
<1>1. Die /\ faults' \in 0..MaxFaults
  BY DEF Crash, Join, QuitTimeout, Fault, IInv, TypeInv, TypeOK
<1> QED
  BY <1>1, DieIInv DEF IInv

LEMMA DownKept == ASSUME IInv, Down, [Next]_vars PROVE Down'
<1>1. CASE UNCHANGED vars
  BY <1>1 DEF Down, vars, cmdVars
<1>2. ASSUME NEW i \in ActorIds, Network(i) \/ Local(i) \/ IdlePush(i) \/ IdleBroken(i) \/ RecvDoneFails(i)
      PROVE  Down'
  <2>1. UNCHANGED <<up, handles, cpc>>
    BY <1>2 DEF Network, Local, Open, FetchSearch, FetchDone, FetchFails, IdleTimeout, PollTick, BackoffOver,
       IdlePush, IdleBroken, Recv, RecvDoneFails, cmdVars
  <2> QED
    BY <2>1 DEF Down
<1>3. ASSUME NEW c \in Cmds, Call(c) \/ Command(c) \/ QuitTimeout(c) \/ Boot(c)
      PROVE  Down'
  <2>1. Die => Down'
    BY DEF Die, Down
  <2>2. CASE Call(c)
    BY <2>2 DEF Call, Down
  <2>3. CASE Join(c) \/ QuitTimeout(c)
    BY <2>1, <2>3 DEF Join, QuitTimeout
  <2>4. CASE Boot(c)
    BY <2>4 DEF Boot, Down
  <2>5. CASE Command(c) /\ ~Join(c)
    <3>1. cpc[c] # "idle" /\ up' = up
      BY <2>5 DEF Command, ReadRow, WriteRow, Lock, NextAccount, RemoveEntry, Drain, SendShutdown, NotifyUpdated, Spawn
    <3> QED
      BY <3>1 DEF Down
  <2> QED
    BY <1>3, <2>2, <2>3, <2>4, <2>5
<1>4. ASSUME NEW a \in Accounts, MailArrives(a) PROVE Down'
  BY <1>4 DEF MailArrives, Down, cmdVars
<1>5. CASE Crash
  BY <1>5 DEF Crash, Die, Down
<1> QED
  BY <1>1, <1>2, <1>3, <1>4, <1>5 DEF Next

LEMMA NextKeepsIInv == ASSUME IInv, Down, [Next]_vars PROVE IInv'
<1>1. CASE UNCHANGED vars
  <2>1. TypeInv'
    BY <1>1 DEF IInv, TypeInv, TypeOK, ConfOK, vars, actorVars, cmdVars
  <2> QED
    BY <1>1, <2>1, MapKept DEF IInv, vars, actorVars, cmdVars
<1>2. ASSUME NEW i \in ActorIds, Network(i) \/ Local(i) \/ IdlePush(i) \/ IdleBroken(i) \/ RecvDoneFails(i)
      PROVE  IInv'
  BY <1>2, ActorKeepsIInv, RecvKeepsIInv DEF Local
<1>3. ASSUME NEW c \in Cmds, Call(c) \/ Command(c) \/ QuitTimeout(c) \/ Boot(c)
      PROVE  IInv'
  <2>1. CASE Boot(c)
    <3>1. rest[c] = {}
      BY <2>1 DEF Boot, Down, IInv, TypeInv, ConfOK
    <3> QED
      BY <2>1, <3>1, BootKeepsIInv
  <2> QED
    BY <1>3, <2>1, CallKeepsIInv, ReadRowKeepsIInv, WriteRowKeepsIInv, LockKeepsIInv, NextAccountKeepsIInv,
       RemoveEntryKeepsIInv, DrainKeepsIInv, SendShutdownKeepsIInv, NotifyKeepsIInv, SpawnKeepsIInv, EndKeepsIInv
       DEF Command
<1>4. ASSUME NEW a \in Accounts, MailArrives(a) PROVE IInv'
  BY <1>4, MailKeepsIInv
<1>5. CASE Crash
  BY <1>5, EndKeepsIInv
<1> QED
  BY <1>1, <1>2, <1>3, <1>4, <1>5 DEF Next

\* The inductive invariant of actors, channels, map and commands.
THEOREM AccountActorIInvAlways == Spec => [](IInv /\ Down)
<1>1. Init => IInv /\ Down
  BY InitIInv DEF Init, Down
<1>2. IInv /\ Down /\ [Next]_vars => (IInv /\ Down)'
  BY NextKeepsIInv, DownKept
<1> QED
  BY <1>1, <1>2, PTL DEF Spec

\* The map never holds an actor that ended or was told to end, or one of another
\* account, for any number of accounts, actors and commands at a time
\* (actor.rs:691-709; the warning of notify_updated is never due).
THEOREM HandlesStayUsable == Spec => []HandlesUsable
<1>1. IInv => HandlesUsable
  BY DEF IInv
<1> QED
  BY <1>1, AccountActorIInvAlways, PTL

-----------------------------------------------------------------------------
(* The actors follow the table.                                            *)

LEMMA PathIs ==
    /\ Path("start") = {"idle", "read", "lock", "next", "remove", "send", "spawn"}
    /\ Path("add") = {"idle", "write", "lock", "remove", "send", "spawn"}
    /\ Path("import") = {"idle", "write", "read", "lock", "remove", "send", "spawn"}
    /\ Path("update") = {"idle", "write", "lock", "notify"}
    /\ Path("correct") = {"idle", "read", "write"}
    /\ Path("delete") = {"idle", "lock", "remove", "send", "write"}
    /\ Path("quit") = {"lock", "drain", "send", "join"}
  BY DEF Path

LEMMA PathFacts ==
    ASSUME FollowInv, TypeOK, NEW c \in Cmds
    PROVE  /\ op[c] \in AllKinds \cup {"start"}
           /\ op[c] = "start" => cpc[c] \in {"idle", "read", "lock", "next", "remove", "send", "spawn"}
           /\ op[c] = "add" => cpc[c] \in {"idle", "write", "lock", "remove", "send", "spawn"}
           /\ op[c] = "import" => cpc[c] \in {"idle", "write", "read", "lock", "remove", "send", "spawn"}
           /\ op[c] = "update" => cpc[c] \in {"idle", "write", "lock", "notify"}
           /\ op[c] = "correct" => cpc[c] \in {"idle", "read", "write"}
           /\ op[c] = "delete" => cpc[c] \in {"idle", "lock", "remove", "send", "write"}
           /\ op[c] = "quit" => cpc[c] \in {"lock", "drain", "send", "join"}
<1>1. cpc[c] \in Path(op[c]) /\ op[c] \in AllKinds \cup {"start"}
  BY DEF FollowInv, PathOK, TypeOK
<1> QED
  BY <1>1, PathIs

LEMMA FollowsKept ==
    ASSUME NEW a \in Accounts, table'[a] = table[a], handles'[a] = handles[a],
           handles[a] # 0 => Eventual(handles[a])' = Eventual(handles[a]),
           Follows(a)
    PROVE  Follows(a)'
  BY DEF Follows, Rows

\* What account a keeps of how it stands under d, in a step that is not d's.
LEMMA StandsKept ==
    ASSUME NEW a \in Accounts, table'[a] = table[a], handles'[a] = handles[a],
           handles[a] # 0 => Eventual(handles[a])' = Eventual(handles[a]),
           NEW d \in Cmds, op'[d] = op[d], cpc'[d] = cpc[d], acct'[d] = acct[d], conf'[d] = conf[d],
           rest'[d] = rest[d], Stands(d, a)
    PROVE  Stands(d, a)'
<1>1. Follows(a) => Follows(a)'
  BY FollowsKept
<1>2. Unspawned(d)' = Unspawned(d) /\ Untold(d)' = Untold(d) /\ Ending(d)' = Ending(d) /\ Reading(d)' = Reading(d)
  BY DEF Unspawned, Untold, Ending, Reading
<1>3. (a \in Rows)' = (a \in Rows)
  BY DEF Rows
<1> QED
  BY <1>1, <1>2, <1>3 DEF Stands

\* What there is to show of a step of c: what it does to the accounts it
\* concerns, and that it leaves the others alone.
LEMMA StepFollows ==
    ASSUME IInv, FollowInv, Down', NEW c \in Cmds, cpc[c] # "idle",
           up' = up, muddled' = muddled, op' = op,
           op[c] # "start" => acct'[c] = acct[c],
           \A d \in Cmds \ {c} : cpc'[d] = cpc[d] /\ acct'[d] = acct[d] /\ conf'[d] = conf[d] /\ rest'[d] = rest[d],
           cpc'[c] \in Path(op[c]),
           op[c] = "start" /\ cpc'[c] \in {"remove", "send", "spawn"} => acct'[c] \notin rest'[c],
           op[c] \notin {"start", "quit"} =>
               \A a \in Accounts \ {acct[c]} :
                   /\ table'[a] = table[a] /\ handles'[a] = handles[a]
                   /\ handles[a] # 0 => Eventual(handles[a])' = Eventual(handles[a]),
           \A a \in Accounts : Concerns(c, a) /\ Stands(c, a) =>
               IF cpc'[c] = "idle" THEN Follows(a)' ELSE Stands(c, a)'
    PROVE  FollowInv'
<1>1. ASSUME NEW d \in Cmds PROVE PathOK(d)'
  BY DEF FollowInv, PathOK
<1>2. ASSUME NEW a \in Accounts \ muddled PROVE Orderly(a)'
  <2>0. Orderly(a)
    BY <1>2 DEF FollowInv
  <2>1. \A d \in Cmds : Concerns(d, a)' => Concerns(d, a)
    BY DEF Concerns
  <2>2. \A d \in Cmds \ {c} : Concerns(d, a)' = Concerns(d, a)
    BY DEF Concerns
  <2>3. ASSUME up', ~Quitting'
        PROVE  /\ (\A d \in Cmds : ~Concerns(d, a)') => Follows(a)'
               /\ \A d \in Cmds : Concerns(d, a)' => Stands(d, a)'
    <3>1. op[c] # "quit"
      BY <2>3, PathIs DEF Quitting
    <3>2. up /\ ~Quitting
      BY <2>3, <3>1 DEF Quitting
    <3>3. CASE Concerns(c, a)
      <4>1. Stands(c, a) /\ \A d \in Cmds \ {c} : ~Concerns(d, a)
        BY <2>0, <3>2, <3>3 DEF Orderly
      <4>2. IF cpc'[c] = "idle" THEN Follows(a)' ELSE Stands(c, a)'
        BY <3>3, <4>1
      <4>3. cpc'[c] # "idle" => Concerns(c, a)'
        BY <3>3 DEF Concerns
      <4>4. cpc'[c] = "idle" => ~Concerns(c, a)'
        BY DEF Concerns
      <4> QED
        BY <2>1, <4>1, <4>2, <4>3, <4>4
    <3>4. CASE ~Concerns(c, a)
      <4>1. op[c] \notin {"start", "quit"} /\ acct[c] # a
        BY <3>1, <3>4 DEF Concerns
      <4>2. /\ table'[a] = table[a] /\ handles'[a] = handles[a]
            /\ handles[a] # 0 => Eventual(handles[a])' = Eventual(handles[a])
        BY <4>1
      <4>3. Follows(a) => Follows(a)'
        BY <4>2, FollowsKept
      <4>4. ~Concerns(c, a)'
        BY <2>1, <3>4
      <4>5. ASSUME NEW d \in Cmds, Concerns(d, a)' PROVE Stands(d, a)'
        <5>1. d # c /\ Concerns(d, a)
          BY <2>1, <4>4, <4>5
        <5>2. Stands(d, a)
          BY <2>0, <3>2, <5>1 DEF Orderly
        <5> QED
          BY <4>2, <5>1, <5>2, StandsKept
      <4>6. (\A d \in Cmds : ~Concerns(d, a)') => Follows(a)
        BY <2>0, <2>2, <3>2, <3>4 DEF Orderly
      <4> QED
        BY <4>3, <4>5, <4>6
    <3> QED
      BY <3>3, <3>4
  <2> QED
    BY <2>0, <2>1, <2>3 DEF Orderly
<1> QED
  BY <1>1, <1>2 DEF FollowInv

\* The steps of the actors leave what they will work with, except where a DONE
\* that fails loses the last order.
LEMMA ActorsKeepFollow ==
    ASSUME IInv, FollowInv, Down', UNCHANGED <<table, up, handles, op, cpc, acct, conf, rest>>,
           muddled \subseteq muddled',
           \A a \in Accounts \ muddled' : handles[a] # 0 => Eventual(handles[a])' = Eventual(handles[a])
    PROVE  FollowInv'
<1>1. ASSUME NEW a \in Accounts \ muddled' PROVE Orderly(a)'
  <2>1. Orderly(a)
    BY <1>1 DEF FollowInv
  <2>2. Follows(a) => Follows(a)'
    BY <1>1, FollowsKept
  <2>3. \A d \in Cmds : Stands(d, a) => Stands(d, a)'
    BY <1>1, StandsKept
  <2>4. Quitting' = Quitting /\ \A d \in Cmds : Concerns(d, a)' = Concerns(d, a)
    BY DEF Quitting, Concerns
  <2> QED
    BY <2>1, <2>2, <2>3, <2>4 DEF Orderly
<1> QED
  BY <1>1 DEF FollowInv, PathOK

LEMMA RecvKeepsEventual ==
    ASSUME IInv, NEW i \in ActorIds, Recv(i), ~RecvDoneFails(i), NEW a \in Accounts, handles[a] # 0
    PROVE  Eventual(handles[a])' = Eventual(handles[a])
<1>1. /\ handles' = handles
      /\ \A j \in ActorIds \ {i} : inbox'[j] = inbox[j] /\ amode'[j] = amode[j]
      /\ \/ inbox[i] # <<>> /\ inbox'[i] = Tail(inbox[i]) /\ amode'[i] = Head(inbox[i])
         \/ \A b \in Accounts : handles[b] # i
  BY RecvEffect
<1>2. handles[a] \in ActorIds
  BY HandlesDiffer
<1>3. CASE handles[a] # i
  BY <1>1, <1>2, <1>3 DEF Eventual
<1>4. CASE handles[a] = i
  <2>1. inbox[i] # <<>> /\ inbox'[i] = Tail(inbox[i]) /\ amode'[i] = Head(inbox[i])
    BY <1>1, <1>4
  <2>2. inbox[i] \in Seq(Orders)
    BY DEF IInv, TypeInv, TypeOK, Orders
  <2>3. IF Tail(inbox[i]) = <<>> THEN inbox[i][Len(inbox[i])] = Head(inbox[i])
        ELSE Tail(inbox[i])[Len(Tail(inbox[i]))] = inbox[i][Len(inbox[i])]
    BY <2>1, <2>2, ChannelLast
  <2> QED
    BY <1>1, <1>4, <2>1, <2>3 DEF Eventual
<1> QED
  BY <1>3, <1>4

\* A DONE that fails changes what an actor will work with only if the order it
\* loses is the last one.
LEMMA DoneKeepsEventual ==
    ASSUME IInv, NEW i \in ActorIds, RecvDoneFails(i), NEW a \in Accounts \ muddled', handles[a] # 0
    PROVE  Eventual(handles[a])' = Eventual(handles[a])
<1>1. /\ handles' = handles /\ amode' = amode /\ inbox[i] # <<>>
      /\ inbox' = [inbox EXCEPT ![i] = Tail(inbox[i])]
      /\ muddled' = muddled \cup {b \in Accounts : handles[b] = i /\ Len(inbox[i]) = 1}
  BY DEF RecvDoneFails
<1>2. handles[a] \in ActorIds /\ inbox \in [ActorIds -> Seq(Orders)]
  BY HandlesDiffer DEF IInv, TypeInv, TypeOK, Orders
<1>3. CASE handles[a] # i
  BY <1>1, <1>2, <1>3 DEF Eventual
<1>4. CASE handles[a] = i
  <2>1. Len(inbox[i]) # 1 /\ inbox'[i] = Tail(inbox[i])
    BY <1>1, <1>2, <1>4
  <2>2. Len(inbox[i]) \in Nat \ {0} /\ Len(Tail(inbox[i])) = Len(inbox[i]) - 1
    BY <1>1, <1>2, ChannelTail
  <2>3. Tail(inbox[i]) # <<>>
    <3> DEFINE t == Tail(inbox[i])
               n == Len(inbox[i])
    <3>1. Len(<<>>) = 0
      OBVIOUS
    <3>2. Len(t) # 0
      <4>1. n \in Nat \ {0} /\ n # 1 /\ Len(t) = n - 1
        BY <2>1, <2>2
      <4> HIDE DEF t, n
      <4> QED
        BY <4>1
    <3> HIDE DEF t
    <3> QED
      BY <3>1, <3>2 DEF t
  <2>4. Tail(inbox[i])[Len(Tail(inbox[i]))] = inbox[i][Len(inbox[i])]
    BY <1>1, <1>2, <2>3, ChannelLast
  <2> QED
    BY <1>1, <1>4, <2>1, <2>3, <2>4 DEF Eventual
<1> QED
  BY <1>3, <1>4

LEMMA DieFollows == ASSUME Die PROVE FollowInv'
<1>1. Down' /\ ~up' /\ \A c \in Cmds : op'[c] = "start" /\ cpc'[c] = "idle"
  BY DEF Die, Down
<1> QED
  BY <1>1, PathIs DEF FollowInv, PathOK, Orderly, Concerns

LEMMA CallFollows == ASSUME IInv, FollowInv, Down', NEW c \in Cmds, Call(c) PROVE FollowInv'
<1>1. PICK k \in Kinds, a \in Accounts :
        /\ op' = [op EXCEPT ![c] = k]
        /\ acct' = [acct EXCEPT ![c] = a]
        /\ cpc' = [cpc EXCEPT ![c] = FirstStep(k)]
        /\ muddled' = IF k # "quit" /\ \E d \in Cmds : Concerns(d, a) THEN muddled \cup {a} ELSE muddled
        /\ \E m : conf' = [conf EXCEPT ![c] = m]
  BY DEF Call, CGoto
<1>2. up /\ cpc[c] = "idle" /\ UNCHANGED <<table, up, handles, inbox, amode, rest>>
  BY DEF Call, Slot, actorVars
<1>3. /\ op'[c] = k /\ cpc'[c] = FirstStep(k) /\ acct'[c] = a /\ k \in AllKinds
      /\ \A d \in Cmds \ {c} : op'[d] = op[d] /\ cpc'[d] = cpc[d] /\ acct'[d] = acct[d] /\ conf'[d] = conf[d]
  BY <1>1 DEF IInv, TypeInv, TypeOK
<1>4. /\ k \in {"add", "import", "update"} => FirstStep(k) = "write"
      /\ k \in {"delete", "quit"} => FirstStep(k) = "lock"
      /\ k = "correct" => FirstStep(k) = "read"
  BY DEF FirstStep
<1>5. ASSUME NEW d \in Cmds PROVE PathOK(d)'
  BY <1>2, <1>3, <1>4, PathIs DEF AllKinds, FollowInv, PathOK
<1>6. ASSUME NEW b \in Accounts \ muddled' PROVE Orderly(b)'
  <2>0. Orderly(b)
    BY <1>1, <1>6 DEF FollowInv
  <2>1. \A d \in Cmds \ {c} : Concerns(d, b)' = Concerns(d, b)
    BY <1>3 DEF Concerns
  <2>2. ~Concerns(c, b) /\ (Concerns(c, b)' => b = a /\ k # "quit")
    BY <1>2, <1>3 DEF Concerns, AllKinds
  <2>3. Concerns(c, b)' => \A d \in Cmds : ~Concerns(d, b)
    BY <1>1, <1>6, <2>2
  <2>4. Quitting => Quitting'
    BY <1>2, <1>3 DEF Quitting
  <2>5. Follows(b) => Follows(b)'
    BY <1>2 DEF Follows, Rows, Eventual
  <2>6. \A d \in Cmds \ {c} : Stands(d, b) => Stands(d, b)'
    BY <1>2, <1>3, StandsKept DEF Eventual
  <2>7. ASSUME Follows(b), Concerns(c, b)' PROVE Stands(c, b)'
    <3>1. Unspawned(c)' = {} /\ Untold(c)' = {} /\ Ending(c)' = {} /\ ~Reading(c)'
          /\ ~(op'[c] = "correct" /\ cpc'[c] = "write")
      BY <1>3, <1>4 DEF AllKinds, Unspawned, Untold, Ending, Reading
    <3> QED
      BY <2>5, <2>7, <3>1 DEF Stands
  <2> QED
    BY <1>2, <2>0, <2>1, <2>2, <2>3, <2>4, <2>5, <2>6, <2>7 DEF Orderly
<1> QED
  BY <1>5, <1>6 DEF FollowInv

LEMMA BootFollows == ASSUME IInv, FollowInv, Down', NEW c \in Cmds, Boot(c) PROVE FollowInv'
<1>1. /\ op'[c] = "start" /\ cpc'[c] = "read" /\ UNCHANGED <<handles, acct, rest, muddled>> /\ ~up
      /\ \A d \in Cmds \ {c} : op'[d] = op[d] /\ cpc'[d] = cpc[d]
  BY DEF Boot, CGoto, IInv, TypeInv, TypeOK
<1>2. (\A d \in Cmds : cpc[d] = "idle") /\ \A a \in Accounts : handles[a] = 0
  BY <1>1 DEF FollowInv, Down
<1>3. ASSUME NEW d \in Cmds PROVE PathOK(d)'
  BY <1>1, PathIs DEF FollowInv, PathOK
<1>4. ASSUME NEW a \in Accounts PROVE Orderly(a)'
  <2>1. \A d \in Cmds : Concerns(d, a)' <=> d = c
    BY <1>1, <1>2 DEF Concerns
  <2>2. Stands(c, a)'
    BY <1>1, <1>2 DEF Stands, Reading
  <2> QED
    BY <2>1, <2>2 DEF Orderly
<1> QED
  BY <1>3, <1>4 DEF FollowInv

LEMMA ReadRowFollows == ASSUME IInv, FollowInv, Down', NEW c \in Cmds, ReadRow(c) PROVE FollowInv'
<1>1. /\ cpc[c] = "read" /\ conf'[c] = table
      /\ rest'[c] = IF op[c] = "start" THEN Rows ELSE {}
      /\ UNCHANGED <<table, up, handles, amode, inbox, op, acct, muddled>>
      /\ \A d \in Cmds \ {c} : cpc'[d] = cpc[d] /\ acct'[d] = acct[d] /\ conf'[d] = conf[d] /\ rest'[d] = rest[d]
  BY DEF ReadRow, CGoto, actorVars, IInv, TypeInv, TypeOK
<1>2. op[c] \in {"start", "import", "correct"} /\ cpc'[c] \in {"idle", "write", "lock"}
      /\ (op[c] = "start" => cpc'[c] = "lock")
      /\ (op[c] = "import" /\ acct[c] \in Rows => cpc'[c] = "lock")
      /\ (op[c] = "correct" => cpc'[c] \in {"idle", "write"})
      /\ (op[c] = "import" => cpc'[c] \in {"idle", "lock"})
  <2>1. op[c] \in {"start", "import", "correct"}
    BY <1>1, PathFacts DEF AllKinds, IInv, TypeInv
  <2>2. DOMAIN cpc = Cmds
    BY DEF IInv, TypeInv, TypeOK
  <2> QED
    BY <2>1, <2>2 DEF ReadRow, CGoto
<1>3. cpc'[c] \in Path(op[c])
  BY <1>2, PathIs
<1>4. ASSUME NEW a \in Accounts, Concerns(c, a), Stands(c, a)
      PROVE  IF cpc'[c] = "idle" THEN Follows(a)' ELSE Stands(c, a)'
  <2>0. Follows(a) => Follows(a)'
    BY <1>1, FollowsKept DEF Eventual
  <2>1. CASE op[c] = "start"
    <3>1. handles[a] = 0
      BY <1>1, <1>4, <2>1 DEF Stands, Reading
    <3>2. Unspawned(c)' = Rows /\ Untold(c)' = {} /\ Ending(c)' = {} /\ ~Reading(c)'
      BY <1>1, <1>2, <2>1 DEF Unspawned, Untold, Ending, Reading
    <3> QED
      BY <1>1, <1>2, <2>1, <3>1, <3>2 DEF Stands, Follows, Rows
  <2>2. CASE op[c] = "import"
    <3>1. a = acct[c] /\ Unspawned(c) = {a} /\ ~Reading(c)
      BY <1>1, <1>4, <2>2 DEF Concerns, Unspawned, Reading
    <3>2. a \in Rows /\ handles[a] = 0
      BY <1>4, <3>1 DEF Stands
    <3>3. Unspawned(c)' = {a} /\ Untold(c)' = {} /\ Ending(c)' = {} /\ ~Reading(c)' /\ cpc'[c] = "lock"
      BY <1>1, <1>2, <2>2, <3>1, <3>2 DEF Unspawned, Untold, Ending, Reading
    <3> QED
      BY <1>1, <2>2, <3>2, <3>3 DEF Stands, Rows
  <2>3. CASE op[c] = "correct"
    <3>1. Follows(a)
      BY <1>4, <2>3 DEF Stands, Reading, Unspawned, Untold, Ending
    <3>2. Unspawned(c)' = {} /\ Untold(c)' = {} /\ Ending(c)' = {} /\ ~Reading(c)'
      BY <1>1, <2>3 DEF Unspawned, Untold, Ending, Reading
    <3> QED
      BY <1>1, <2>0, <3>1, <3>2 DEF Stands
  <2> QED
    BY <1>2, <2>1, <2>2, <2>3
<1>5. cpc[c] # "idle" /\ cpc'[c] \notin {"remove", "send", "spawn"}
  BY <1>1, <1>2
<1> QED
  BY <1>1, <1>3, <1>4, <1>5, StepFollows DEF Eventual

LEMMA WriteRowFollows == ASSUME IInv, FollowInv, Down', NEW c \in Cmds, WriteRow(c) PROVE FollowInv'
<1> DEFINE a == acct[c]
           ok == op[c] \in {"add", "import"} <=> a \notin Rows
<1>1. /\ cpc[c] = "write" /\ UNCHANGED <<up, handles, amode, inbox, op, acct, conf, rest, muddled>>
      /\ a \in Accounts /\ conf[c][a] \in Modes /\ table \in [Accounts -> Modes \cup Gone] /\ DOMAIN cpc = Cmds
      /\ \A d \in Cmds \ {c} : cpc'[d] = cpc[d]
  BY DEF WriteRow, CGoto, actorVars, IInv, TypeInv, TypeOK, ConfOK
<1>2. op[c] \in {"add", "import", "update", "correct", "delete"}
  BY <1>1, PathFacts DEF AllKinds, IInv, TypeInv
<1>3. \/ op[c] = "delete" /\ table' = [table EXCEPT ![a] = "deleted"] /\ cpc'[c] = "idle"
      \/ /\ op[c] # "delete" /\ ok /\ table' = [table EXCEPT ![a] = conf[c][a]]
         /\ cpc'[c] = IF op[c] = "import" THEN "read" ELSE IF op[c] = "correct" THEN "idle" ELSE "lock"
      \/ op[c] # "delete" /\ ~ok /\ cpc'[c] = "idle" /\ table' = table
  BY <1>1, <1>2 DEF WriteRow, CGoto
<1>4. cpc'[c] \in Path(op[c])
  BY <1>2, <1>3, PathIs
<1>5. \A b \in Accounts \ {a} : table'[b] = table[b]
  BY <1>1, <1>3
<1>6. ASSUME Concerns(c, a), Stands(c, a) PROVE IF cpc'[c] = "idle" THEN Follows(a)' ELSE Stands(c, a)'
  <2>1. /\ Unspawned(c) = {} /\ Untold(c) = {} /\ Ending(c) = (IF op[c] = "delete" THEN {a} ELSE {})
        /\ ~Reading(c) /\ ~Reading(c)'
    BY <1>1, <1>2 DEF Unspawned, Untold, Ending, Reading
  <2>2. CASE op[c] = "delete"
    <3>1. handles[a] = 0 /\ table'[a] = "deleted" /\ cpc'[c] = "idle"
      BY <1>1, <1>3, <1>6, <2>1, <2>2 DEF Stands
    <3> QED
      BY <1>1, <3>1 DEF Follows, Rows, Gone
  <2>3. CASE op[c] # "delete" /\ cpc'[c] = "idle"
    <3>1. Follows(a)
      BY <1>6, <2>1, <2>3 DEF Stands
    <3>2. op[c] = "correct" => conf[c][a] = table[a]
      BY <1>1, <1>6, <2>1 DEF Stands
    <3>3. table'[a] = table[a]
      BY <1>1, <1>2, <1>3, <2>3, <3>2
    <3> QED
      BY <1>1, <2>3, <3>1, <3>3, FollowsKept DEF Eventual
  <2>4. CASE op[c] # "delete" /\ cpc'[c] # "idle"
    <3>1. ok /\ table'[a] = conf[c][a] /\ table'[a] \notin Gone /\ op[c] # "correct"
          /\ cpc'[c] = IF op[c] = "import" THEN "read" ELSE "lock"
      BY <1>1, <1>3, <2>4, ModeFacts
    <3>2. Follows(a) /\ a \in Rows'
      BY <1>1, <1>6, <2>1, <2>4, <3>1 DEF Stands, Rows
    <3>3. CASE op[c] = "update"
      <4>1. handles[a] # 0 /\ Unspawned(c)' = {} /\ Untold(c)' = {a} /\ Ending(c)' = {}
        BY <1>1, <3>1, <3>2, <3>3 DEF Follows, Unspawned, Untold, Ending
      <4> QED
        BY <1>1, <2>1, <3>1, <3>2, <3>3, <4>1 DEF Stands
    <3>4. CASE op[c] \in {"add", "import"}
      <4>1. handles[a] = 0 /\ Unspawned(c)' = {a} /\ Untold(c)' = {} /\ Ending(c)' = {}
        BY <1>1, <3>1, <3>2, <3>4 DEF Follows, Unspawned, Untold, Ending
      <4> QED
        BY <1>1, <2>1, <3>1, <3>2, <3>4, <4>1 DEF Stands
    <3> QED
      BY <1>2, <2>4, <3>1, <3>3, <3>4
  <2> QED
    BY <2>2, <2>3, <2>4
<1>7. \A b \in Accounts : Concerns(c, b) => b = a
  BY <1>2 DEF Concerns
<1>8. \A b \in Accounts : Eventual(handles[b])' = Eventual(handles[b])
  BY <1>1 DEF Eventual
<1> HIDE DEF ok
<1> QED
  BY <1>1, <1>2, <1>4, <1>5, <1>6, <1>7, <1>8, StepFollows

LEMMA LockFollows == ASSUME IInv, FollowInv, Down', NEW c \in Cmds, Lock(c) PROVE FollowInv'
<1>1. /\ cpc[c] = "lock" /\ UNCHANGED <<table, up, handles, amode, inbox, op, acct, conf, rest, muddled>>
      /\ DOMAIN cpc = Cmds /\ \A d \in Cmds \ {c} : cpc'[d] = cpc[d]
  BY DEF Lock, CGoto, actorVars, IInv, TypeInv, TypeOK
<1>2. op[c] \in {"start", "add", "import", "update", "delete", "quit"} /\ (rest[c] # {} => op[c] = "start")
  BY <1>1, PathFacts DEF AllKinds, IInv, TypeInv, ConfOK
<1>3. /\ op[c] = "update" => cpc'[c] = "notify"
      /\ op[c] = "start" => cpc'[c] = "next"
      /\ op[c] = "quit" => cpc'[c] = "drain"
      /\ op[c] \in {"add", "import", "delete"} => cpc'[c] = "remove"
  BY <1>1, <1>2 DEF Lock, CGoto
<1>4. cpc'[c] \in Path(op[c])
  BY <1>2, <1>3, PathIs
<1>5. /\ Unspawned(c)' = Unspawned(c) /\ Untold(c)' = Untold(c) /\ Ending(c)' = Ending(c)
      /\ ~Reading(c) /\ ~Reading(c)' /\ cpc'[c] \notin {"idle", "read", "write"}
  BY <1>1, <1>2, <1>3 DEF Unspawned, Untold, Ending, Reading
<1>6. \A a \in Accounts : Stands(c, a) => Stands(c, a)'
  BY <1>1, <1>5, FollowsKept DEF Stands, Rows, Eventual
<1>7. op[c] = "start" => cpc'[c] \notin {"remove", "send", "spawn"}
  BY <1>3
<1> QED
  BY <1>1, <1>4, <1>5, <1>6, <1>7, StepFollows DEF Eventual

LEMMA NextAccountFollows == ASSUME IInv, FollowInv, Down', NEW c \in Cmds, NextAccount(c) PROVE FollowInv'
<1>1. /\ cpc[c] = "next" /\ UNCHANGED <<table, up, handles, amode, inbox, op, conf, muddled>>
      /\ \A d \in Cmds \ {c} : cpc'[d] = cpc[d] /\ acct'[d] = acct[d] /\ rest'[d] = rest[d]
  BY DEF NextAccount, CGoto, actorVars, IInv, TypeInv, TypeOK
<1>2. op[c] = "start" /\ DOMAIN cpc = Cmds /\ DOMAIN acct = Cmds /\ DOMAIN rest = Cmds
  BY <1>1, PathFacts DEF AllKinds, IInv, TypeInv, TypeOK
<1>3. \/ rest[c] = {} /\ rest'[c] = {} /\ cpc'[c] = "idle"
      \/ rest'[c] = rest[c] \ {acct'[c]} /\ acct'[c] \in rest[c] /\ cpc'[c] = "remove"
  BY <1>1, <1>2 DEF NextAccount, CGoto
<1>4. cpc'[c] \in Path(op[c])
  BY <1>2, <1>3, PathIs
<1>5. /\ Unspawned(c)' = Unspawned(c) /\ Untold(c)' = {} /\ Untold(c) = {} /\ Ending(c)' = {} /\ Ending(c) = {}
      /\ ~Reading(c) /\ ~Reading(c)' /\ (cpc'[c] = "idle" => Unspawned(c) = {})
  BY <1>1, <1>2, <1>3 DEF Unspawned, Untold, Ending, Reading
<1>6. ASSUME NEW a \in Accounts, Stands(c, a)
      PROVE  IF cpc'[c] = "idle" THEN Follows(a)' ELSE Stands(c, a)'
  <2>1. Follows(a) => Follows(a)'
    BY <1>1, FollowsKept DEF Eventual
  <2> QED
    BY <1>1, <1>2, <1>3, <1>5, <1>6, <2>1 DEF Stands, Rows
<1>7. acct'[c] \notin rest'[c] \/ cpc'[c] = "idle"
  BY <1>3
<1> QED
  BY <1>1, <1>2, <1>4, <1>6, <1>7, StepFollows DEF Eventual

LEMMA RemoveEntryFollows == ASSUME IInv, FollowInv, Down', NEW c \in Cmds, RemoveEntry(c) PROVE FollowInv'
<1>1. /\ cpc[c] = "remove" /\ UNCHANGED <<table, up, amode, inbox, op, acct, conf, rest, muddled>>
      /\ \A a \in Accounts : handles'[a] = IF a = acct[c] THEN 0 ELSE handles[a]
      /\ acct[c] \in Accounts /\ DOMAIN cpc = Cmds
      /\ \A d \in Cmds \ {c} : cpc'[d] = cpc[d]
  BY DEF RemoveEntry, Told, CGoto, actorVars, IInv, TypeInv, TypeOK
<1>2. op[c] \in {"start", "add", "import", "delete"} /\ (op[c] # "start" => rest[c] = {})
      /\ (op[c] = "start" => acct[c] \notin rest[c])
  BY <1>1, PathFacts DEF AllKinds, IInv, TypeInv, ConfOK, FollowInv, PathOK
<1>3. cpc'[c] = "send" \/ cpc'[c] = IF op[c] = "delete" THEN "write" ELSE "spawn"
  BY <1>1, <1>2 DEF RemoveEntry, Told, CGoto
<1>4. cpc'[c] \in Path(op[c]) /\ ~Reading(c) /\ ~Reading(c)' /\ cpc'[c] \notin {"idle", "read"}
  BY <1>1, <1>2, <1>3, PathIs DEF Reading
<1>5. ASSUME NEW a \in Accounts, Concerns(c, a), Stands(c, a) PROVE Stands(c, a)'
  <2>1. CASE op[c] = "delete"
    <3>1. a = acct[c] /\ Unspawned(c)' = {} /\ Untold(c)' = {} /\ Ending(c)' = {a}
      BY <1>1, <1>3, <1>5, <2>1 DEF Concerns, Unspawned, Untold, Ending
    <3> QED
      BY <1>1, <1>4, <2>1, <3>1 DEF Stands
  <2>2. CASE op[c] # "delete"
    <3>1. /\ Unspawned(c)' = Unspawned(c) /\ acct[c] \in Unspawned(c)
          /\ Untold(c)' = {} /\ Untold(c) = {} /\ Ending(c)' = {} /\ Ending(c) = {}
      BY <1>1, <1>2, <1>3, <2>2 DEF Unspawned, Untold, Ending
    <3>2. a \notin Unspawned(c) => Follows(a) /\ Follows(a)'
      <4> SUFFICES ASSUME a \notin Unspawned(c) PROVE Follows(a) /\ Follows(a)'
        OBVIOUS
      <4>1. Follows(a) /\ a # acct[c]
        BY <1>4, <1>5, <3>1 DEF Stands
      <4> QED
        BY <1>1, <4>1, FollowsKept DEF Eventual
    <3>3. a \in Unspawned(c) => a \in Rows' /\ handles'[a] = 0 /\ conf'[c][a] = table'[a]
      BY <1>1, <1>4, <1>5 DEF Stands, Rows
    <3>4. op[c] # "correct" /\ op' = op
      BY <1>1, <1>2
    <3> QED
      BY <1>4, <3>1, <3>2, <3>3, <3>4 DEF Stands
  <2> QED
    BY <2>1, <2>2
<1>6. cpc[c] # "idle" /\ \A a \in Accounts : Eventual(handles[a])' = IF a = acct[c] THEN Eventual(0) ELSE Eventual(handles[a])
  BY <1>1 DEF Eventual
<1> QED
  BY <1>1, <1>2, <1>4, <1>5, <1>6, StepFollows

LEMMA DrainFollows == ASSUME IInv, FollowInv, Down', NEW c \in Cmds, Drain(c) PROVE FollowInv'
<1>1. /\ cpc[c] = "drain" /\ UNCHANGED <<up, op, acct, conf, rest, muddled>> /\ cpc'[c] \in {"join", "send"}
      /\ \A d \in Cmds \ {c} : cpc'[d] = cpc[d]
  BY DEF Drain, CGoto, IInv, TypeInv, TypeOK
<1>2. op[c] = "quit"
  BY <1>1, PathFacts DEF AllKinds, IInv, TypeInv
<1>3. cpc'[c] \in Path(op[c]) /\ \A a \in Accounts : ~Concerns(c, a)
  BY <1>1, <1>2, PathIs DEF Concerns
<1> QED
  BY <1>1, <1>2, <1>3, StepFollows

LEMMA SendShutdownFollows == ASSUME IInv, FollowInv, Down', NEW c \in Cmds, SendShutdown(c) PROVE FollowInv'
<1>1. /\ cpc[c] = "send" /\ UNCHANGED <<table, up, handles, amode, op, acct, conf, rest, muddled>>
      /\ DOMAIN cpc = Cmds /\ \A d \in Cmds \ {c} : cpc'[d] = cpc[d]
  BY DEF SendShutdown, Told, CGoto, IInv, TypeInv, TypeOK
<1>2. op[c] \in {"start", "add", "import", "delete", "quit"} /\ (op[c] # "start" => rest[c] = {})
      /\ (op[c] = "start" => acct[c] \notin rest[c])
  BY <1>1, PathFacts DEF AllKinds, IInv, TypeInv, ConfOK, FollowInv, PathOK
<1>3. cpc'[c] = "send" \/ cpc'[c] = IF op[c] = "delete" THEN "write" ELSE IF op[c] = "quit" THEN "join" ELSE "spawn"
  BY <1>1, <1>2 DEF SendShutdown, Told, CGoto
<1>4. cpc'[c] \in Path(op[c]) /\ ~Reading(c) /\ ~Reading(c)' /\ cpc'[c] \notin {"idle", "read"}
  BY <1>1, <1>2, <1>3, PathIs DEF Reading
<1>5. ASSUME NEW a \in Accounts, handles[a] # 0 PROVE Eventual(handles[a])' = Eventual(handles[a])
  <2>1. PICK i \in held[c] : SendTo(i, "shutdown")
    BY DEF SendShutdown
  <2>2. i \in ActorIds /\ handles[a] # i
    BY <2>1 DEF IInv, TypeInv, TypeOK, HeldApart
  <2>3. "shutdown" \in Orders
    BY DEF Orders
  <2>4. \A j \in ActorIds \ {i} : inbox'[j] = inbox[j]
    BY <2>1, <2>2, <2>3, SendEffect DEF IInv, TypeInv
  <2>5. inbox'[handles[a]] = inbox[handles[a]]
    BY <1>5, <2>2, <2>4, HandlesDiffer
  <2> QED
    BY <1>1, <2>5 DEF Eventual
<1>6. ASSUME NEW a \in Accounts, Concerns(c, a), Stands(c, a) PROVE Stands(c, a)'
  <2>1. op[c] # "quit"
    BY <1>6 DEF Concerns
  <2>2. Unspawned(c)' = Unspawned(c) /\ Untold(c)' = Untold(c) /\ Ending(c)' = Ending(c) /\ op[c] # "correct"
    BY <1>1, <1>2, <1>3, <2>1 DEF Unspawned, Untold, Ending
  <2>3. Follows(a) => Follows(a)'
    BY <1>1, <1>5, FollowsKept
  <2> QED
    BY <1>1, <1>4, <1>6, <2>2, <2>3 DEF Stands, Rows
<1>7. cpc[c] # "idle"
  BY <1>1
<1> QED
  BY <1>1, <1>2, <1>4, <1>5, <1>6, <1>7, StepFollows

LEMMA NotifyFollows == ASSUME IInv, FollowInv, Down', NEW c \in Cmds, NotifyUpdated(c) PROVE FollowInv'
<1> DEFINE a == acct[c]
           i == handles[a]
           m == conf[c][a]
<1>1. /\ cpc[c] = "notify" /\ cpc'[c] = "idle" /\ UNCHANGED <<table, up, handles, amode, op, acct, conf, rest, muddled>>
      /\ a \in Accounts /\ m \in Modes /\ m \in Orders
      /\ (IF i = 0 THEN UNCHANGED inbox ELSE SendTo(i, m))
      /\ \A d \in Cmds \ {c} : cpc'[d] = cpc[d]
  BY DEF NotifyUpdated, CGoto, IInv, TypeInv, TypeOK, ConfOK, Orders
<1>2. op[c] = "update"
  BY <1>1, PathFacts DEF AllKinds, IInv, TypeInv
<1>3. i # 0 => i \in ActorIds /\ apc[i] # "ended"
  BY <1>1, HandlesDiffer DEF IInv, HandlesUsable
<1>4. \A j \in ActorIds \ {i} : inbox'[j] = inbox[j]
  <2>1. CASE i = 0
    BY <1>1, <2>1
  <2>2. CASE i # 0
    BY <1>1, <1>3, <2>2, SendEffect DEF IInv, TypeInv
  <2> QED
    BY <2>1, <2>2
<1>5. ASSUME NEW b \in Accounts \ {a}, handles[b] # 0 PROVE Eventual(handles[b])' = Eventual(handles[b])
  <2>1. handles[b] \in ActorIds \ {i}
    BY <1>1, <1>5, HandlesDiffer
  <2> QED
    BY <1>1, <1>4, <2>1 DEF Eventual
<1>6. ASSUME NEW b \in Accounts, b = a, Stands(c, b) PROVE Follows(b)'
  <2>1. b \in Untold(c) /\ ~Reading(c)
    BY <1>1, <1>2, <1>6 DEF Untold, Reading
  <2>2. b \in Rows /\ i # 0 /\ m = table[b]
    BY <1>6, <2>1 DEF Stands
  <2>3. SendTo(i, m) /\ m \in Orders /\ i \in ActorIds /\ apc[i] # "ended" /\ TypeOK
    BY <1>1, <1>3, <2>2 DEF IInv, TypeInv
  <2>4. b \in Rows' /\ handles'[b] = i /\ table'[b] = m
    BY <1>1, <1>6, <2>2 DEF Rows
  <2> HIDE DEF m, i, a
  <2>5. inbox'[i] = Append(inbox[i], m) /\ inbox[i] \in Seq(Orders)
    BY <2>3, SendEffect DEF TypeOK, Orders
  <2>6. Append(inbox[i], m) # <<>> /\ Append(inbox[i], m)[Len(Append(inbox[i], m))] = m
    BY <2>3, <2>5, ChannelAppend
  <2>7. inbox'[i] # <<>> /\ inbox'[i][Len(inbox'[i])] = m
    BY <2>5, <2>6
  <2> QED
    BY <2>2, <2>4, <2>7 DEF Follows, Eventual
<1>7. \A b \in Accounts : Concerns(c, b) => b = a
  BY <1>2 DEF Concerns
<1>8. "idle" \in Path("update") /\ cpc[c] # "idle"
  BY <1>1, PathIs
<1> HIDE DEF m, i
<1> QED
  BY <1>1, <1>2, <1>5, <1>6, <1>7, <1>8, StepFollows

LEMMA SpawnFollows == ASSUME IInv, FollowInv, Down', NEW c \in Cmds, Spawn(c) PROVE FollowInv'
<1> DEFINE a == acct[c]
           m == conf[c][a]
<1>1. PICK i \in ActorIds :
        /\ Free(i)
        /\ handles' = [handles EXCEPT ![a] = i]
        /\ amode' = [amode EXCEPT ![i] = m]
  BY DEF Spawn
<1>2. /\ cpc[c] = "spawn" /\ UNCHANGED <<table, up, inbox, op, acct, conf, rest, muddled>> /\ a \in Accounts /\ i # 0
      /\ DOMAIN cpc = Cmds /\ DOMAIN handles = Accounts /\ DOMAIN amode = ActorIds
      /\ cpc'[c] = (IF op[c] = "start" THEN "next" ELSE "idle")
      /\ \A d \in Cmds \ {c} : cpc'[d] = cpc[d]
  BY ModeFacts DEF Spawn, CGoto, IInv, TypeInv, TypeOK
<1>3. inbox[i] = <<>> /\ \A b \in Accounts : handles[b] # i
  BY <1>1 DEF Free, Closed, IInv, EndedEmpty
<1>4. op[c] \in {"start", "add", "import"} /\ (op[c] # "start" => rest[c] = {}) /\ (op[c] = "start" => a \notin rest[c])
  BY <1>2, PathFacts DEF AllKinds, IInv, TypeInv, ConfOK, FollowInv, PathOK
<1>5. /\ Unspawned(c) = Unspawned(c)' \cup {a} /\ a \notin Unspawned(c)'
      /\ Untold(c) = {} /\ Ending(c) = {} /\ Untold(c)' = {} /\ Ending(c)' = {}
      /\ ~Reading(c) /\ ~Reading(c)' /\ op[c] # "correct"
  BY <1>2, <1>4 DEF Unspawned, Untold, Ending, Reading
<1>6. ASSUME NEW b \in Accounts \ {a}
      PROVE  /\ handles'[b] = handles[b]
             /\ handles[b] # 0 => Eventual(handles[b])' = Eventual(handles[b])
  <2>1. handles'[b] = handles[b] /\ (handles[b] # 0 => amode'[handles[b]] = amode[handles[b]])
    BY <1>1, <1>2, <1>3, <1>6, HandlesDiffer
  <2> QED
    BY <1>2, <2>1 DEF Eventual
<1>7. ASSUME NEW b \in Accounts, b = a, Stands(c, b) PROVE Follows(b)'
  <2>1. b \in Rows /\ m = table[b]
    BY <1>2, <1>5, <1>7 DEF Stands
  <2>2. handles'[b] = i /\ amode'[i] = m /\ inbox'[i] = <<>>
    BY <1>1, <1>2, <1>3, <1>7
  <2>3. b \in Rows' /\ table'[b] = m
    BY <1>2, <1>7, <2>1 DEF Rows
  <2> HIDE DEF m, a
  <2> QED
    BY <1>2, <2>2, <2>3 DEF Follows, Eventual
<1>8. ASSUME NEW b \in Accounts, Concerns(c, b), Stands(c, b)
      PROVE  IF cpc'[c] = "idle" THEN Follows(b)' ELSE Stands(c, b)'
  <2>1. CASE b = a
    <3>1. Follows(b)'
      BY <1>7, <1>8, <2>1
    <3>2. b \notin Unspawned(c)' /\ op' = op
      BY <1>2, <1>5, <2>1
    <3> QED
      BY <1>5, <3>1, <3>2 DEF Stands
  <2>2. CASE b # a
    <3>1. op[c] = "start" /\ cpc'[c] = "next"
      BY <1>2, <1>8, <2>2 DEF Concerns
    <3>2. Follows(b) => Follows(b)'
      BY <1>2, <1>6, <2>2, FollowsKept
    <3> QED
      BY <1>2, <1>5, <1>6, <1>8, <2>2, <3>1, <3>2 DEF Stands, Rows
  <2> QED
    BY <2>1, <2>2
<1>9. cpc'[c] \in Path(op[c]) /\ cpc[c] # "idle" /\ cpc'[c] \notin {"remove", "send", "spawn"}
  BY <1>2, <1>4, PathIs
<1> HIDE DEF m
<1> QED
  BY <1>2, <1>4, <1>6, <1>8, <1>9, StepFollows

LEMMA FollowKept == ASSUME IInv, FollowInv, [Next]_vars PROVE FollowInv'
<1>0. Down'
  BY DownKept DEF FollowInv
<1>1. CASE UNCHANGED vars
  <2>1. UNCHANGED <<table, up, handles, op, cpc, acct, conf, rest, muddled, inbox, amode>>
    BY <1>1 DEF vars, actorVars, cmdVars
  <2> QED
    BY <1>0, <2>1, ActorsKeepFollow DEF Eventual
<1>2. ASSUME NEW i \in ActorIds, Network(i) \/ Local(i) \/ IdlePush(i) \/ IdleBroken(i) \/ RecvDoneFails(i)
      PROVE  FollowInv'
  <2>1. CASE Recv(i) /\ ~RecvDoneFails(i)
    <3>1. UNCHANGED <<table, up, handles, op, cpc, acct, conf, rest, muddled>>
      BY <2>1 DEF Recv, cmdVars
    <3> QED
      BY <1>0, <2>1, <3>1, RecvKeepsEventual, ActorsKeepFollow
  <2>2. CASE RecvDoneFails(i)
    <3>1. UNCHANGED <<table, up, handles, op, cpc, acct, conf, rest>> /\ muddled \subseteq muddled'
      BY <2>2 DEF RecvDoneFails
    <3> QED
      BY <1>0, <2>2, <3>1, DoneKeepsEventual, ActorsKeepFollow
  <2>3. CASE ~(Recv(i) \/ RecvDoneFails(i))
    <3>1. UNCHANGED <<table, up, handles, op, cpc, acct, conf, rest, muddled, inbox, amode>>
      BY <1>2, <2>3, ActorTypes DEF Local, IInv, cmdVars
    <3> QED
      BY <1>0, <3>1, ActorsKeepFollow DEF Eventual
  <2> QED
    BY <2>1, <2>2, <2>3
<1>3. ASSUME NEW c \in Cmds, Call(c) \/ Command(c) \/ QuitTimeout(c) \/ Boot(c)
      PROVE  FollowInv'
  BY <1>0, <1>3, CallFollows, ReadRowFollows, WriteRowFollows, LockFollows, NextAccountFollows, RemoveEntryFollows,
     DrainFollows, SendShutdownFollows, NotifyFollows, SpawnFollows, BootFollows, DieFollows
     DEF Command, Join, QuitTimeout
<1>4. ASSUME NEW a \in Accounts, MailArrives(a) PROVE FollowInv'
  <2>1. UNCHANGED <<table, up, handles, op, cpc, acct, conf, rest, muddled, inbox, amode>>
    BY <1>4 DEF MailArrives, cmdVars
  <2> QED
    BY <1>0, <2>1, ActorsKeepFollow DEF Eventual
<1>5. CASE Crash
  BY <1>5, DieFollows DEF Crash
<1> QED
  BY <1>1, <1>2, <1>3, <1>4, <1>5 DEF Next

\* Whatever commands run at a time, and whichever calls to a server fail, the
\* actors mirror the table when no command is under way (actor.rs:612-615), over
\* crashes and restarts too, for every account on which no two commands
\* overlapped and whose actor lost no last order since the program was started.
\* Both exceptions are needed: section 5 of the README says what happens in them.
THEOREM ActorsFollow == Spec => []ActorsFollowTable
<1>1. Init => FollowInv
  <2> SUFFICES ASSUME Init PROVE FollowInv
    OBVIOUS
  <2>1. ~up /\ Down /\ \A c \in Cmds : op[c] = "start" /\ cpc[c] = "idle"
    BY DEF Init, Down
  <2> QED
    BY <2>1, PathIs DEF FollowInv, PathOK, Orderly, Concerns
<1>2. IInv /\ FollowInv /\ [Next]_vars => FollowInv'
  BY FollowKept
<1>3. IInv /\ FollowInv => ActorsFollowTable
  <2> SUFFICES ASSUME FollowInv, Quiet, NEW a \in Accounts \ muddled PROVE Follows(a)
    BY DEF ActorsFollowTable, Follows, Eventual
  <2>1. up /\ ~Quitting /\ \A c \in Cmds : ~Concerns(c, a)
    BY DEF Quiet, Quitting, Concerns
  <2> QED
    BY <2>1 DEF FollowInv, Orderly
<1>4. Spec => []IInv
  BY AccountActorIInvAlways, PTL
<1> QED
  BY <1>1, <1>2, <1>3, <1>4, PTL DEF Spec
=============================================================================
