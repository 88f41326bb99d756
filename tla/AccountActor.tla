---------------------------- MODULE AccountActor ----------------------------
(***************************************************************************)
(* application/actor.rs: one background task per account that keeps its    *)
(* INBOX in sync, over a standing IDLE session ("idle"), by polling        *)
(* ("poll") or both; and the map of actor handles that the account         *)
(* commands (commands/accounts.rs, backup.rs), the start of the program    *)
(* and its end keep in step with the accounts table.                       *)
(*                                                                         *)
(* The commands run concurrently.  Each writes its row through the writer  *)
(* and changes the map under its mutex, which it holds while it waits for  *)
(* room in an actor's channel.  An actor looks at its channel only in its  *)
(* select! loops, never during a connect or a fetch.  Of an account's data *)
(* only sync_mode is kept: the rest is read from the table per session.    *)
(* The length of the backoff is left out.                                  *)
(***************************************************************************)
EXTENDS Naturals, Sequences, FiniteSets

CONSTANTS
    Accounts,
    Cmds,           \* concurrent commands
    NoCmd,          \* nobody holds the mutex
    Modes,          \* the sync modes in use, a subset of AllModes
    Kinds,          \* the commands in use
    NoIdle,         \* accounts whose server lacks the IDLE capability
    Cap,            \* capacity of an actor's channel (8)
    MaxActors,      \* bound: actor tasks that exist at a time
    MaxCalls,       \* bound: commands called by the user
    MaxFaults,      \* bound: failed server calls and crashes
    DoneMayFail     \* whether DONE may fail when a command interrupts IDLE

AllModes == {"idle", "poll", "both"}
AllKinds == {"add", "import", "update", "correct", "delete", "quit"}

ASSUME AccountActorAssumption ==
    /\ Accounts # {} /\ Modes # {}
    /\ NoCmd \notin Cmds
    /\ Modes \subseteq AllModes
    /\ Kinds \subseteq AllKinds
    /\ NoIdle \subseteq Accounts
    /\ Cap \in Nat \ {0}
    /\ MaxActors \in Nat \ {0}
    /\ MaxCalls \in Nat
    /\ MaxFaults \in Nat
    /\ DoneMayFail \in BOOLEAN

VARIABLES
    table,      \* accounts: the row's sync_mode, or why there is no row
    mail,       \* mail[a]: the INBOX holds a message that was not fetched yet
    up,         \* the program runs
    handles,    \* AppState::actor_handles: an actor, 0 for no entry
    mutex,      \* the command that holds its mutex
    owner,      \* the account of each actor
    amode,      \* the sync_mode each actor works with
    apc,        \* where each actor is, "ended" also before it is spawned
    home,       \* where its current fetch returns to
    seen,       \* the search of its current fetch showed that message, if any
    inbox,      \* its channel
    op,         \* what each command does
    cpc,        \* where each command is
    acct,       \* the account it works on
    conf,       \* the configurations it read or was given
    rest,       \* spawn_all: accounts left to spawn
    held,       \* handles it took from the map, Shutdown not sent yet
    joins,      \* shutdown_all: actors it waits for
    muddled,    \* history: accounts on which two commands overlapped, or whose
                \* actor lost its last order, since the program was started
    calls, faults

actorVars == <<owner, amode, apc, home, seen, inbox>>
cmdVars == <<op, cpc, acct, conf, rest, held, joins, muddled>>
vars == <<table, mail, up, handles, mutex, actorVars, cmdVars, calls, faults>>

ActorIds == 1..MaxActors
Gone == {"unknown", "deleted"}
Rows == {a \in Accounts : table[a] \notin Gone}

APCs == {"ended", "open", "fetch", "store", "idle", "backoff", "wait"}
CPCs == {"idle", "read", "write", "lock", "next", "remove", "send", "spawn",
         "notify", "drain", "join"}

TypeOK ==
    /\ table \in [Accounts -> Modes \cup Gone]
    /\ mail \in [Accounts -> BOOLEAN]
    /\ up \in BOOLEAN
    /\ handles \in [Accounts -> 0..MaxActors]
    /\ mutex \in Cmds \cup {NoCmd}
    /\ owner \in [ActorIds -> Accounts]
    /\ amode \in [ActorIds -> Modes]
    /\ apc \in [ActorIds -> APCs]
    /\ home \in [ActorIds -> {"idle", "backoff", "wait"}]
    /\ seen \in [ActorIds -> BOOLEAN]
    /\ inbox \in [ActorIds -> Seq(Modes \cup {"shutdown"})]
    /\ \A i \in ActorIds : Len(inbox[i]) <= Cap
    /\ op \in [Cmds -> AllKinds \cup {"start"}]
    /\ cpc \in [Cmds -> CPCs]
    /\ acct \in [Cmds -> Accounts]
    /\ conf \in [Cmds -> [Accounts -> Modes \cup Gone]]
    /\ rest \in [Cmds -> SUBSET Accounts]
    /\ held \in [Cmds -> SUBSET ActorIds]
    /\ joins \in [Cmds -> SUBSET ActorIds]
    /\ muddled \in SUBSET Accounts
    /\ calls \in 0..MaxCalls
    /\ faults \in 0..MaxFaults

-----------------------------------------------------------------------------
AnyAccount == CHOOSE a \in Accounts : TRUE
AnyMode == CHOOSE m \in Modes : TRUE
NoConf == [a \in Accounts |-> "unknown"]

\* The process is about to be started. No task, no entry, no command.
Init ==
    /\ up = FALSE
    /\ table \in [Accounts -> Modes \cup {"unknown"}]
    /\ mail = [a \in Accounts |-> FALSE]
    /\ handles = [a \in Accounts |-> 0]
    /\ mutex = NoCmd
    /\ owner = [i \in ActorIds |-> AnyAccount]
    /\ amode = [i \in ActorIds |-> AnyMode]
    /\ apc = [i \in ActorIds |-> "ended"]
    /\ home = [i \in ActorIds |-> "idle"]
    /\ seen = [i \in ActorIds |-> FALSE]
    /\ inbox = [i \in ActorIds |-> <<>>]
    /\ op = [c \in Cmds |-> "start"]
    /\ cpc = [c \in Cmds |-> "idle"]
    /\ acct = [c \in Cmds |-> AnyAccount]
    /\ conf = [c \in Cmds |-> NoConf]
    /\ rest = [c \in Cmds |-> {}]
    /\ held = [c \in Cmds |-> {}]
    /\ joins = [c \in Cmds |-> {}]
    /\ muddled = {}
    /\ calls = 0
    /\ faults = 0

\* The process is gone, with every task in it.
Die ==
    /\ up' = FALSE
    /\ handles' = [a \in Accounts |-> 0]
    /\ mutex' = NoCmd
    /\ owner' = [i \in ActorIds |-> AnyAccount]
    /\ amode' = [i \in ActorIds |-> AnyMode]
    /\ apc' = [i \in ActorIds |-> "ended"]
    /\ home' = [i \in ActorIds |-> "idle"]
    /\ seen' = [i \in ActorIds |-> FALSE]
    /\ inbox' = [i \in ActorIds |-> <<>>]
    /\ op' = [c \in Cmds |-> "start"]
    /\ cpc' = [c \in Cmds |-> "idle"]
    /\ acct' = [c \in Cmds |-> AnyAccount]
    /\ conf' = [c \in Cmds |-> NoConf]
    /\ rest' = [c \in Cmds |-> {}]
    /\ held' = [c \in Cmds |-> {}]
    /\ joins' = [c \in Cmds |-> {}]
    /\ muddled' = {}
    /\ UNCHANGED <<table, mail, calls>>

Fault == faults < MaxFaults /\ faults' = faults + 1
NoFault == UNCHANGED faults

-----------------------------------------------------------------------------
(***************************************************************************)
(* The actor.                                                              *)
(***************************************************************************)
Entry(m) == IF m = "poll" THEN "wait" ELSE "open"

AGoto(i, l) == apc' = [apc EXCEPT ![i] = l]

\* Nobody has a sender of i's channel: recv() answers None once it is empty.
Closed(i) ==
    /\ \A a \in Accounts : handles[a] # i
    /\ \A c \in Cmds : i \notin held[c]

\* idle_session_lifecycle up to the initial fetch: connect, read the account,
\* ask for capabilities.
Open(i) ==
    /\ apc[i] = "open"
    /\ \/ /\ owner[i] \in Rows \ NoIdle
          /\ AGoto(i, "fetch")
          /\ NoFault
       \/ /\ owner[i] \notin Rows \ NoIdle
          /\ AGoto(i, "backoff")
          /\ NoFault
       \/ Fault /\ AGoto(i, "backoff")
    /\ home' = [home EXCEPT ![i] = "idle"]
    /\ UNCHANGED <<table, mail, up, handles, mutex, owner, amode, seen, inbox, cmdVars, calls>>

\* The fetch's search: from here on it works with what the server had then.
FetchSearch(i) ==
    /\ apc[i] = "fetch"
    /\ home[i] # "idle" => owner[i] \in Rows
    /\ seen' = [seen EXCEPT ![i] = TRUE]
    /\ AGoto(i, "store")
    /\ UNCHANGED <<table, mail, up, handles, mutex, owner, amode, home, inbox, cmdVars, calls, faults>>

\* The fetch is complete; the loop goes on.
FetchDone(i) ==
    /\ apc[i] = "store"
    /\ mail' = IF seen[i] THEN [mail EXCEPT ![owner[i]] = FALSE] ELSE mail
    /\ seen' = [seen EXCEPT ![i] = FALSE]
    /\ AGoto(i, home[i])
    /\ UNCHANGED <<table, up, handles, mutex, owner, amode, home, inbox, cmdVars, calls, faults>>

\* The fetch fails: an IDLE session is given up, poll_once only logs it.
FetchFails(i) ==
    /\ \/ apc[i] \in {"fetch", "store"} /\ Fault
       \/ apc[i] = "fetch" /\ home[i] # "idle" /\ owner[i] \notin Rows /\ NoFault
    /\ seen' = [seen EXCEPT ![i] = FALSE]
    /\ AGoto(i, IF home[i] = "idle" THEN "backoff" ELSE home[i])
    /\ UNCHANGED <<table, mail, up, handles, mutex, owner, amode, home, inbox, cmdVars, calls>>

\* IDLE ends with a push from the server.
IdlePush(i) ==
    /\ apc[i] = "idle"
    /\ AGoto(i, "fetch")
    /\ UNCHANGED <<table, mail, up, handles, mutex, owner, amode, home, seen, inbox, cmdVars, calls, faults>>

\* Mutant of IdleTimeout: DONE and IDLE again on the same session.
IdleTimeoutStays(i) ==
    /\ apc[i] = "idle"
    /\ UNCHANGED vars

\* IDLE_REFRESH: log out and start over, without a backoff.
IdleTimeout(i) ==
    /\ apc[i] = "idle"
    /\ AGoto(i, "open")
    /\ UNCHANGED <<table, mail, up, handles, mutex, owner, amode, home, seen, inbox, cmdVars, calls, faults>>

\* The session breaks while idling.
IdleBroken(i) ==
    /\ apc[i] = "idle"
    /\ Fault
    /\ AGoto(i, "backoff")
    /\ UNCHANGED <<table, mail, up, handles, mutex, owner, amode, home, seen, inbox, cmdVars, calls>>

\* POLL_INTERVAL elapses: fetch, in the IDLE session or in one of its own.
PollTick(i) ==
    /\ \/ apc[i] = "wait"
       \/ apc[i] \in {"idle", "backoff"} /\ amode[i] = "both"
    /\ home' = [home EXCEPT ![i] = apc[i]]
    /\ AGoto(i, "fetch")
    /\ UNCHANGED <<table, mail, up, handles, mutex, owner, amode, seen, inbox, cmdVars, calls, faults>>

BackoffOver(i) ==
    /\ apc[i] = "backoff"
    /\ AGoto(i, "open")
    /\ UNCHANGED <<table, mail, up, handles, mutex, owner, amode, home, seen, inbox, cmdVars, calls, faults>>

\* Mutant of Recv: during the backoff any command just ends the backoff.
RecvSwallowed(i) ==
    /\ apc[i] \in {"idle", "backoff", "wait"}
    /\ inbox[i] # <<>>
    /\ inbox' = [inbox EXCEPT ![i] = Tail(@)]
    /\ IF apc[i] = "backoff"
         THEN AGoto(i, "open") /\ UNCHANGED amode
         ELSE IF Head(inbox[i]) = "shutdown"
         THEN AGoto(i, "ended") /\ UNCHANGED amode
         ELSE /\ amode' = [amode EXCEPT ![i] = Head(inbox[i])]
              /\ AGoto(i, Entry(Head(inbox[i])))
    /\ UNCHANGED <<table, mail, up, handles, mutex, owner, home, seen, cmdVars, calls, faults>>

\* Mutant of Recv: the IDLE select! has no branch for commands.
RecvNotIdling(i) ==
    /\ apc[i] \in {"backoff", "wait"}
    /\ \/ inbox[i] = <<>> /\ Closed(i) /\ AGoto(i, "ended") /\ UNCHANGED <<amode, inbox>>
       \/ /\ inbox[i] # <<>>
          /\ inbox' = [inbox EXCEPT ![i] = Tail(@)]
          /\ IF Head(inbox[i]) = "shutdown"
               THEN AGoto(i, "ended") /\ UNCHANGED amode
               ELSE /\ amode' = [amode EXCEPT ![i] = Head(inbox[i])]
                    /\ AGoto(i, Entry(Head(inbox[i])))
    /\ UNCHANGED <<table, mail, up, handles, mutex, owner, home, seen, cmdVars, calls, faults>>

\* A command from the channel: Updated restarts the strategy with the new
\* mode, Shutdown (or a closed channel) ends the task and drops the channel.
Recv(i) ==
    /\ apc[i] \in {"idle", "backoff", "wait"}
    /\ \/ /\ inbox[i] # <<>>
          /\ Head(inbox[i]) # "shutdown"
          /\ amode' = [amode EXCEPT ![i] = Head(inbox[i])]
          /\ inbox' = [inbox EXCEPT ![i] = Tail(@)]
          /\ AGoto(i, Entry(Head(inbox[i])))
       \/ /\ IF inbox[i] = <<>> THEN Closed(i) ELSE Head(inbox[i]) = "shutdown"
          /\ inbox' = [inbox EXCEPT ![i] = <<>>]
          /\ AGoto(i, "ended")
          /\ UNCHANGED amode
    /\ UNCHANGED <<table, mail, up, handles, mutex, owner, home, seen, cmdVars, calls, faults>>

\* The same while idling, but the DONE that has to end IDLE first fails: the
\* lifecycle returns IdleFailed and the command it had received is gone.
RecvDoneFails(i) ==
    /\ DoneMayFail
    /\ apc[i] = "idle"
    /\ inbox[i] # <<>>
    /\ Fault
    /\ inbox' = [inbox EXCEPT ![i] = Tail(@)]
    /\ AGoto(i, "backoff")
    /\ muddled' = muddled \cup {a \in Accounts : handles[a] = i /\ Len(inbox[i]) = 1}
    /\ UNCHANGED <<table, mail, up, handles, mutex, owner, amode, home, seen, calls,
                   op, cpc, acct, conf, rest, held, joins>>

-----------------------------------------------------------------------------
(***************************************************************************)
(* The commands.                                                           *)
(***************************************************************************)
CGoto(c, l) == cpc' = [cpc EXCEPT ![c] = l]

\* Command c is under way and may touch the row or the actor of account a.
\* Quitting does not count: it ends with the program.
Concerns(c, a) ==
    /\ cpc[c] # "idle"
    /\ op[c] # "quit"
    /\ op[c] = "start" \/ acct[c] = a

FirstStep(k) ==
    CASE k \in {"add", "import", "update"} -> "write"
      [] k \in {"delete", "quit"} -> "lock"
      [] k \in {"start", "correct"} -> "read"

\* The slot that the next command takes: any idle one would do.
Slot(c) == cpc[c] = "idle" /\ c = CHOOSE d \in Cmds : cpc[d] = "idle"

\* The user adds, imports, edits or removes an account, or quits; "correct"
\* is a move whose target needed a namespace prefix.
Call(c) ==
    /\ up
    /\ Slot(c)
    /\ calls < MaxCalls
    /\ calls' = calls + 1
    /\ \E k \in Kinds, a \in Accounts, m \in Modes :
         /\ CASE k = "add" -> table[a] = "unknown"
              [] k = "import" -> table[a] \in Gone
              [] k = "quit" -> a = AnyAccount
              [] OTHER -> table[a] \notin Gone
         /\ k \notin {"add", "import", "update"} => m = AnyMode
         /\ op' = [op EXCEPT ![c] = k]
         /\ acct' = [acct EXCEPT ![c] = a]
         /\ conf' = [conf EXCEPT ![c] = [NoConf EXCEPT ![a] = m]]
         /\ CGoto(c, FirstStep(k))
         /\ muddled' = IF k # "quit" /\ \E d \in Cmds : Concerns(d, a)
                         THEN muddled \cup {a} ELSE muddled
    /\ UNCHANGED <<table, mail, up, handles, mutex, actorVars, rest, held, joins, faults>>

\* Reading the table: spawn_all's list, the imported row, the row of which
\* persist_folder_name_correction writes back a copy.
ReadRow(c) ==
    /\ cpc[c] = "read"
    /\ conf' = [conf EXCEPT ![c] = table]
    /\ rest' = [rest EXCEPT ![c] = IF op[c] = "start" THEN Rows ELSE {}]
    /\ CGoto(c, CASE op[c] # "start" /\ acct[c] \notin Rows -> "idle"
                  [] op[c] = "correct" /\ acct[c] \in Rows -> "write"
                  [] OTHER -> "lock")
    /\ UNCHANGED <<table, mail, up, handles, mutex, actorVars, op, acct, held, joins, muddled, calls, faults>>

\* The command's write: INSERT fails on an existing row, UPDATE on a missing
\* one, and either ends the command; DELETE always succeeds.
WriteRow(c) ==
    /\ cpc[c] = "write"
    /\ LET a == acct[c]
           ok == op[c] \in {"add", "import"} <=> a \notin Rows
       IN  \/ /\ op[c] = "delete"
              /\ table' = [table EXCEPT ![a] = "deleted"]
              /\ CGoto(c, "idle")
           \/ /\ op[c] # "delete" /\ ok
              /\ table' = [table EXCEPT ![a] = conf[c][a]]
              /\ CGoto(c, CASE op[c] = "import" -> "read"
                            [] op[c] = "correct" -> "idle"
                            [] OTHER -> "lock")
           \/ /\ op[c] # "delete" /\ ~ok
              /\ CGoto(c, "idle")
              /\ UNCHANGED table
    /\ UNCHANGED <<mail, up, handles, mutex, actorVars, op, acct, conf, rest, held, joins, muddled, calls, faults>>

\* handles.lock().await
Lock(c) ==
    /\ cpc[c] = "lock"
    /\ mutex = NoCmd
    /\ mutex' = c
    /\ CGoto(c, CASE op[c] = "update" -> "notify"
                  [] op[c] = "start" -> "next"
                  [] op[c] = "quit" -> "drain"
                  [] OTHER -> "remove")
    /\ UNCHANGED <<table, mail, up, handles, actorVars, op, acct, conf, rest, held, joins, muddled, calls, faults>>

\* spawn_all: the next account of its list, or done.
NextAccount(c) ==
    /\ cpc[c] = "next"
    /\ \/ /\ rest[c] = {}
          /\ mutex' = NoCmd
          /\ CGoto(c, "idle")
          /\ UNCHANGED <<acct, rest>>
       \/ \E a \in rest[c] :
            /\ acct' = [acct EXCEPT ![c] = a]
            /\ rest' = [rest EXCEPT ![c] = @ \ {a}]
            /\ CGoto(c, "remove")
            /\ UNCHANGED mutex
    /\ UNCHANGED <<table, mail, up, handles, actorVars, op, conf, held, joins, muddled, calls, faults>>

\* Once no handle is left to tell: delete goes on to its row, shutdown_all to
\* wait for the tasks, the others spawn.
Told(c) ==
    /\ CGoto(c, CASE op[c] = "delete" -> "write"
                  [] op[c] = "quit" -> "join"
                  [] OTHER -> "spawn")
    /\ mutex' = IF op[c] = "delete" THEN NoCmd ELSE mutex

\* Mutant of RemoveEntry: map.get for map.remove.
RemoveEntryKeeps(c) ==
    /\ cpc[c] = "remove"
    /\ held' = [held EXCEPT ![c] = {handles[acct[c]]} \ {0}]
    /\ IF handles[acct[c]] = 0
         THEN Told(c)
         ELSE CGoto(c, "send") /\ UNCHANGED mutex
    /\ UNCHANGED <<table, mail, up, handles, actorVars, op, acct, conf, rest, joins, muddled, calls, faults>>

\* map.remove
RemoveEntry(c) ==
    /\ cpc[c] = "remove"
    /\ held' = [held EXCEPT ![c] = {handles[acct[c]]} \ {0}]
    /\ handles' = [handles EXCEPT ![acct[c]] = 0]
    /\ IF handles[acct[c]] = 0
         THEN Told(c)
         ELSE CGoto(c, "send") /\ UNCHANGED mutex
    /\ UNCHANGED <<table, mail, up, actorVars, op, acct, conf, rest, joins, muddled, calls, faults>>

\* shutdown_all takes all entries and gives the mutex back.
Drain(c) ==
    /\ cpc[c] = "drain"
    /\ held' = [held EXCEPT ![c] = {handles[a] : a \in Accounts} \ {0}]
    /\ handles' = [a \in Accounts |-> 0]
    /\ mutex' = NoCmd
    /\ CGoto(c, IF held'[c] = {} THEN "join" ELSE "send")
    /\ UNCHANGED <<table, mail, up, actorVars, op, acct, conf, rest, joins, muddled, calls, faults>>

\* Mutant of SendTo: try_send, whose error is ignored.
SendToTry(i, msg) ==
    inbox' = IF apc[i] # "ended" /\ Len(inbox[i]) < Cap
               THEN [inbox EXCEPT ![i] = Append(@, msg)] ELSE inbox

\* tx.send(msg).await: an error if the task has ended, else wait for room.
SendTo(i, msg) ==
    \/ apc[i] = "ended" /\ UNCHANGED inbox
    \/ /\ apc[i] # "ended"
       /\ Len(inbox[i]) < Cap
       /\ inbox' = [inbox EXCEPT ![i] = Append(@, msg)]

\* tx.send(Shutdown) to a handle taken from the map, which is then dropped.
SendShutdown(c) ==
    /\ cpc[c] = "send"
    /\ \E i \in held[c] :
         /\ SendTo(i, "shutdown")
         /\ held' = [held EXCEPT ![c] = @ \ {i}]
         /\ joins' = IF op[c] = "quit" THEN [joins EXCEPT ![c] = @ \cup {i}] ELSE joins
    /\ IF held'[c] = {} THEN Told(c) ELSE UNCHANGED <<cpc, mutex>>
    /\ UNCHANGED <<table, mail, up, handles, owner, amode, apc, home, seen, op, acct, conf, rest, muddled, calls, faults>>

\* notify_updated: send Updated to the account's actor, if there is one.
NotifyUpdated(c) ==
    /\ cpc[c] = "notify"
    /\ LET i == handles[acct[c]]
       IN  IF i = 0 THEN UNCHANGED inbox ELSE SendTo(i, conf[c][acct[c]])
    /\ mutex' = NoCmd
    /\ CGoto(c, "idle")
    /\ UNCHANGED <<table, mail, up, handles, owner, amode, apc, home, seen, op, acct, conf, rest, held, joins, muddled, calls, faults>>

\* An actor task that has ended and that nobody refers to any more.
Free(i) ==
    /\ apc[i] = "ended"
    /\ Closed(i)
    /\ \A c \in Cmds : i \notin joins[c]

\* spawn and map.insert.
Spawn(c) ==
    /\ cpc[c] = "spawn"
    /\ \E i \in ActorIds :
         /\ Free(i)
         /\ \A j \in ActorIds : j < i => ~Free(j)
         /\ handles' = [handles EXCEPT ![acct[c]] = i]
         /\ owner' = [owner EXCEPT ![i] = acct[c]]
         /\ amode' = [amode EXCEPT ![i] = conf[c][acct[c]]]
         /\ AGoto(i, Entry(conf[c][acct[c]]))
    /\ IF op[c] = "start"
         THEN CGoto(c, "next") /\ UNCHANGED mutex
         ELSE CGoto(c, "idle") /\ mutex' = NoCmd
    /\ UNCHANGED <<table, mail, up, home, seen, inbox, op, acct, conf, rest, held, joins, muddled, calls, faults>>

\* shutdown_all is through: every task logged out.
Join(c) ==
    /\ cpc[c] = "join"
    /\ \A i \in joins[c] : apc[i] = "ended"
    /\ Die
    /\ UNCHANGED faults

\* main.rs gives shutdown_all two seconds and then exits.
QuitTimeout(c) ==
    /\ op[c] = "quit"
    /\ cpc[c] # "idle"
    /\ Die
    /\ UNCHANGED faults

Crash ==
    /\ up
    /\ Fault
    /\ Die

\* The program starts: the database is opened and spawn_all called.
Boot(c) ==
    /\ ~up
    /\ Slot(c)
    /\ up' = TRUE
    /\ op' = [op EXCEPT ![c] = "start"]
    /\ CGoto(c, "read")
    /\ UNCHANGED <<table, mail, handles, mutex, actorVars, acct, conf, rest, held, joins, muddled, calls, faults>>

-----------------------------------------------------------------------------
\* A message is delivered; a search made before does not show it. One
\* message is followed until it is fetched, those that join it are not.
MailArrives(a) ==
    /\ mail' = [mail EXCEPT ![a] = TRUE]
    /\ seen' = [i \in ActorIds |-> seen[i] /\ (mail[a] \/ owner[i] # a)]
    /\ UNCHANGED <<table, up, handles, mutex, owner, amode, apc, home, inbox, cmdVars, calls, faults>>

\* Steps of an actor that wait for the server, and those that do not.
Network(i) == Open(i) \/ FetchSearch(i) \/ FetchDone(i) \/ FetchFails(i)
Local(i) == IdleTimeout(i) \/ PollTick(i) \/ BackoffOver(i) \/ Recv(i)

Command(c) ==
    \/ ReadRow(c) \/ WriteRow(c) \/ Lock(c) \/ NextAccount(c) \/ RemoveEntry(c)
    \/ Drain(c) \/ SendShutdown(c) \/ NotifyUpdated(c) \/ Spawn(c) \/ Join(c)

Next ==
    \/ \E i \in ActorIds : Network(i) \/ Local(i) \/ IdlePush(i) \/ IdleBroken(i)
                            \/ RecvDoneFails(i)
    \/ \E c \in Cmds : Call(c) \/ Command(c) \/ QuitTimeout(c) \/ Boot(c)
    \/ \E a \in Accounts : MailArrives(a)
    \/ Crash

Spec == Init /\ [][Next]_vars

-----------------------------------------------------------------------------
(***************************************************************************)
(* Properties.                                                             *)
(***************************************************************************)

\* Every entry of the map is an actor of that account that runs and was not
\* told to stop, and whose channel therefore takes commands: the warning
\* "update-channel closed (dead actor)" of notify_updated is never due.
HandlesUsable ==
    \A a \in Accounts : handles[a] # 0 =>
        LET i == handles[a]
        IN  /\ owner[i] = a
            /\ apc[i] # "ended"
            /\ \A k \in 1..Len(inbox[i]) : inbox[i][k] # "shutdown"

Quiet == up /\ \A c \in Cmds : cpc[c] = "idle"

\* When no command is under way, the actors mirror the table (actor.rs:612-
\* 615): one per row and none besides, which work with the row's sync_mode
\* as soon as they have emptied their channel. Whatever the commands of other
\* accounts do meanwhile, and over restarts; except for an account on which
\* two commands overlapped, or whose actor lost its last order to a DONE that
\* failed: nothing in the code brings these back before the next start.
ActorsFollowTable ==
    Quiet => \A a \in Accounts \ muddled :
        IF a \notin Rows THEN handles[a] = 0
        ELSE /\ handles[a] # 0
             /\ LET i == handles[a]
                IN  table[a] = IF inbox[i] = <<>> THEN amode[i]
                               ELSE inbox[i][Len(inbox[i])]

\* Timers fire and commands are scheduled. A poll timer
\* that fired stays ready until the actor's select! looks at it.
LocalFairness ==
    /\ \A i \in ActorIds : WF_vars(Local(i)) /\ SF_vars(PollTick(i)) /\ SF_vars(Recv(i))
    /\ \A c \in Cmds : WF_vars(Command(c))

\* Every call to a server returns, with an answer or an error. The code sets
\* no time limit: with a server that hangs in a connect or a fetch, the three
\* properties below do not hold.
ServersAnswer == \A i \in ActorIds : WF_vars(Network(i))

FairSpec == Spec /\ LocalFairness /\ ServersAnswer

\* A command returns although it holds the mutex while it waits for room in an
\* actor's channel. Quitting returns only with the end of the program, and gets
\* there by way of the actors' logouts: no fairness is assumed of QuitTimeout.
CommandsReturn == \A c \in Cmds : []<>(cpc[c] = "idle")

\* Mail is fetched, also when it arrives between the search of a fetch and
\* the next IDLE and the server sends no push for it, unless the program is
\* not running, the account goes away, or its actor is set to IDLE only on a
\* server that lacks it.
MailIsFetched ==
    \A a \in Accounts : []<>
        \/ ~mail[a] \/ ~up \/ a \notin Rows
        \/ a \in NoIdle /\ handles[a] # 0 /\ amode[handles[a]] = "idle"

\* An actor that nobody can tell anything any more stops.
StrayActorsEnd == \A i \in ActorIds : []<>(apc[i] = "ended" \/ ~Closed(i))
=============================================================================
