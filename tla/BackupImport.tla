---------------------------- MODULE BackupImport ----------------------------
(***************************************************************************)
(* application/backup.rs: exporting the settings (build) and importing     *)
(* them again (apply), on the same machine or a new one.  An import reads  *)
(* the tables and plans what to insert, then hands the plan to the writer, *)
(* which runs it as one transaction (import_bundle): the user can edit     *)
(* accounts and rules in between, and on the way from export to import.    *)
(*                                                                         *)
(* Spam rules and workflow rules differ only in the reference to a         *)
(* workflow and are one table here.  Passwords, aliases and the two JSON   *)
(* sidecar files are left out: they follow the transaction, best effort.   *)
(***************************************************************************)
EXTENDS Naturals, FiniteSets

CONSTANTS
    Ids,            \* account UUIDs
    Addrs,          \* account addresses, up to case
    Rules,          \* rule UUIDs
    Flows,          \* workflow UUIDs
    None,           \* no row; no reference (a rule for all accounts, no workflow)
    Edits,          \* what the user does, a subset of AllEdits
    MaxEdits        \* bound: user edits

AllEdits == {"add", "delete", "address", "rule", "text", "flow", "newMachine"}

ASSUME BackupImportAssumption ==
    /\ None \notin Ids \cup Addrs \cup Rules \cup Flows
    /\ Edits \subseteq AllEdits
    /\ MaxEdits \in Nat

VARIABLES
    accounts,   \* the address of each account
    flows,      \* the workflows
    rules,      \* the rules: account, workflow, and what the user made of it
    bundle,     \* the backup file
    plan,       \* what the running import is going to insert
    pc,         \* "idle", "planned", and the last outcome: "done", "rolledBack"
    raced,      \* the tables changed since the import read them
    edits

tables == <<accounts, flows, rules>>
vars == <<tables, bundle, plan, pc, raced, edits>>

Row == [acct : Ids \cup {None}, flow : Flows \cup {None}, text : 0..1]
Empty == [accounts |-> [i \in Ids |-> None],
          flows |-> {},
          rules |-> [r \in Rules |-> None]]

Existing(f) == {x \in DOMAIN f : f[x] # None}

\* The constraints of migrations/: UNIQUE (address) and the foreign keys.
Consistent(a, w, r) ==
    /\ \A i, j \in Existing(a) : a[i] = a[j] => i = j
    /\ \A x \in Existing(r) :
         /\ r[x].acct \in Existing(a) \cup {None}
         /\ r[x].flow \in w \cup {None}

File == [accounts : [Ids -> Addrs \cup {None}],
         flows : SUBSET Flows,
         rules : [Rules -> Row \cup {None}]]

\* Whatever the user and the imports do, the tables and the file stay sound.
TypeOK ==
    /\ [accounts |-> accounts, flows |-> flows, rules |-> rules] \in File
    /\ bundle \in File
    /\ plan \in File
    /\ Consistent(accounts, flows, rules)
    /\ Consistent(bundle.accounts, bundle.flows, bundle.rules)
    /\ pc \in {"idle", "planned", "done", "rolledBack"}
    /\ raced \in BOOLEAN
    /\ edits \in 0..MaxEdits

Init ==
    /\ accounts = Empty.accounts
    /\ flows = {}
    /\ rules = Empty.rules
    /\ bundle = Empty
    /\ plan = Empty
    /\ pc = "idle"
    /\ raced = FALSE
    /\ edits = 0

-----------------------------------------------------------------------------
(***************************************************************************)
(* The user's edits.                                                       *)
(***************************************************************************)
Edit(e) ==
    /\ e \in Edits
    /\ edits < MaxEdits
    /\ edits' = edits + 1
    /\ IF pc = "planned"
         THEN raced' = TRUE /\ UNCHANGED pc
         ELSE pc' = "idle" /\ UNCHANGED raced
    /\ UNCHANGED <<bundle, plan>>

\* INSERT INTO accounts; also the same mailbox again, under a new UUID.
AddAccount ==
    /\ Edit("add")
    /\ \E i \in Ids \ Existing(accounts), m \in Addrs :
         /\ \A j \in Ids : accounts[j] # m
         /\ bundle.accounts[i] = None
         /\ accounts' = [accounts EXCEPT ![i] = m]
    /\ UNCHANGED <<flows, rules>>

\* DELETE FROM accounts, with ON DELETE CASCADE on its rules.
DeleteAccount ==
    /\ Edit("delete")
    /\ \E i \in Existing(accounts) :
         /\ accounts' = [accounts EXCEPT ![i] = None]
         /\ rules' = [r \in Rules |->
              IF rules[r] # None /\ rules[r].acct = i THEN None ELSE rules[r]]
    /\ UNCHANGED flows

\* update_account with another address.
ChangeAddress ==
    /\ Edit("address")
    /\ \E i \in Existing(accounts), m \in Addrs :
         /\ \A j \in Ids : accounts[j] # m
         /\ accounts' = [accounts EXCEPT ![i] = m]
    /\ UNCHANGED <<flows, rules>>

AddRule ==
    /\ Edit("rule")
    /\ \E r \in Rules \ Existing(rules), i \in Existing(accounts) \cup {None},
          w \in flows \cup {None} :
         /\ bundle.rules[r] = None
         /\ rules' = [rules EXCEPT ![r] = [acct |-> i, flow |-> w, text |-> 0]]
    /\ UNCHANGED <<accounts, flows>>

EditRule ==
    /\ Edit("text")
    /\ \E r \in Existing(rules) : rules' = [rules EXCEPT ![r].text = 1]
    /\ UNCHANGED <<accounts, flows>>

\* DELETE FROM spam_rules, DELETE FROM workflow_rules.
DeleteRule ==
    /\ Edit("delete")
    /\ \E r \in Existing(rules) : rules' = [rules EXCEPT ![r] = None]
    /\ UNCHANGED <<accounts, flows>>

AddFlow ==
    /\ Edit("flow")
    /\ \E w \in Flows \ (flows \cup bundle.flows) : flows' = flows \cup {w}
    /\ UNCHANGED <<accounts, rules>>

\* DELETE FROM workflows, with ON DELETE CASCADE on its rules.
DeleteFlow ==
    /\ Edit("delete")
    /\ \E w \in flows :
         /\ flows' = flows \ {w}
         /\ rules' = [r \in Rules |->
              IF rules[r] # None /\ rules[r].flow = w THEN None ELSE rules[r]]
    /\ UNCHANGED accounts

\* The file is taken to a freshly installed machine.
NewMachine ==
    /\ Edit("newMachine")
    /\ pc # "planned"
    /\ accounts' = Empty.accounts
    /\ flows' = {}
    /\ rules' = Empty.rules

-----------------------------------------------------------------------------
\* build: the file holds the tables.
Build ==
    /\ pc # "planned"
    /\ bundle' = [accounts |-> accounts, flows |-> flows, rules |-> rules]
    /\ pc' = "idle"
    /\ UNCHANGED <<tables, plan, raced, edits>>

\* dedup_by_id: the items whose UUID is not in use.
DedupById(items, existing) ==
    [x \in DOMAIN items |-> IF x \in existing THEN None ELSE items[x]]

\* The account UUIDs a rule may refer to: those in the table and those of the
\* planned accounts (planned so far: the list is still empty at that point).
ValidAccountIds == Existing(accounts)

\* Accounts are told apart by address.
PlannedAccounts ==
    [i \in Ids |-> IF \E j \in Ids : accounts[j] = bundle.accounts[i]
                     THEN None ELSE bundle.accounts[i]]

\* Mutant of PlannedRules: no rule is skipped for its UUID.
PlannedRulesAll ==
    [r \in Rules |-> IF bundle.rules[r] # None
                        /\ bundle.rules[r].acct \in ValidAccountIds \cup {None}
                       THEN bundle.rules[r] ELSE None]

\* Mutant of PlannedRules: rules for all accounts are dropped with the rest.
PlannedRulesScoped ==
    LET new == DedupById(bundle.rules, Existing(rules))
    IN  [r \in Rules |-> IF new[r] # None /\ new[r].acct \in ValidAccountIds
                           THEN new[r] ELSE None]

PlannedRules ==
    LET new == DedupById(bundle.rules, Existing(rules))
    IN  [r \in Rules |-> IF new[r] # None /\ new[r].acct \in ValidAccountIds \cup {None}
                           THEN new[r] ELSE None]

\* apply up to the transaction: read the tables, plan what to insert.
Plan ==
    /\ pc # "planned"
    /\ bundle # Empty
    /\ plan' = [accounts |-> PlannedAccounts,
                flows |-> bundle.flows \ flows,
                rules |-> PlannedRules]
    /\ pc' = "planned"
    /\ raced' = FALSE
    /\ UNCHANGED <<tables, bundle, edits>>

\* The rows of f and those of g, which must be others.
Insert(f, g) == [x \in DOMAIN f |-> IF g[x] # None THEN g[x] ELSE f[x]]

\* No INSERT of the plan violates a primary key, UNIQUE or a foreign key.
Insertable ==
    /\ Existing(plan.accounts) \cap Existing(accounts) = {}
    /\ Existing(plan.rules) \cap Existing(rules) = {}
    /\ plan.flows \cap flows = {}
    /\ Consistent(Insert(accounts, plan.accounts), flows \cup plan.flows,
                  Insert(rules, plan.rules))

\* Mutant of ImportBundle: INSERT OR REPLACE for the rules.
ImportBundleReplace ==
    /\ pc = "planned"
    /\ accounts' = Insert(accounts, plan.accounts)
    /\ flows' = flows \cup plan.flows
    /\ rules' = Insert(rules, bundle.rules)
    /\ pc' = "done"
    /\ plan' = Empty
    /\ UNCHANGED <<bundle, raced, edits>>

\* import_bundle: all of the plan or, on the first error, nothing of it.
ImportBundle ==
    /\ pc = "planned"
    /\ IF Insertable
         THEN /\ accounts' = Insert(accounts, plan.accounts)
              /\ flows' = flows \cup plan.flows
              /\ rules' = Insert(rules, plan.rules)
              /\ pc' = "done"
         ELSE UNCHANGED tables /\ pc' = "rolledBack"
    /\ plan' = Empty
    /\ UNCHANGED <<bundle, raced, edits>>

Next ==
    \/ AddAccount \/ DeleteAccount \/ ChangeAddress
    \/ AddRule \/ EditRule \/ DeleteRule \/ AddFlow \/ DeleteFlow
    \/ NewMachine
    \/ Build \/ Plan \/ ImportBundle

Spec == Init /\ [][Next]_vars

-----------------------------------------------------------------------------
(***************************************************************************)
(* Properties.                                                             *)
(***************************************************************************)

\* Restoring never takes back what the user changed since the export, even
\* while the import runs (backup.rs: "no overwrite").
NoOverwrite ==
    [][pc = "planned" /\ pc' # "planned" =>
         /\ \A i \in Existing(accounts) : accounts'[i] = accounts[i]
         /\ \A r \in Existing(rules) : rules'[r] = rules[r]]_vars

\* An import that nobody interferes with is not rolled back, whatever was
\* deleted, added or edited since the export: what would violate a constraint
\* is filtered out first (backup.rs:407-417). The one constraint the filters
\* miss is the UUID of an account whose address is no longer the file's.
ImportSucceeds ==
    [][pc = "planned" /\ pc' = "rolledBack" =>
         raced \/ Existing(plan.accounts) \cap Existing(accounts) # {}]_vars

\* After an undisturbed import every account of the file is there, under its UUID or
\* its address, with every workflow and every rule for all accounts: what
\* does not depend on the filter on account references is complete.
UnscopedRestored ==
    pc = "done" /\ ~raced =>
        /\ \A i \in Existing(bundle.accounts) : \E j \in Ids :
             accounts[j] = bundle.accounts[i]
        /\ bundle.flows \subseteq flows
        /\ \A r \in Existing(bundle.rules) :
             bundle.rules[r].acct = None => r \in Existing(rules)

\* compute_conflicts: addresses of the file that exist under another UUID.
Conflicts == {i \in Existing(bundle.accounts) :
                \E j \in Existing(accounts) \ {i} : accounts[j] = bundle.accounts[i]}

=============================================================================
