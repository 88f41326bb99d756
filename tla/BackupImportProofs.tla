------------------------- MODULE BackupImportProofs -------------------------
(* Proofs about BackupImport, for any sets of UUIDs, addresses and edits. *)
EXTENDS BackupImport, TLAPS

\* A step of the user while an import is under way is noticed as a race; it
\* leaves the file and the plan alone.
LEMMA EditsRace ==
    ASSUME NEW e, Edit(e)
    PROVE  /\ UNCHANGED <<bundle, plan>>
           /\ pc = "planned" => pc' = "planned" /\ raced'
           /\ pc # "planned" => pc' = "idle" /\ UNCHANGED raced
  BY DEF Edit

\* Every edit is an Edit, and what it does to the tables leaves them sound.
UserStep ==
    \/ AddAccount \/ DeleteAccount \/ ChangeAddress
    \/ AddRule \/ EditRule \/ DeleteRule \/ AddFlow \/ DeleteFlow
    \/ NewMachine

LEMMA UserStepIsEdit ==
    ASSUME UserStep
    PROVE  \E e \in Edits : Edit(e)
  BY DEF UserStep, AddAccount, DeleteAccount, ChangeAddress, AddRule, EditRule,
         DeleteRule, AddFlow, DeleteFlow, NewMachine, Edit

LEMMA NextCases ==
    ASSUME Next
    PROVE  UserStep \/ Build \/ Plan \/ ImportBundle
  BY DEF Next, UserStep

Tables == [accounts |-> accounts, flows |-> flows, rules |-> rules]

\* No edit of the user breaks a constraint or a type.
LEMMA UserKeepsTables ==
    ASSUME TypeOK, UserStep
    PROVE  Tables' \in File /\ Consistent(accounts', flows', rules')
<1> USE BackupImportAssumption DEF BackupImportAssumption
<1>1. /\ accounts \in [Ids -> Addrs \cup {None}]
      /\ flows \in SUBSET Flows
      /\ rules \in [Rules -> Row \cup {None}]
      /\ Consistent(accounts, flows, rules)
  BY DEF TypeOK, File
<1> SUFFICES /\ accounts' \in [Ids -> Addrs \cup {None}]
             /\ flows' \in SUBSET Flows
             /\ rules' \in [Rules -> Row \cup {None}]
             /\ Consistent(accounts', flows', rules')
  BY DEF File, Tables
<1>2. CASE AddAccount
  <2>1. PICK i \in Ids, m \in Addrs :
          /\ accounts[i] = None
          /\ \A j \in Ids : accounts[j] # m
          /\ accounts' = [accounts EXCEPT ![i] = m]
    BY <1>1, <1>2 DEF AddAccount, Existing
  <2> QED
    BY <1>1, <1>2, <2>1 DEF AddAccount, Existing, Consistent
<1>3. CASE DeleteAccount
  <2>1. PICK i \in Existing(accounts) :
          /\ accounts' = [accounts EXCEPT ![i] = None]
          /\ rules' = [r \in Rules |->
               IF rules[r] # None /\ rules[r].acct = i THEN None ELSE rules[r]]
    BY <1>3 DEF DeleteAccount
  <2>2. accounts' \in [Ids -> Addrs \cup {None}] /\ flows' = flows
    BY <1>1, <1>3, <2>1 DEF DeleteAccount
  <2>3. rules' \in [Rules -> Row \cup {None}]
    BY <1>1, <2>1
  <2>4. \A x \in Existing(rules') : x \in Existing(rules) /\ rules'[x] = rules[x] /\ rules[x].acct # i
    BY <1>1, <2>1 DEF Existing
  <2>5. Existing(accounts') = Existing(accounts) \ {i}
    BY <1>1, <2>1 DEF Existing
  <2>6. \A k, j \in Existing(accounts') : accounts'[k] = accounts'[j] => k = j
    BY <1>1, <2>1, <2>5 DEF Existing, Consistent
  <2> QED
    BY <1>1, <2>2, <2>3, <2>4, <2>5, <2>6 DEF Consistent
<1>4. CASE ChangeAddress
  <2>1. PICK i \in Existing(accounts), m \in Addrs :
          /\ \A j \in Ids : accounts[j] # m
          /\ accounts' = [accounts EXCEPT ![i] = m]
    BY <1>4 DEF ChangeAddress
  <2>2. Existing(accounts') = Existing(accounts)
    BY <1>1, <2>1 DEF Existing
  <2> QED
    BY <1>1, <1>4, <2>1, <2>2 DEF ChangeAddress, Existing, Consistent
<1>5. CASE AddRule
  <2>1. PICK r \in Rules, i \in Existing(accounts) \cup {None}, w \in flows \cup {None} :
          rules' = [rules EXCEPT ![r] = [acct |-> i, flow |-> w, text |-> 0]]
    BY <1>1, <1>5 DEF AddRule, Existing
  <2>2. [acct |-> i, flow |-> w, text |-> 0] \in Row
    BY <1>1, <2>1 DEF Row, Existing
  <2>3. rules' \in [Rules -> Row \cup {None}]
    BY <1>1, <2>1, <2>2
  <2>4. \A x \in Existing(rules') :
          \/ x \in Existing(rules) /\ rules'[x] = rules[x]
          \/ rules'[x] = [acct |-> i, flow |-> w, text |-> 0]
    BY <1>1, <2>1 DEF Existing
  <2>5. \A x \in Existing(rules') : /\ rules'[x].acct \in Existing(accounts) \cup {None}
                                    /\ rules'[x].flow \in flows \cup {None}
    BY <1>1, <2>1, <2>4 DEF Consistent
  <2> QED
    BY <1>1, <1>5, <2>3, <2>5 DEF AddRule, Consistent
<1>6. CASE EditRule
  <2>1. PICK r \in Existing(rules) : rules' = [rules EXCEPT ![r].text = 1]
    BY <1>6 DEF EditRule
  <2>2. rules[r] \in Row /\ r \in Rules
    BY <1>1 DEF Existing
  <2>3. rules' = [rules EXCEPT ![r] = [rules[r] EXCEPT !.text = 1]]
    BY <2>1
  <2>4. /\ [rules[r] EXCEPT !.text = 1] \in Row
        /\ [rules[r] EXCEPT !.text = 1].acct = rules[r].acct
        /\ [rules[r] EXCEPT !.text = 1].flow = rules[r].flow
    BY <2>2 DEF Row
  <2>5. rules' \in [Rules -> Row \cup {None}]
    BY <1>1, <2>2, <2>3, <2>4
  <2>6. \A x \in Existing(rules') :
          x \in Existing(rules) /\ rules'[x].acct = rules[x].acct /\ rules'[x].flow = rules[x].flow
    BY <1>1, <2>2, <2>3, <2>4 DEF Existing
  <2> QED
    BY <1>1, <1>6, <2>5, <2>6 DEF EditRule, Consistent
<1>7. CASE DeleteRule
  <2>1. PICK r \in Existing(rules) : rules' = [rules EXCEPT ![r] = None]
    BY <1>7 DEF DeleteRule
  <2>2. \A x \in Existing(rules') : x \in Existing(rules) /\ rules'[x] = rules[x]
    BY <1>1, <2>1 DEF Existing
  <2> QED
    BY <1>1, <1>7, <2>1, <2>2 DEF DeleteRule, Consistent
<1>8. CASE AddFlow
  BY <1>1, <1>8 DEF AddFlow, Consistent
<1>9. CASE DeleteFlow
  <2>1. PICK w \in flows :
          /\ flows' = flows \ {w}
          /\ rules' = [r \in Rules |->
               IF rules[r] # None /\ rules[r].flow = w THEN None ELSE rules[r]]
    BY <1>9 DEF DeleteFlow
  <2>2. rules' \in [Rules -> Row \cup {None}]
    BY <1>1, <2>1
  <2>3. \A x \in Existing(rules') : x \in Existing(rules) /\ rules'[x] = rules[x] /\ rules[x].flow # w
    BY <1>1, <2>1 DEF Existing
  <2> QED
    BY <1>1, <1>9, <2>1, <2>2, <2>3 DEF DeleteFlow, Consistent
<1>10. CASE NewMachine
  <2>1. /\ accounts' = [i \in Ids |-> None]
        /\ flows' = {}
        /\ rules' = [r \in Rules |-> None]
    BY <1>10 DEF NewMachine, Empty
  <2> QED
    BY <2>1 DEF Existing, Consistent
<1> QED
  BY <1>2, <1>3, <1>4, <1>5, <1>6, <1>7, <1>8, <1>9, <1>10 DEF UserStep

-----------------------------------------------------------------------------
\* The plan only holds rows of the file.
LEMMA PlanFromFile ==
    ASSUME bundle \in File
    PROVE  /\ PlannedAccounts \in [Ids -> Addrs \cup {None}]
           /\ PlannedRules \in [Rules -> Row \cup {None}]
<1>1. /\ bundle.accounts \in [Ids -> Addrs \cup {None}]
      /\ bundle.rules \in [Rules -> Row \cup {None}]
  BY DEF File
<1>2. PlannedAccounts \in [Ids -> Addrs \cup {None}]
  BY <1>1 DEF PlannedAccounts
<1>3. DedupById(bundle.rules, Existing(rules)) \in [Rules -> Row \cup {None}]
  BY <1>1 DEF DedupById
<1>4. PlannedRules \in [Rules -> Row \cup {None}]
  BY <1>3 DEF PlannedRules
<1> QED
  BY <1>2, <1>4

\* INSERTing rows of the right type keeps the type.
LEMMA InsertKeepsType ==
    ASSUME NEW S, NEW T, NEW f \in [S -> T], NEW g \in [S -> T]
    PROVE  Insert(f, g) \in [S -> T]
  BY DEF Insert

\* Tables and file keep their types and constraints: what the foreign keys and
\* UNIQUE constraints of migrations/ promise survives every edit and import.
THEOREM TypeCorrect == Spec => []TypeOK
<1>1. Init => TypeOK
  <2> SUFFICES ASSUME Init PROVE TypeOK
    OBVIOUS
  <2>1. Empty \in File
    BY DEF Empty, File
  <2>2. Existing(Empty.accounts) = {} /\ Existing(Empty.rules) = {}
    BY DEF Empty, Existing
  <2>3. Consistent(Empty.accounts, {}, Empty.rules)
    BY <2>2 DEF Consistent
  <2>4. Tables = Empty /\ Empty.flows = {}
    BY DEF Init, Tables, Empty
  <2>5. [accounts |-> accounts, flows |-> flows, rules |-> rules] \in File
    BY <2>1, <2>4 DEF Tables
  <2>6. Consistent(accounts, flows, rules)
    BY <2>3 DEF Init
  <2>7. Consistent(bundle.accounts, bundle.flows, bundle.rules)
    BY <2>3, <2>4 DEF Init
  <2>8. /\ bundle \in File /\ plan \in File
        /\ pc = "idle" /\ raced = FALSE /\ edits = 0
    BY <2>1 DEF Init
  <2>9. edits \in 0..MaxEdits
    BY <2>8, BackupImportAssumption DEF BackupImportAssumption
  <2> QED
    BY <2>5, <2>6, <2>7, <2>8, <2>9 DEF TypeOK
<1>2. TypeOK /\ [Next]_vars => TypeOK'
  <2> SUFFICES ASSUME TypeOK, [Next]_vars PROVE TypeOK'
    OBVIOUS
  <2>1. CASE UserStep
    <3>1. Tables' \in File /\ Consistent(accounts', flows', rules')
      BY <2>1, UserKeepsTables
    <3>2. PICK e \in Edits : Edit(e)
      BY <2>1, UserStepIsEdit
    <3>3. /\ UNCHANGED <<bundle, plan>>
          /\ pc' \in {"idle", "planned", "done", "rolledBack"}
          /\ raced' \in BOOLEAN
      BY <3>2, EditsRace DEF TypeOK
    <3>4. edits' \in 0..MaxEdits
      BY <3>2, BackupImportAssumption DEF Edit, TypeOK, BackupImportAssumption
    <3> QED
      BY <3>1, <3>3, <3>4 DEF TypeOK, Tables
  <2>2. CASE Build
    BY <2>2 DEF Build, TypeOK, tables
  <2>3. CASE Plan
    <3>1. plan' \in File
      BY <2>3, PlanFromFile DEF Plan, TypeOK, File
    <3> QED
      BY <2>3, <3>1 DEF Plan, TypeOK, tables
  <2>4. CASE ImportBundle
    <3>1. /\ bundle \in File /\ plan \in File /\ Tables \in File
      BY DEF TypeOK, Tables
    <3>2. plan' \in File /\ UNCHANGED <<bundle, raced, edits>> /\ pc' \in {"done", "rolledBack"}
      BY <2>4 DEF ImportBundle, Empty, File
    <3>3. CASE Insertable
      <4>1. /\ accounts' = Insert(accounts, plan.accounts)
            /\ flows' = flows \cup plan.flows
            /\ rules' = Insert(rules, plan.rules)
        BY <2>4, <3>3 DEF ImportBundle
      <4>2. /\ accounts' \in [Ids -> Addrs \cup {None}]
            /\ flows' \subseteq Flows
            /\ rules' \in [Rules -> Row \cup {None}]
        BY <3>1, <4>1, InsertKeepsType DEF File, Tables
      <4>3. Consistent(accounts', flows', rules')
        BY <3>3, <4>1 DEF Insertable
      <4> QED
        BY <3>2, <4>2, <4>3 DEF TypeOK, File
    <3>4. CASE ~Insertable
      BY <2>4, <3>2, <3>4 DEF ImportBundle, TypeOK, tables
    <3> QED
      BY <3>3, <3>4
  <2>5. CASE UNCHANGED vars
    BY <2>5 DEF vars, tables, TypeOK
  <2> QED
    BY <2>1, <2>2, <2>3, <2>4, <2>5, NextCases
<1> QED
  BY <1>1, <1>2, PTL DEF Spec

-----------------------------------------------------------------------------
\* Only ImportBundle ends an import that is under way.
LEMMA OnlyImportBundleEnds ==
    ASSUME pc = "planned", pc' # "planned", [Next]_vars
    PROVE  ImportBundle
<1>1. ~UserStep
  BY UserStepIsEdit, EditsRace
<1>2. ~Build /\ ~Plan /\ ~UNCHANGED vars
  BY DEF Build, Plan, vars
<1> QED
  BY <1>1, <1>2, NextCases

\* An import changes no row that is there when it commits, whatever the user
\* did since it read the tables.
THEOREM ImportKeepsRows == Spec => NoOverwrite
<1>1. TypeOK /\ [Next]_vars =>
        [pc = "planned" /\ pc' # "planned" =>
           /\ \A i \in Existing(accounts) : accounts'[i] = accounts[i]
           /\ \A r \in Existing(rules) : rules'[r] = rules[r]]_vars
  <2> SUFFICES ASSUME TypeOK, [Next]_vars, pc = "planned", pc' # "planned"
               PROVE  /\ \A i \in Existing(accounts) : accounts'[i] = accounts[i]
                      /\ \A r \in Existing(rules) : rules'[r] = rules[r]
    OBVIOUS
  <2>1. ImportBundle
    BY OnlyImportBundleEnds
  <2>2. /\ DOMAIN accounts = Ids /\ DOMAIN plan.accounts = Ids
        /\ DOMAIN rules = Rules /\ DOMAIN plan.rules = Rules
    BY DEF TypeOK, File
  <2>3. CASE Insertable
    <3>1. /\ accounts' = Insert(accounts, plan.accounts)
          /\ rules' = Insert(rules, plan.rules)
      BY <2>1, <2>3 DEF ImportBundle
    <3> QED
      BY <2>2, <2>3, <3>1 DEF Insertable, Insert, Existing
  <2>4. CASE ~Insertable
    BY <2>1, <2>4 DEF ImportBundle, tables
  <2> QED
    BY <2>3, <2>4
<1> QED
  BY <1>1, TypeCorrect, PTL DEF Spec, NoOverwrite

-----------------------------------------------------------------------------
\* While nobody interferes, the plan is the one Plan would make now: the
\* snapshot that apply read is not stale.
PlanCurrent ==
    pc = "planned" /\ ~raced =>
        plan = [accounts |-> PlannedAccounts,
                flows |-> bundle.flows \ flows,
                rules |-> PlannedRules]

LEMMA PlanStaysCurrent ==
    ASSUME PlanCurrent, [Next]_vars
    PROVE  PlanCurrent'
<1> SUFFICES ASSUME pc' = "planned", ~raced'
             PROVE  (plan = [accounts |-> PlannedAccounts,
                             flows |-> bundle.flows \ flows,
                             rules |-> PlannedRules])'
  BY DEF PlanCurrent
<1>1. ~UserStep
  <2> SUFFICES ASSUME UserStep PROVE FALSE
    OBVIOUS
  <2>1. PICK e \in Edits : Edit(e)
    BY UserStepIsEdit
  <2>2. (pc = "planned" => raced') /\ (pc # "planned" => pc' = "idle")
    BY <2>1, EditsRace
  <2> QED
    BY <2>2
<1>2. ~Build /\ ~ImportBundle
  BY DEF Build, ImportBundle
<1>3. CASE Plan
  <2>1. UNCHANGED <<accounts, flows, rules, bundle>>
    BY <1>3 DEF Plan, tables
  <2>2. PlannedAccounts' = PlannedAccounts /\ PlannedRules' = PlannedRules
    BY <2>1 DEF PlannedAccounts, PlannedRules, DedupById, ValidAccountIds, Existing
  <2> QED
    BY <1>3, <2>1, <2>2 DEF Plan
<1>4. CASE UNCHANGED vars
  <2>1. UNCHANGED <<accounts, flows, rules, bundle, plan, pc, raced>>
    BY <1>4 DEF vars, tables
  <2>2. PlannedAccounts' = PlannedAccounts /\ PlannedRules' = PlannedRules
    BY <2>1 DEF PlannedAccounts, PlannedRules, DedupById, ValidAccountIds, Existing
  <2> QED
    BY <2>1, <2>2 DEF PlanCurrent
<1> QED
  BY <1>1, <1>2, <1>3, <1>4, NextCases

\* What a current plan inserts: accounts with unused addresses, unused rules,
\* and only rules that refer to accounts that are there.
LEMMA CurrentPlan ==
    ASSUME TypeOK, PlanCurrent, pc = "planned", ~raced
    PROVE  /\ plan.flows = bundle.flows \ flows
           /\ \A i \in Existing(plan.accounts) :
                /\ plan.accounts[i] = bundle.accounts[i]
                /\ i \in Existing(bundle.accounts)
                /\ \A j \in Ids : accounts[j] # plan.accounts[i]
           /\ \A r \in Existing(plan.rules) :
                /\ plan.rules[r] = bundle.rules[r]
                /\ r \in Existing(bundle.rules) \ Existing(rules)
                /\ plan.rules[r].acct \in Existing(accounts) \cup {None}
           /\ \A i \in Existing(bundle.accounts) \ Existing(plan.accounts) :
                \E j \in Ids : accounts[j] = bundle.accounts[i]
           /\ \A r \in Existing(bundle.rules) :
                bundle.rules[r].acct = None =>
                  r \in Existing(plan.rules) \cup Existing(rules)
<1>1. /\ plan.accounts = PlannedAccounts
      /\ plan.flows = bundle.flows \ flows
      /\ plan.rules = PlannedRules
  BY DEF PlanCurrent
<1>2. /\ DOMAIN bundle.accounts = Ids
      /\ DOMAIN bundle.rules = Rules
  BY DEF TypeOK, File
<1>3. \A i \in Ids : PlannedAccounts[i] =
        IF \E j \in Ids : accounts[j] = bundle.accounts[i] THEN None ELSE bundle.accounts[i]
  BY DEF PlannedAccounts
<1>4. \A r \in Rules :
        DedupById(bundle.rules, Existing(rules))[r] =
          IF r \in Existing(rules) THEN None ELSE bundle.rules[r]
  BY <1>2 DEF DedupById
<1>5. \A r \in Rules : PlannedRules[r] =
        IF /\ r \notin Existing(rules)
           /\ bundle.rules[r] # None
           /\ bundle.rules[r].acct \in Existing(accounts) \cup {None}
          THEN bundle.rules[r] ELSE None
  BY <1>4 DEF PlannedRules, ValidAccountIds
<1>6. DOMAIN PlannedAccounts = Ids /\ DOMAIN PlannedRules = Rules
  BY DEF PlannedAccounts, PlannedRules
<1>7. \A i \in Existing(plan.accounts) :
        /\ plan.accounts[i] = bundle.accounts[i]
        /\ i \in Existing(bundle.accounts)
        /\ \A j \in Ids : accounts[j] # plan.accounts[i]
  BY <1>1, <1>2, <1>3, <1>6 DEF Existing
<1>8. \A r \in Existing(plan.rules) :
        /\ plan.rules[r] = bundle.rules[r]
        /\ r \in Existing(bundle.rules) \ Existing(rules)
        /\ plan.rules[r].acct \in Existing(accounts) \cup {None}
  <2> SUFFICES ASSUME NEW r \in Existing(plan.rules)
               PROVE  /\ plan.rules[r] = bundle.rules[r]
                      /\ r \in Existing(bundle.rules) \ Existing(rules)
                      /\ plan.rules[r].acct \in Existing(accounts) \cup {None}
    OBVIOUS
  <2>1. r \in Rules /\ PlannedRules[r] # None
    BY <1>1, <1>6 DEF Existing
  <2>2. /\ r \notin Existing(rules)
        /\ bundle.rules[r] # None
        /\ bundle.rules[r].acct \in Existing(accounts) \cup {None}
        /\ PlannedRules[r] = bundle.rules[r]
    BY <1>5, <2>1
  <2>3. r \in Existing(bundle.rules)
    BY <1>2, <2>1, <2>2 DEF Existing
  <2> QED
    BY <1>1, <2>2, <2>3
<1>9. \A i \in Existing(bundle.accounts) \ Existing(plan.accounts) :
        \E j \in Ids : accounts[j] = bundle.accounts[i]
  BY <1>1, <1>2, <1>3, <1>6 DEF Existing
<1>10. \A r \in Existing(bundle.rules) :
         bundle.rules[r].acct = None =>
           r \in Existing(plan.rules) \cup Existing(rules)
  <2> SUFFICES ASSUME NEW r \in Existing(bundle.rules), bundle.rules[r].acct = None,
                      r \notin Existing(rules)
               PROVE  r \in Existing(plan.rules)
    OBVIOUS
  <2>1. r \in Rules /\ bundle.rules[r] # None
    BY <1>2 DEF Existing
  <2>2. PlannedRules[r] = bundle.rules[r]
    BY <1>5, <2>1
  <2> QED
    BY <1>1, <1>6, <2>1, <2>2 DEF Existing
<1> QED
  BY <1>1, <1>7, <1>8, <1>9, <1>10

\* A row is there after the INSERTs if it was there before or is planned.
LEMMA ExistingInsert ==
    ASSUME NEW S, NEW f, NEW g, DOMAIN f = S, DOMAIN g = S
    PROVE  /\ Existing(Insert(f, g)) = Existing(f) \cup Existing(g)
           /\ \A x \in Existing(g) : Insert(f, g)[x] = g[x]
           /\ \A x \in Existing(f) \ Existing(g) : Insert(f, g)[x] = f[x]
  BY DEF Existing, Insert

\* A current plan violates no constraint, but for the UUID of an account.
LEMMA CurrentPlanFits ==
    ASSUME TypeOK, PlanCurrent, pc = "planned", ~raced,
           Existing(plan.accounts) \cap Existing(accounts) = {}
    PROVE  Insertable
<1> DEFINE A == Insert(accounts, plan.accounts)
           R == Insert(rules, plan.rules)
<1>1. /\ DOMAIN accounts = Ids /\ DOMAIN plan.accounts = Ids
      /\ DOMAIN rules = Rules /\ DOMAIN plan.rules = Rules
  BY DEF TypeOK, File
<1>2. /\ Existing(A) = Existing(accounts) \cup Existing(plan.accounts)
      /\ \A x \in Existing(plan.accounts) : A[x] = plan.accounts[x]
      /\ \A x \in Existing(accounts) \ Existing(plan.accounts) : A[x] = accounts[x]
  BY <1>1, ExistingInsert
<1>3. /\ Existing(R) = Existing(rules) \cup Existing(plan.rules)
      /\ \A x \in Existing(plan.rules) : R[x] = plan.rules[x]
      /\ \A x \in Existing(rules) \ Existing(plan.rules) : R[x] = rules[x]
  BY <1>1, ExistingInsert
<1>4. /\ Consistent(accounts, flows, rules)
      /\ Consistent(bundle.accounts, bundle.flows, bundle.rules)
  BY DEF TypeOK
<1>5. /\ plan.flows = bundle.flows \ flows
      /\ \A i \in Existing(plan.accounts) :
           /\ plan.accounts[i] = bundle.accounts[i]
           /\ i \in Existing(bundle.accounts)
           /\ \A j \in Ids : accounts[j] # plan.accounts[i]
      /\ \A r \in Existing(plan.rules) :
           /\ plan.rules[r] = bundle.rules[r]
           /\ r \in Existing(bundle.rules) \ Existing(rules)
           /\ plan.rules[r].acct \in Existing(accounts) \cup {None}
  BY CurrentPlan
<1>6. \A i, j \in Existing(A) : A[i] = A[j] => i = j
  <2> SUFFICES ASSUME NEW i \in Existing(A), NEW j \in Existing(A), A[i] = A[j]
               PROVE  i = j
    OBVIOUS
  <2>1. Existing(accounts) \subseteq Ids
    BY <1>1 DEF Existing
  <2>2. CASE i \in Existing(plan.accounts) /\ j \in Existing(plan.accounts)
    <3>1. bundle.accounts[i] = bundle.accounts[j]
      BY <1>2, <1>5, <2>2
    <3> QED
      BY <1>4, <1>5, <2>2, <3>1 DEF Consistent
  <2>3. CASE i \notin Existing(plan.accounts) /\ j \notin Existing(plan.accounts)
    <3>1. /\ i \in Existing(accounts) /\ j \in Existing(accounts)
          /\ accounts[i] = accounts[j]
      BY <1>2, <2>3
    <3> QED
      BY <1>4, <3>1 DEF Consistent
  <2>4. CASE i \in Existing(plan.accounts) /\ j \notin Existing(plan.accounts)
    BY <1>2, <1>5, <2>1, <2>4
  <2>5. CASE i \notin Existing(plan.accounts) /\ j \in Existing(plan.accounts)
    BY <1>2, <1>5, <2>1, <2>5
  <2> QED
    BY <2>2, <2>3, <2>4, <2>5
<1>7. \A x \in Existing(R) :
        R[x].acct \in Existing(A) \cup {None} /\ R[x].flow \in (flows \cup plan.flows) \cup {None}
  <2> SUFFICES ASSUME NEW x \in Existing(R)
               PROVE  /\ R[x].acct \in Existing(A) \cup {None}
                      /\ R[x].flow \in (flows \cup plan.flows) \cup {None}
    OBVIOUS
  <2>1. CASE x \in Existing(plan.rules)
    <3>1. R[x] = plan.rules[x] /\ R[x] = bundle.rules[x] /\ x \in Existing(bundle.rules)
      BY <1>3, <1>5, <2>1
    <3>2. R[x].acct \in Existing(accounts) \cup {None}
      BY <1>5, <2>1, <3>1
    <3>3. R[x].flow \in bundle.flows \cup {None}
      BY <1>4, <3>1 DEF Consistent
    <3> QED
      BY <1>2, <1>5, <3>2, <3>3
  <2>2. CASE x \notin Existing(plan.rules)
    <3>1. x \in Existing(rules) /\ R[x] = rules[x]
      BY <1>3, <2>2
    <3> QED
      BY <1>2, <1>4, <3>1 DEF Consistent
  <2> QED
    BY <2>1, <2>2
<1>8. Consistent(A, flows \cup plan.flows, R)
  BY <1>6, <1>7 DEF Consistent
<1>9. Existing(plan.rules) \cap Existing(rules) = {} /\ plan.flows \cap flows = {}
  BY <1>5
<1> QED
  BY <1>8, <1>9 DEF Insertable

\* The tables the plan was made from are the tables it is inserted into, as
\* long as nobody interferes.
THEOREM PlanIsCurrent == Spec => []PlanCurrent
<1>1. Init => PlanCurrent
  BY DEF Init, PlanCurrent
<1>2. PlanCurrent /\ [Next]_vars => PlanCurrent'
  BY PlanStaysCurrent
<1> QED
  BY <1>1, <1>2, PTL DEF Spec

\* An undisturbed import is rolled back for one reason only: the UUID of an
\* account of the file is in use under another address.
THEOREM ImportNotRolledBack == Spec => ImportSucceeds
<1>1. TypeOK /\ PlanCurrent /\ [Next]_vars =>
        [pc = "planned" /\ pc' = "rolledBack" =>
           raced \/ Existing(plan.accounts) \cap Existing(accounts) # {}]_vars
  <2> SUFFICES ASSUME TypeOK, PlanCurrent, [Next]_vars,
                      pc = "planned", pc' = "rolledBack", ~raced,
                      Existing(plan.accounts) \cap Existing(accounts) = {}
               PROVE  FALSE
    OBVIOUS
  <2>1. ImportBundle
    BY OnlyImportBundleEnds
  <2>2. Insertable
    BY CurrentPlanFits
  <2> QED
    BY <2>1, <2>2 DEF ImportBundle
<1> QED
  BY <1>1, TypeCorrect, PlanIsCurrent, PTL DEF Spec, ImportSucceeds

-----------------------------------------------------------------------------
\* After an undisturbed import nothing is missing that does not depend on an
\* account: the step that commits restores it, and until the next edit or
\* export nothing takes it away.
THEOREM NothingUnscopedLost == Spec => []UnscopedRestored
<1>1. Init => UnscopedRestored
  BY DEF Init, UnscopedRestored
<1>2. TypeOK /\ PlanCurrent /\ UnscopedRestored /\ [Next]_vars => UnscopedRestored'
  <2> SUFFICES ASSUME TypeOK, PlanCurrent, UnscopedRestored, [Next]_vars,
                      pc' = "done", ~raced'
               PROVE  UnscopedRestored'
    BY DEF UnscopedRestored
  <2>1. ~UserStep
    <3> SUFFICES ASSUME UserStep PROVE FALSE
      OBVIOUS
    <3>1. PICK e \in Edits : Edit(e)
      BY UserStepIsEdit
    <3>2. (pc = "planned" => pc' = "planned") /\ (pc # "planned" => pc' = "idle")
      BY <3>1, EditsRace
    <3> QED
      BY <3>2
  <2>2. ~Build /\ ~Plan
    BY DEF Build, Plan
  <2>3. CASE ImportBundle
    <3>1. /\ pc = "planned" /\ ~raced /\ Insertable
          /\ accounts' = Insert(accounts, plan.accounts)
          /\ flows' = flows \cup plan.flows
          /\ rules' = Insert(rules, plan.rules)
          /\ bundle' = bundle
      BY <2>3 DEF ImportBundle
    <3>2. /\ DOMAIN accounts = Ids /\ DOMAIN plan.accounts = Ids
          /\ DOMAIN rules = Rules /\ DOMAIN plan.rules = Rules
      BY DEF TypeOK, File
    <3>3. /\ \A i \in Ids : plan.accounts[i] # None => accounts'[i] = plan.accounts[i]
          /\ \A i \in Existing(accounts) : accounts'[i] = accounts[i]
      BY <3>1, <3>2 DEF Insert, Insertable, Existing
    <3>4. Existing(rules') = Existing(rules) \cup Existing(plan.rules)
      BY <3>1, <3>2, ExistingInsert
    <3>5. \A i \in Existing(bundle.accounts) : \E j \in Ids :
            accounts'[j] = bundle.accounts[i]
      <4> SUFFICES ASSUME NEW i \in Existing(bundle.accounts)
                   PROVE  \E j \in Ids : accounts'[j] = bundle.accounts[i]
        OBVIOUS
      <4>1. CASE i \in Existing(plan.accounts)
        <5>1. plan.accounts[i] = bundle.accounts[i]
          BY <3>1, <4>1, CurrentPlan
        <5> QED
          BY <3>2, <3>3, <4>1, <5>1 DEF Existing
      <4>2. CASE i \notin Existing(plan.accounts)
        <5>1. PICK j \in Ids : accounts[j] = bundle.accounts[i]
          BY <3>1, <4>2, CurrentPlan
        <5>2. j \in Existing(accounts)
          BY <3>2, <5>1 DEF Existing
        <5> QED
          BY <3>3, <5>1, <5>2
      <4> QED
        BY <4>1, <4>2
    <3>6. bundle.flows \subseteq flows'
      BY <3>1, CurrentPlan
    <3>7. \A r \in Existing(bundle.rules) :
            bundle.rules[r].acct = None => r \in Existing(rules')
      BY <3>1, <3>4, CurrentPlan
    <3> QED
      BY <3>1, <3>5, <3>6, <3>7 DEF UnscopedRestored, Existing
  <2>4. CASE UNCHANGED vars
    BY <2>4 DEF vars, tables, UnscopedRestored, Existing
  <2> QED
    BY <2>1, <2>2, <2>3, <2>4, NextCases
<1> QED
  BY <1>1, <1>2, TypeCorrect, PlanIsCurrent, PTL DEF Spec
=============================================================================
