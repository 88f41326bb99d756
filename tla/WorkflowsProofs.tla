--------------------------- MODULE WorkflowsProofs ---------------------------
(***************************************************************************)
(* Proofs about Workflows, for any number of messages, attachments, steps, *)
(* runs, edits and faults.                                                 *)
(***************************************************************************)
EXTENDS Workflows, WorkflowText, FiniteSetTheorems, SequenceTheorems, WellFoundedInduction, TLAPS

USE WorkflowsAssumption DEF WorkflowsAssumption

Early == {"idle", "load", "wipe", "make"}

\* A run is a record; what it does next fits where it is in the steps.
JobOK(j) ==
    /\ DOMAIN j = {"pc", "msg", "byRule", "archive", "ok", "step", "at", "unpacked", "used"}
    /\ j.pc \in PCs /\ j.msg \in Messages
    /\ j.pc \in Early \cup {"unpack"} => j.step = 1
    /\ j.pc \in {"wipe", "make", "unpack"} => Steps # <<>>
    /\ j.pc \in {"step", "saving", "script"} => j.step \in DOMAIN Steps
    /\ j.pc = "script" => Steps[j.step] = "script"
    /\ j.pc = "archive" => j.step = Len(Steps) + 1
    /\ j.pc = "saving" => Steps[j.step] = "save" /\ j.at \in 1..(Len(AttachOf[j.msg]) + 1)

JobsOK == DOMAIN job = Runs /\ \A r \in Runs : JobOK(job[r])

-----------------------------------------------------------------------------
(* The runs.                                                               *)

LEMMA StepsAre == /\ Len(Steps) \in Nat /\ DOMAIN Steps = 1..Len(Steps)
                  /\ Steps # <<>> => 1 \in DOMAIN Steps
                  /\ \A m \in Messages : Len(AttachOf[m]) \in Nat /\ DOMAIN AttachOf[m] = 1..Len(AttachOf[m])
  OBVIOUS

LEMMA IdleJob == JobOK(Idle) /\ Idle.pc = "idle" /\ Idle.unpacked = {}
<1>1. (CHOOSE m \in Messages : TRUE) \in Messages
  OBVIOUS
<1> QED
  BY <1>1 DEF Idle, JobOK, PCs, Early

LEMMA AfterJob ==
    ASSUME NEW j, JobOK(j), j.pc \in {"step", "saving", "script"}
    PROVE  /\ JobOK(After(j)) /\ After(j).pc \in {"step", "archive"}
           /\ After(j).step = j.step + 1 /\ After(j).ok = j.ok
           /\ After(j).msg = j.msg /\ After(j).unpacked = j.unpacked
           /\ j.step = Len(Steps) => After(j).pc = "archive"
<1>1. j.step \in 1..Len(Steps) /\ Len(Steps) \in Nat
  BY StepsAre DEF JobOK
<1>2. /\ DOMAIN After(j) = DOMAIN j
      /\ After(j).pc = (IF j.step = Len(Steps) THEN "archive" ELSE "step")
      /\ After(j).step = j.step + 1 /\ After(j).ok = j.ok
      /\ After(j).msg = j.msg /\ After(j).unpacked = j.unpacked
  BY DEF After, JobOK
<1>3. j.step # Len(Steps) => j.step + 1 \in DOMAIN Steps
  BY <1>1, StepsAre
<1> HIDE DEF After
<1> QED
  BY <1>1, <1>2, <1>3 DEF JobOK, PCs, Early

\* A step of one run leaves the others where they are.
LEMMA OneMoves ==
    ASSUME JobsOK, NEW r \in Runs, NEW k, job' = [job EXCEPT ![r] = k]
    PROVE  /\ DOMAIN job' = Runs /\ job'[r] = k
           /\ \A o \in Runs \ {r} : job'[o] = job[o]
           /\ JobOK(k) => JobsOK'
  BY DEF JobsOK

Moved(r, k) == job' = [job EXCEPT ![r] = k]

\* Where each step takes its run.
LEMMA StartMoves ==
    ASSUME JobsOK, NEW r \in Runs, NEW m \in Messages, NEW byRule \in BOOLEAN, Start(r, m, byRule)
    PROVE  \E k : Moved(r, k) /\ JobOK(k) /\ k.pc = "load" /\ k.unpacked = {}
<1> DEFINE k == [Idle EXCEPT !.pc = "load", !.msg = m, !.byRule = byRule, !.archive = flow.archive]
<1>1. JobOK(k) /\ k.pc = "load" /\ k.unpacked = {}
  BY DEF JobOK, Idle, PCs, Early
<1>2. Moved(r, k)
  BY DEF Start, Moved
<1> HIDE DEF k
<1> QED
  BY <1>1, <1>2

\* Steps that only change where a run stands.
LEMMA GotoMoved ==
    ASSUME JobsOK, NEW r \in Runs, NEW pc, Goto(r, pc)
    PROVE  LET k == [job[r] EXCEPT !.pc = pc]
           IN  /\ Moved(r, k) /\ DOMAIN k = DOMAIN job[r] /\ k.pc = pc
               /\ k.msg = job[r].msg /\ k.step = job[r].step /\ k.at = job[r].at
               /\ k.ok = job[r].ok /\ k.unpacked = job[r].unpacked /\ k.archive = job[r].archive
  BY DEF JobsOK, JobOK, Goto, Moved

LEMMA GotoMoves ==
    ASSUME JobsOK, NEW r \in Runs, NEW pc \in PCs, Goto(r, pc),
           pc \in Early \cup {"unpack"} => job[r].step = 1,
           pc \in {"wipe", "make", "unpack"} => Steps # <<>>,
           pc \in {"step", "script"} => job[r].step \in DOMAIN Steps,
           pc = "script" => Steps[job[r].step] = "script",
           pc = "archive" => job[r].step = Len(Steps) + 1,
           pc # "saving"
    PROVE  \E k : /\ Moved(r, k) /\ JobOK(k) /\ k.pc = pc
                  /\ k.msg = job[r].msg /\ k.step = job[r].step /\ k.ok = job[r].ok /\ k.unpacked = job[r].unpacked
<1> DEFINE k == [job[r] EXCEPT !.pc = pc]
<1>1. /\ Moved(r, k) /\ DOMAIN k = DOMAIN job[r] /\ k.pc = pc
      /\ k.msg = job[r].msg /\ k.step = job[r].step /\ k.at = job[r].at
      /\ k.ok = job[r].ok /\ k.unpacked = job[r].unpacked
  BY GotoMoved
<1> HIDE DEF k
<1>2. JobOK(job[r])
  BY DEF JobsOK
<1>3. JobOK(k)
  BY <1>1, <1>2 DEF JobOK
<1> QED
  BY <1>1, <1>3

LEMMA LoadMoves ==
    ASSUME JobsOK, NEW r \in Runs, Load(r)
    PROVE  \E k : /\ Moved(r, k) /\ JobOK(k)
                  /\ \/ k = Idle
                     \/ /\ k.pc \in {"wipe", "step", "archive"} /\ k.msg = job[r].msg /\ k.unpacked = job[r].unpacked
                        /\ k.step = 1
<1>1. CASE job' = [job EXCEPT ![r] = Idle]
  BY <1>1, IdleJob DEF Moved
<1>2. CASE Goto(r, IF "script" \in {Steps[s] : s \in DOMAIN Steps} THEN "wipe"
                   ELSE IF Steps = <<>> THEN "archive" ELSE "step")
  <2>1. job[r].step = 1
    BY DEF JobsOK, JobOK, Load, Early
  <2>2. CASE "script" \in {Steps[s] : s \in DOMAIN Steps}
    <3>1. Steps # <<>> /\ Goto(r, "wipe")
      BY <1>2, <2>2
    <3> QED
      BY <2>1, <3>1, GotoMoves DEF PCs
  <2>3. CASE "script" \notin {Steps[s] : s \in DOMAIN Steps} /\ Steps = <<>>
    <3>1. Len(Steps) = 0 /\ Goto(r, "archive")
      BY <1>2, <2>3
    <3> QED
      BY <2>1, <3>1, GotoMoves DEF PCs, Early
  <2>4. CASE "script" \notin {Steps[s] : s \in DOMAIN Steps} /\ Steps # <<>>
    <3>1. 1 \in DOMAIN Steps /\ Goto(r, "step")
      BY <1>2, <2>4, StepsAre
    <3> QED
      BY <2>1, <3>1, GotoMoves DEF PCs, Early
  <2> QED
    BY <2>2, <2>3, <2>4
<1> QED
  BY <1>1, <1>2 DEF Load

LEMMA WipeMoves ==
    ASSUME JobsOK, NEW r \in Runs, Wipe(r) \/ MakeDir(r)
    PROVE  \E k : /\ Moved(r, k) /\ JobOK(k) /\ k.pc \in {"make", "unpack"}
                  /\ k.msg = job[r].msg /\ k.unpacked = job[r].unpacked
                  /\ Wipe(r) => k.pc = "make"
<1>1. job[r].step = 1 /\ Steps # <<>> /\ (Goto(r, "make") \/ Goto(r, "unpack")) /\ (Wipe(r) => Goto(r, "make"))
  BY DEF JobsOK, JobOK, Wipe, MakeDir, Early
<1>2. CASE Goto(r, "make")
  BY <1>1, <1>2, GotoMoves DEF PCs
<1>3. CASE Goto(r, "unpack") /\ ~Wipe(r)
  BY <1>1, <1>3, GotoMoves DEF PCs
<1> QED
  BY <1>1, <1>2, <1>3

LEMMA UnpackMoves ==
    ASSUME JobsOK, NEW r \in Runs, Unpack(r)
    PROVE  \E k : /\ Moved(r, k) /\ JobOK(k) /\ k.msg = job[r].msg
                  /\ k.pc \in {"unpack", "step"} /\ k.step = 1
                  /\ \/ k.unpacked = {} /\ UNCHANGED temp
                     \/ k.unpacked = job[r].unpacked /\ UNCHANGED temp
                     \/ /\ k.unpacked = job[r].unpacked \cup {job[r].at}
                        /\ temp' = [temp EXCEPT ![job[r].msg] = @ \cup {job[r].at}]
<1> DEFINE j == job[r]
<1>1. JobOK(j) /\ j.pc = "unpack" /\ j.step = 1 /\ 1 \in DOMAIN Steps
  BY StepsAre DEF JobsOK, JobOK, Unpack, Early
<1>2. CASE /\ temp' = [temp EXCEPT ![j.msg] = @ \cup {j.at}]
           /\ job' = [job EXCEPT ![r].at = @ + 1, ![r].unpacked = @ \cup {j.at}]
  <2> DEFINE k == [j EXCEPT !.at = @ + 1, !.unpacked = @ \cup {j.at}]
  <2>1. Moved(r, k) /\ DOMAIN k = DOMAIN j /\ k.pc = "unpack" /\ k.msg = j.msg /\ k.step = 1 /\ k.unpacked = j.unpacked \cup {j.at}
    BY <1>1, <1>2 DEF Moved, JobOK, JobsOK
  <2> HIDE DEF k
  <2>2. JobOK(k)
    BY <1>1, <2>1 DEF JobOK, Early
  <2> QED
    BY <1>2, <2>1, <2>2
<1>3. CASE job' = [job EXCEPT ![r].pc = "step", ![r].unpacked = {}] /\ UNCHANGED temp
  <2> DEFINE k == [j EXCEPT !.pc = "step", !.unpacked = {}]
  <2>1. Moved(r, k) /\ DOMAIN k = DOMAIN j /\ k.pc = "step" /\ k.msg = j.msg /\ k.step = 1 /\ k.unpacked = {}
    BY <1>1, <1>3 DEF Moved, JobOK, JobsOK
  <2> HIDE DEF k
  <2>2. JobOK(k)
    BY <1>1, <2>1 DEF JobOK, Early, PCs
  <2> QED
    BY <1>3, <2>1, <2>2
<1>4. CASE job' = [job EXCEPT ![r].at = @ + 1] /\ UNCHANGED temp
  <2> DEFINE k == [j EXCEPT !.at = @ + 1]
  <2>1. Moved(r, k) /\ DOMAIN k = DOMAIN j /\ k.pc = "unpack" /\ k.msg = j.msg /\ k.step = 1 /\ k.unpacked = j.unpacked
    BY <1>1, <1>4 DEF Moved, JobOK, JobsOK
  <2> HIDE DEF k
  <2>2. JobOK(k)
    BY <1>1, <2>1 DEF JobOK, Early
  <2> QED
    BY <1>4, <2>1, <2>2
<1>5. CASE Goto(r, "step") /\ UNCHANGED temp
  <2>1. \E k : /\ Moved(r, k) /\ JobOK(k) /\ k.pc = "step"
               /\ k.msg = j.msg /\ k.step = j.step /\ k.ok = j.ok /\ k.unpacked = j.unpacked
    BY <1>1, <1>5, GotoMoves DEF PCs, Early
  <2> QED
    BY <1>1, <1>5, <2>1
<1> QED
  BY <1>2, <1>3, <1>4, <1>5 DEF Unpack

LEMMA DoneMoves ==
    ASSUME JobsOK, NEW r \in Runs, job[r].pc \in {"step", "saving", "script"}, Done(r)
    PROVE  \E k : /\ Moved(r, k) /\ JobOK(k) /\ k.pc \in {"step", "archive"}
                  /\ k.step = job[r].step + 1 /\ k.ok = job[r].ok
                  /\ k.msg = job[r].msg /\ k.unpacked = job[r].unpacked
<1>1. JobOK(job[r])
  BY DEF JobsOK
<1>2. Moved(r, After(job[r]))
  BY DEF Done, Moved, JobsOK
<1> QED
  BY <1>1, <1>2, AfterJob

LEMMA FailMoves ==
    ASSUME JobsOK, NEW r \in Runs, job[r].pc \in {"step", "saving", "script"}, Fail(r)
    PROVE  \E k : /\ Moved(r, k) /\ JobOK(k) /\ k.pc \in {"step", "archive"} /\ k.ok = FALSE
                  /\ k.msg = job[r].msg /\ k.unpacked = job[r].unpacked
<1> DEFINE j == job[r]
           f == [j EXCEPT !.ok = FALSE]
<1>1. JobOK(j)
  BY DEF JobsOK
<1>2. DOMAIN f = DOMAIN j /\ f.pc = j.pc /\ f.ok = FALSE /\ f.msg = j.msg /\ f.step = j.step /\ f.at = j.at /\ f.unpacked = j.unpacked
  BY <1>1 DEF JobOK
<1>3. Moved(r, After(f))
  BY DEF Fail, Moved, JobsOK
<1> HIDE DEF f
<1>4. JobOK(f)
  BY <1>1, <1>2 DEF JobOK
<1> QED
  BY <1>2, <1>3, <1>4, AfterJob

LEMMA ListTargetMoves ==
    ASSUME JobsOK, NEW r \in Runs, ListTarget(r)
    PROVE  \E k : /\ Moved(r, k) /\ JobOK(k) /\ k.msg = job[r].msg /\ k.unpacked = job[r].unpacked
                  /\ \/ /\ k.pc = "saving" /\ k.at = 1 /\ k.step = job[r].step /\ k.ok = job[r].ok
                        /\ \/ k.used = DOMAIN target
                           \/ k.used = {} /\ exposed' = saved
                     \/ k.pc \in {"step", "archive"} /\ k.ok = FALSE
<1> DEFINE j == job[r]
<1>1. JobOK(j) /\ j.pc = "step" /\ Steps[j.step] = "save"
  BY DEF ListTarget, At, JobsOK
<1>2. ASSUME NEW used, used = DOMAIN target \/ (used = {} /\ exposed' = saved),
             job' = [job EXCEPT ![r].pc = "saving", ![r].at = 1, ![r].used = used]
      PROVE  \E k : /\ Moved(r, k) /\ JobOK(k) /\ k.msg = j.msg /\ k.unpacked = j.unpacked
                    /\ k.pc = "saving" /\ k.at = 1 /\ k.step = j.step /\ k.ok = j.ok /\ k.used = used
  <2> DEFINE k == [j EXCEPT !.pc = "saving", !.at = 1, !.used = used]
  <2>1. /\ Moved(r, k) /\ DOMAIN k = DOMAIN j /\ k.pc = "saving" /\ k.at = 1 /\ k.msg = j.msg
        /\ k.step = j.step /\ k.ok = j.ok /\ k.unpacked = j.unpacked /\ k.used = used
    BY <1>1, <1>2 DEF Moved, JobOK, JobsOK
  <2> HIDE DEF k
  <2>2. 1 \in 1..(Len(AttachOf[j.msg]) + 1)
    BY <1>1, StepsAre DEF JobOK
  <2>3. JobOK(k)
    BY <1>1, <2>1, <2>2 DEF JobOK, Early, PCs
  <2> QED
    BY <2>1, <2>3
<1>3. CASE Fail(r)
  BY <1>1, <1>3, FailMoves
<1> QED
  BY <1>2, <1>3 DEF ListTarget, histories

LEMMA SaveOneMoves ==
    ASSUME JobsOK, NEW r \in Runs, SaveOne(r)
    PROVE  \E k : /\ Moved(r, k) /\ JobOK(k) /\ k.msg = job[r].msg /\ k.unpacked = job[r].unpacked
                  /\ k.pc = "saving" /\ k.at = job[r].at + 1 /\ k.step = job[r].step
                  /\ k.used = job[r].used \cup {FreeName(AttachOf[job[r].msg][job[r].at], job[r].used)}
                  /\ k.ok = FALSE \/ (k.ok = job[r].ok /\ <<job[r].msg, job[r].at>> \in saved')
<1> DEFINE j == job[r]
           f == FreeName(AttachOf[j.msg][j.at], j.used)
<1>1. JobOK(j) /\ j.pc = "saving" /\ j.at \in DOMAIN AttachOf[j.msg]
  BY DEF SaveOne, Saved, JobsOK
<1>2. j.at + 1 \in 1..(Len(AttachOf[j.msg]) + 1)
  BY <1>1, StepsAre DEF JobOK
<1>3. CASE /\ job' = [job EXCEPT ![r].at = @ + 1, ![r].used = @ \cup {f}]
           /\ saved' = saved \cup {<<j.msg, j.at>>}
  <2> HIDE DEF f
  <2> DEFINE k == [j EXCEPT !.at = @ + 1, !.used = @ \cup {f}]
  <2>1. /\ Moved(r, k) /\ DOMAIN k = DOMAIN j /\ k.pc = "saving" /\ k.at = j.at + 1 /\ k.msg = j.msg
        /\ k.step = j.step /\ k.ok = j.ok /\ k.unpacked = j.unpacked /\ k.used = j.used \cup {f}
    BY <1>1, <1>3 DEF Moved, JobOK, JobsOK
  <2> HIDE DEF k
  <2>2. JobOK(k)
    BY <1>1, <1>2, <2>1 DEF JobOK, Early, PCs
  <2> QED
    BY <1>3, <2>1, <2>2 DEF f
<1>4. CASE job' = [job EXCEPT ![r].at = @ + 1, ![r].used = @ \cup {f}, ![r].ok = FALSE]
  <2> HIDE DEF f
  <2> DEFINE k == [j EXCEPT !.at = @ + 1, !.used = @ \cup {f}, !.ok = FALSE]
  <2>1. /\ Moved(r, k) /\ DOMAIN k = DOMAIN j /\ k.pc = "saving" /\ k.at = j.at + 1 /\ k.msg = j.msg
        /\ k.step = j.step /\ k.ok = FALSE /\ k.unpacked = j.unpacked /\ k.used = j.used \cup {f}
    BY <1>1, <1>4 DEF Moved, JobOK, JobsOK
  <2> HIDE DEF k
  <2>2. JobOK(k)
    BY <1>1, <1>2, <2>1 DEF JobOK, Early, PCs
  <2> QED
    BY <2>1, <2>2 DEF f
<1> QED
  BY <1>3, <1>4 DEF SaveOne

LEMMA PassOverMoves ==
    ASSUME JobsOK, NEW r \in Runs, PassOver(r)
    PROVE  \E k : /\ Moved(r, k) /\ JobOK(k) /\ k.msg = job[r].msg /\ k.unpacked = job[r].unpacked
                  /\ k.ok = job[r].ok /\ job[r].at \notin Saved(job[r].msg)
                  /\ \/ k.pc = "saving" /\ k.at = job[r].at + 1 /\ k.step = job[r].step
                        /\ k.used = job[r].used
                     \/ /\ k.pc \in {"step", "archive"} /\ k.step = job[r].step + 1
                        /\ job[r].at = Len(AttachOf[job[r].msg]) + 1
<1> DEFINE j == job[r]
<1>1. JobOK(j) /\ j.pc = "saving" /\ j.at \notin Saved(j.msg)
  BY DEF PassOver, JobsOK
<1>2. CASE j.at \in DOMAIN AttachOf[j.msg]
  <2> DEFINE k == [j EXCEPT !.at = @ + 1]
  <2>1. /\ Moved(r, k) /\ DOMAIN k = DOMAIN j /\ k.pc = "saving" /\ k.at = j.at + 1 /\ k.msg = j.msg
        /\ k.step = j.step /\ k.ok = j.ok /\ k.unpacked = j.unpacked /\ k.used = j.used
    BY <1>1, <1>2 DEF PassOver, Moved, JobOK, JobsOK
  <2> HIDE DEF k
  <2>2. j.at + 1 \in 1..(Len(AttachOf[j.msg]) + 1)
    BY <1>1, <1>2, StepsAre DEF JobOK
  <2>3. JobOK(k)
    BY <1>1, <2>1, <2>2 DEF JobOK, Early, PCs
  <2> QED
    BY <1>1, <2>1, <2>3
<1>3. CASE j.at \notin DOMAIN AttachOf[j.msg]
  <2>1. j.at = Len(AttachOf[j.msg]) + 1
    <3>1. j.at \in 1..(Len(AttachOf[j.msg]) + 1)
      BY <1>1 DEF JobOK
    <3>2. Len(AttachOf[j.msg]) \in Nat /\ j.at \notin 1..Len(AttachOf[j.msg])
      BY <1>1, <1>3, StepsAre DEF JobOK
    <3> QED
      BY <3>1, <3>2
  <2>2. Done(r)
    BY <1>3 DEF PassOver
  <2> HIDE DEF j
  <2> QED
    BY <1>1, <2>1, <2>2, DoneMoves DEF j
<1> QED
  BY <1>2, <1>3

\* The steps that save no attachment, and the ends of a script.
LEMMA OtherStepMoves ==
    ASSUME JobsOK, NEW r \in Runs, SaveBody(r) \/ ScriptStart(r) \/ ScriptEnd(r)
    PROVE  /\ job[r].pc \in {"step", "script"}
           /\ \E k : /\ Moved(r, k) /\ JobOK(k) /\ k.msg = job[r].msg /\ k.unpacked = job[r].unpacked
                     /\ \/ k.pc = "script" /\ k.step = job[r].step /\ k.ok = job[r].ok
                        \/ k.pc \in {"step", "archive"} /\ k.ok = FALSE
                        \/ /\ k.pc \in {"step", "archive"} /\ k.ok = job[r].ok /\ k.step = job[r].step + 1
                           /\ Steps[job[r].step] # "save"
<1> DEFINE j == job[r]
<1>1. JobOK(j) /\ j.pc \in {"step", "script"} /\ j.step \in DOMAIN Steps /\ Steps[j.step] # "save"
  BY DEF JobsOK, JobOK, SaveBody, ScriptStart, ScriptEnd, At
<1>2. Done(r) \/ Fail(r) \/ (Goto(r, "script") /\ Steps[j.step] = "script")
  BY DEF SaveBody, ScriptStart, ScriptEnd, At
<1> HIDE DEF j
<1>3. CASE Done(r)
  BY <1>1, <1>3, DoneMoves DEF j
<1>4. CASE Fail(r)
  BY <1>1, <1>4, FailMoves DEF j
<1>5. CASE Goto(r, "script") /\ Steps[j.step] = "script"
  <2>1. \E k : /\ Moved(r, k) /\ JobOK(k) /\ k.pc = "script"
               /\ k.msg = j.msg /\ k.step = j.step /\ k.ok = j.ok /\ k.unpacked = j.unpacked
    BY <1>1, <1>5, GotoMoves DEF PCs, Early, j
  <2> QED
    BY <1>1, <2>1 DEF j
<1> QED
  BY <1>2, <1>3, <1>4, <1>5

LEMMA EndMoves ==
    ASSUME JobsOK, NEW r \in Runs, Archive(r) \/ Record(r) \/ Hit(r)
    PROVE  \E k : /\ Moved(r, k) /\ JobOK(k)
                  /\ k = Idle \/ (k.pc \in {"record", "hit"} /\ k.msg = job[r].msg /\ k.unpacked = job[r].unpacked)
<1>1. CASE job' = [job EXCEPT ![r] = Idle]
  BY <1>1, IdleJob DEF Moved
<1>2. CASE Goto(r, "record")
  BY <1>2, GotoMoves DEF PCs, Early
<1>3. CASE Goto(r, "hit")
  BY <1>3, GotoMoves DEF PCs, Early
<1> QED
  BY <1>1, <1>2, <1>3 DEF Archive, Record, Hit

-----------------------------------------------------------------------------
(* The invariants of the runs, and the shape of their steps.               *)

Edits ==
    \/ CommandRead \/ ApplyToExisting \/ DeleteFlow \/ DeleteRule
    \/ \E enabled, archive \in BOOLEAN : EditFlow(enabled, archive)
    \/ \E bound \in BOOLEAN : EditRule(bound)

LEMMA NextIs ==
    ASSUME [Next]_vars
    PROVE  (\E r \in Runs : Step(r)) \/ Edits \/ Restart \/ UNCHANGED vars
  BY DEF Next, Edits

LEMMA JobsMove ==
    ASSUME JobsOK, NEW r \in Runs, Step(r)
    PROVE  \E k : Moved(r, k) /\ JobOK(k)
<1>1. CASE \E m \in Messages, byRule \in BOOLEAN : Start(r, m, byRule)
  BY <1>1, StartMoves
<1>2. CASE Load(r)
  BY <1>2, LoadMoves
<1>3. CASE Wipe(r) \/ MakeDir(r)
  BY <1>3, WipeMoves
<1>4. CASE Unpack(r)
  BY <1>4, UnpackMoves
<1>5. CASE ListTarget(r)
  BY <1>5, ListTargetMoves
<1>6. CASE SaveOne(r)
  BY <1>6, SaveOneMoves
<1>7. CASE PassOver(r)
  BY <1>7, PassOverMoves
<1>8. CASE SaveBody(r) \/ ScriptStart(r) \/ ScriptEnd(r)
  BY <1>8, OtherStepMoves
<1>9. CASE Archive(r) \/ Record(r) \/ Hit(r)
  BY <1>9, EndMoves
<1> QED
  BY <1>1, <1>2, <1>3, <1>4, <1>5, <1>6, <1>7, <1>8, <1>9 DEF Step

LEMMA NextJobs == JobsOK /\ [Next]_vars => JobsOK'
<1> SUFFICES ASSUME JobsOK, [Next]_vars PROVE JobsOK'
  OBVIOUS
<1>1. ASSUME NEW r \in Runs, Step(r) PROVE JobsOK'
  BY <1>1, JobsMove, OneMoves DEF Moved
<1>2. CASE Restart
  BY <1>2, IdleJob DEF Restart, JobsOK
<1>3. CASE Edits \/ UNCHANGED vars
  <2>1. job' = job
    BY <1>3 DEF Edits, CommandRead, ApplyToExisting, EditRule, DeleteFlow, DeleteRule, EditFlow, vars
  <2> QED
    BY <2>1 DEF JobsOK
<1> QED
  BY <1>1, <1>2, <1>3, NextIs

LEMMA InitJobs == Init => JobsOK
  BY IdleJob DEF Init, JobsOK

\* A run that shares its directory with no other run of its message finds there
\* what it unpacked; before it has made the directory it has unpacked nothing.
JobFiles(r) ==
    /\ r \notin shared => job[r].unpacked \subseteq temp[job[r].msg]
    /\ job[r].pc \in Early => job[r].unpacked = {}

FilesInv == DOMAIN temp = Messages /\ \A r \in Runs : JobFiles(r)

\* A step of run r that takes no file away.
LEMMA QuietFiles ==
    ASSUME JobsOK, FilesInv, NEW r \in Runs, NEW k, Moved(r, k),
           DOMAIN temp' = Messages, \A m \in Messages : temp[m] \subseteq temp'[m],
           shared \ {r} \subseteq shared',
           \/ k.unpacked = {}
           \/ /\ r \in shared' \/ r \notin shared
              /\ k.msg = job[r].msg /\ k.pc \notin Early
              /\ k.unpacked \subseteq job[r].unpacked \cup temp'[k.msg]
    PROVE  FilesInv'
<1>1. job'[r] = k /\ \A o \in Runs \ {r} : job'[o] = job[o]
  BY OneMoves DEF Moved
<1>2. \A o \in Runs : JobFiles(o) /\ job[o].msg \in Messages
  BY DEF FilesInv, JobsOK, JobOK
<1>3. ASSUME NEW o \in Runs \ {r} PROVE JobFiles(o)'
  BY <1>1, <1>2, <1>3 DEF JobFiles
<1>4. JobFiles(r)'
  BY <1>1, <1>2 DEF JobFiles
<1> QED
  BY <1>3, <1>4 DEF FilesInv

LEMMA StepFiles ==
    ASSUME JobsOK, FilesInv, NEW r \in Runs, Step(r)
    PROVE  FilesInv'
<1> USE DEF files, rows, histories
<1>0. \A o \in Runs : JobFiles(o) /\ JobOK(job[o])
  BY DEF FilesInv, JobsOK
<1>1. CASE \E m \in Messages, byRule \in BOOLEAN : Start(r, m, byRule)
  <2>1. UNCHANGED temp /\ shared' = shared \ {r}
    BY <1>1 DEF Start
  <2>2. PICK k : Moved(r, k) /\ k.unpacked = {}
    BY <1>1, StartMoves
  <2> QED
    BY <2>1, <2>2, QuietFiles DEF FilesInv
<1>2. CASE Load(r)
  <2>1. UNCHANGED <<temp, shared>> /\ job[r].unpacked = {}
    BY <1>0, <1>2 DEF Load, JobFiles, Early
  <2>2. PICK k : Moved(r, k) /\ k.unpacked = {}
    BY <1>2, <2>1, LoadMoves, IdleJob
  <2> QED
    BY <2>1, <2>2, QuietFiles DEF FilesInv
<1>3. CASE Wipe(r)
  <2> DEFINE m == job[r].msg
  <2>1. /\ job[r].pc = "wipe" /\ temp' = [temp EXCEPT ![m] = {}]
        /\ shared' = shared \cup {o \in Runs \ {r} : job[o].msg = m /\ job[o].pc # "idle"}
    BY <1>3 DEF Wipe
  <2>2. PICK k : Moved(r, k) /\ k.unpacked = {}
    BY <1>0, <1>3, <2>1, WipeMoves DEF JobFiles, Early
  <2>3. job'[r] = k /\ \A o \in Runs \ {r} : job'[o] = job[o]
    BY <2>2, OneMoves DEF Moved
  <2>4. JobFiles(r)'
    BY <2>2, <2>3 DEF JobFiles
  <2>5. ASSUME NEW o \in Runs \ {r} PROVE JobFiles(o)'
    <3>1. JobFiles(o) /\ job[o].msg \in Messages /\ job'[o] = job[o]
      BY <1>0, <2>3 DEF JobOK
    <3>2. CASE job[o].msg = m /\ job[o].pc # "idle"
      BY <2>1, <3>1, <3>2 DEF JobFiles
    <3>3. CASE job[o].msg = m /\ job[o].pc = "idle"
      BY <3>1, <3>3 DEF JobFiles, Early
    <3>4. CASE job[o].msg # m
      <4>1. temp'[job[o].msg] = temp[job[o].msg]
        BY <2>1, <3>1, <3>4 DEF FilesInv
      <4> QED
        BY <2>1, <3>1, <4>1 DEF JobFiles
    <3> QED
      BY <3>2, <3>3, <3>4
  <2>6. DOMAIN temp' = Messages
    BY <2>1 DEF FilesInv
  <2> QED
    BY <2>4, <2>5, <2>6 DEF FilesInv
<1>4. CASE MakeDir(r)
  <2>1. temp' = [temp EXCEPT ![job[r].msg] = @ \cup {0}] /\ UNCHANGED shared /\ job[r].unpacked = {}
    BY <1>0, <1>4 DEF MakeDir, JobFiles, Early
  <2>2. PICK k : Moved(r, k) /\ k.unpacked = {}
    BY <1>4, <2>1, WipeMoves
  <2>3. DOMAIN temp' = Messages /\ \A m \in Messages : temp[m] \subseteq temp'[m]
    BY <2>1 DEF FilesInv
  <2> QED
    BY <2>1, <2>2, <2>3, QuietFiles
<1>5. CASE Unpack(r)
  <2>1. UNCHANGED shared /\ job[r].msg \in Messages
    BY <1>0, <1>5 DEF Unpack, JobOK
  <2>2. PICK k : /\ Moved(r, k) /\ k.msg = job[r].msg /\ k.pc \in {"unpack", "step"}
                 /\ \/ k.unpacked = {} /\ UNCHANGED temp
                    \/ k.unpacked = job[r].unpacked /\ UNCHANGED temp
                    \/ /\ k.unpacked = job[r].unpacked \cup {job[r].at}
                       /\ temp' = [temp EXCEPT ![job[r].msg] = @ \cup {job[r].at}]
    BY <1>5, UnpackMoves
  <2>3. DOMAIN temp' = Messages /\ \A m \in Messages : temp[m] \subseteq temp'[m]
    BY <2>2 DEF FilesInv
  <2>4. k.unpacked = {} \/ (k.pc \notin Early /\ k.unpacked \subseteq job[r].unpacked \cup temp'[k.msg])
    BY <2>1, <2>2 DEF FilesInv, Early
  <2> QED
    BY <2>1, <2>2, <2>3, <2>4, QuietFiles
<1>6. CASE ListTarget(r) \/ SaveOne(r) \/ PassOver(r) \/ SaveBody(r) \/ ScriptStart(r) \/ ScriptEnd(r)
  <2>1. UNCHANGED <<temp, shared>>
    BY <1>6 DEF ListTarget, SaveOne, PassOver, SaveBody, ScriptStart, ScriptEnd
  <2>2. PICK k : /\ Moved(r, k) /\ k.msg = job[r].msg /\ k.unpacked = job[r].unpacked
                 /\ k.pc \in {"saving", "step", "archive", "script"}
    <3>1. CASE ListTarget(r)
      BY <3>1, ListTargetMoves
    <3>2. CASE SaveOne(r)
      BY <3>2, SaveOneMoves
    <3>3. CASE PassOver(r)
      BY <3>3, PassOverMoves
    <3>4. CASE SaveBody(r) \/ ScriptStart(r) \/ ScriptEnd(r)
      BY <3>4, OtherStepMoves
    <3> QED
      BY <1>6, <3>1, <3>2, <3>3, <3>4
  <2>3. k.pc \notin Early
    BY <2>2 DEF Early
  <2> QED
    BY <2>1, <2>2, <2>3, QuietFiles DEF FilesInv
<1>7. CASE Archive(r) \/ Record(r) \/ Hit(r)
  <2>1. UNCHANGED <<temp, shared>>
    BY <1>7 DEF Archive, Record, Hit
  <2>2. PICK k : /\ Moved(r, k)
                 /\ k = Idle \/ (k.pc \in {"record", "hit"} /\ k.msg = job[r].msg /\ k.unpacked = job[r].unpacked)
    BY <1>7, EndMoves
  <2>3. k.unpacked = {} \/ (k.pc \notin Early /\ k.msg = job[r].msg /\ k.unpacked = job[r].unpacked)
    BY <2>2, IdleJob DEF Early
  <2> QED
    BY <2>1, <2>2, <2>3, QuietFiles DEF FilesInv
<1> QED
  BY <1>1, <1>2, <1>3, <1>4, <1>5, <1>6, <1>7 DEF Step

\* A run whose directory no other run of its message wiped finds every file it
\* unpacked as long as its script runs (workflows.rs, the directory of a run).
THEOREM ScriptsSeeTheirFiles == Spec => []RunSeesItsFiles
<1>1. Init => JobsOK /\ FilesInv
  BY InitJobs, IdleJob DEF Init, FilesInv, JobFiles
<1>2. JobsOK /\ FilesInv /\ [Next]_vars => (JobsOK /\ FilesInv)'
  <2> SUFFICES ASSUME JobsOK, FilesInv, [Next]_vars PROVE FilesInv'
    BY NextJobs
  <2>1. ASSUME NEW r \in Runs, Step(r) PROVE FilesInv'
    BY <2>1, StepFiles
  <2>2. CASE Restart
    <3>1. UNCHANGED <<temp, shared>> /\ \A r \in Runs : job'[r] = Idle
      BY <2>2 DEF Restart, files, histories
    <3> QED
      BY <3>1, IdleJob DEF FilesInv, JobFiles
  <2>3. CASE Edits \/ UNCHANGED vars
    <3>1. UNCHANGED <<job, temp, shared>>
      BY <2>3 DEF Edits, CommandRead, ApplyToExisting, EditRule, DeleteFlow, DeleteRule, EditFlow, vars, files, histories
    <3> QED
      BY <3>1 DEF FilesInv, JobFiles
  <2> QED
    BY <2>1, <2>2, <2>3, NextIs
<1>3. JobsOK /\ FilesInv => RunSeesItsFiles
  BY DEF FilesInv, JobFiles, RunSeesItsFiles
<1> QED
  BY <1>1, <1>2, <1>3, PTL DEF Spec

-----------------------------------------------------------------------------
(* What is archived was saved.                                             *)

SaveBefore(n) == \E s \in DOMAIN Steps : s < n /\ Steps[s] = "save"
AllSaved(m, S) == \A i \in Saved(m) : <<m, i>> \in S

\* What a run that has not failed yet has written.
JobSaves(j, S) ==
    j.ok =>
        /\ j.pc = "saving" => \A i \in Saved(j.msg) : i < j.at => <<j.msg, i>> \in S
        /\ j.pc \in {"step", "saving", "script", "archive"} /\ SaveBefore(j.step) => AllSaved(j.msg, S)

SavesInv ==
    /\ \A r \in Runs : JobSaves(job[r], saved)
    /\ \A m \in archived : "save" \in {Steps[s] : s \in DOMAIN Steps} => AllSaved(m, saved)

LEMMA SavedMore ==
    ASSUME NEW j, NEW S, NEW T, S \subseteq T, JobSaves(j, S)
    PROVE  JobSaves(j, T)
  BY DEF JobSaves, AllSaved

LEMMA SavesStep ==
    ASSUME JobsOK, SavesInv, NEW r \in Runs, NEW k, Moved(r, k), saved \subseteq saved', JobSaves(k, saved'),
           \A m \in archived' \ archived : "save" \in {Steps[s] : s \in DOMAIN Steps} => AllSaved(m, saved)
    PROVE  SavesInv'
<1>1. job'[r] = k /\ \A o \in Runs \ {r} : job'[o] = job[o]
  BY OneMoves DEF Moved
<1>2. \A o \in Runs : JobSaves(job'[o], saved')
  BY <1>1, SavedMore DEF SavesInv
<1>3. \A m \in archived' : "save" \in {Steps[s] : s \in DOMAIN Steps} => AllSaved(m, saved')
  BY DEF SavesInv, AllSaved
<1> QED
  BY <1>2, <1>3 DEF SavesInv

\* After a step that saves no attachment there is no more to have saved.
LEMMA SaveBeforeNext ==
    ASSUME NEW n \in DOMAIN Steps, Steps[n] # "save", SaveBefore(n + 1)
    PROVE  SaveBefore(n)
<1>1. PICK s \in DOMAIN Steps : s < n + 1 /\ Steps[s] = "save"
  BY DEF SaveBefore
<1>2. s # n /\ s < n
  BY <1>1, StepsAre
<1> QED
  BY <1>1, <1>2 DEF SaveBefore

LEMMA StepSaves ==
    ASSUME JobsOK, SavesInv, NEW r \in Runs, Step(r)
    PROVE  SavesInv'
<1> USE DEF files, rows, histories
<1> DEFINE j == job[r]
<1>0. JobSaves(j, saved) /\ JobOK(j)
  BY DEF SavesInv, JobsOK
<1>1. ASSUME UNCHANGED <<saved, archived>>, NEW k, Moved(r, k),
             k.ok => k.pc \notin {"step", "saving", "script", "archive"} \/ (k.pc # "saving" /\ ~SaveBefore(k.step))
      PROVE  SavesInv'
  <2>1. JobSaves(k, saved')
    BY <1>1 DEF JobSaves
  <2> QED
    BY <1>1, <2>1, SavesStep
<1>2. ~SaveBefore(1)
  BY StepsAre DEF SaveBefore
<1>3. CASE \E m \in Messages, byRule \in BOOLEAN : Start(r, m, byRule)
  <2>1. UNCHANGED <<saved, archived>>
    BY <1>3 DEF Start
  <2> QED
    BY <1>1, <1>3, <2>1, StartMoves
<1>4. CASE Load(r)
  <2>1. UNCHANGED <<saved, archived>>
    BY <1>4 DEF Load
  <2>2. PICK k : Moved(r, k) /\ (k = Idle \/ (k.pc \in {"wipe", "step", "archive"} /\ k.step = 1))
    BY <1>4, LoadMoves
  <2> QED
    BY <1>1, <1>2, <2>1, <2>2, IdleJob
<1>5. CASE Wipe(r) \/ MakeDir(r)
  <2>1. UNCHANGED <<saved, archived>>
    BY <1>5 DEF Wipe, MakeDir
  <2>2. PICK k : Moved(r, k) /\ k.pc \in {"make", "unpack"}
    BY <1>5, WipeMoves
  <2> QED
    BY <1>1, <2>1, <2>2
<1>6. CASE Unpack(r)
  <2>1. UNCHANGED <<saved, archived>>
    BY <1>6 DEF Unpack
  <2>2. PICK k : Moved(r, k) /\ k.pc \in {"unpack", "step"} /\ k.step = 1
    BY <1>6, UnpackMoves
  <2> QED
    BY <1>1, <1>2, <2>1, <2>2
<1>7. CASE ListTarget(r)
  <2>1. UNCHANGED <<saved, archived>> /\ j.pc = "step"
    BY <1>7 DEF ListTarget, At
  <2>2. PICK k : /\ Moved(r, k) /\ JobOK(k) /\ k.msg = j.msg
                 /\ \/ k.pc = "saving" /\ k.at = 1 /\ k.step = j.step /\ k.ok = j.ok
                    \/ k.pc \in {"step", "archive"} /\ k.ok = FALSE
    BY <1>7, ListTargetMoves
  <2>3. \A i \in Saved(k.msg) : ~(i < 1)
    BY <1>0, <2>2, StepsAre DEF Saved, JobOK
  <2>4. JobSaves(k, saved')
    <3> HIDE DEF j
    <3> QED
      BY <1>0, <2>1, <2>2, <2>3 DEF JobSaves
  <2> QED
    BY <2>1, <2>2, <2>4, SavesStep
<1>8. CASE SaveOne(r)
  <2>1. UNCHANGED archived /\ saved \subseteq saved' /\ j.pc = "saving"
    BY <1>8 DEF SaveOne
  <2>2. PICK k : /\ Moved(r, k) /\ JobOK(k) /\ k.msg = j.msg
                 /\ k.pc = "saving" /\ k.at = j.at + 1 /\ k.step = j.step
                 /\ k.ok = FALSE \/ (k.ok = j.ok /\ <<j.msg, j.at>> \in saved')
    BY <1>8, SaveOneMoves
  <2>3. JobSaves(j, saved') /\ j.at \in Nat /\ (\A i \in Saved(j.msg) : i \in Nat)
    BY <1>0, <2>1, SavedMore, StepsAre DEF JobOK, Saved
  <2>4. JobSaves(k, saved')
    <3> HIDE DEF j
    <3>1. CASE k.ok = FALSE
      BY <3>1 DEF JobSaves
    <3>2. CASE k.ok = j.ok /\ <<j.msg, j.at>> \in saved'
      <4> SUFFICES ASSUME k.ok PROVE JobSaves(k, saved')
        BY DEF JobSaves
      <4>1. /\ \A i \in Saved(j.msg) : i < j.at => <<j.msg, i>> \in saved'
            /\ SaveBefore(j.step) => AllSaved(j.msg, saved')
        BY <2>1, <2>3, <3>2 DEF JobSaves
      <4>2. \A i \in Saved(j.msg) : i < j.at + 1 => <<j.msg, i>> \in saved'
        <5>1. ASSUME NEW i \in Saved(j.msg), i < j.at + 1 PROVE <<j.msg, i>> \in saved'
          <6>1. i = j.at \/ i < j.at
            BY <2>3, <5>1
          <6> QED
            BY <3>2, <4>1, <6>1
        <5> QED
          BY <5>1
      <4> QED
        BY <2>2, <4>1, <4>2 DEF JobSaves
    <3> QED
      BY <2>2, <3>1, <3>2
  <2> QED
    BY <2>1, <2>2, <2>4, SavesStep
<1>9. CASE PassOver(r)
  <2>1. UNCHANGED <<saved, archived>> /\ j.pc = "saving"
    BY <1>9 DEF PassOver
  <2>2. PICK k : /\ Moved(r, k) /\ k.msg = j.msg /\ k.ok = j.ok /\ j.at \notin Saved(j.msg)
                 /\ \/ k.pc = "saving" /\ k.at = j.at + 1 /\ k.step = j.step
                    \/ /\ k.pc \in {"step", "archive"} /\ k.step = j.step + 1
                       /\ j.at = Len(AttachOf[j.msg]) + 1
    BY <1>9, PassOverMoves
  <2>3. j.at \in Nat /\ \A i \in Saved(j.msg) : i \in 1..Len(AttachOf[j.msg]) /\ Len(AttachOf[j.msg]) \in Nat
    BY <1>0, <2>1, StepsAre DEF JobOK, Saved
  <2> SUFFICES ASSUME k.ok PROVE JobSaves(k, saved)
    BY <2>1, <2>2, SavesStep DEF JobSaves
  <2> HIDE DEF j
  <2>4. /\ \A i \in Saved(j.msg) : i < j.at => <<j.msg, i>> \in saved
        /\ SaveBefore(j.step) => AllSaved(j.msg, saved)
    BY <1>0, <2>1, <2>2 DEF JobSaves
  <2>5. CASE k.pc = "saving" /\ k.at = j.at + 1 /\ k.step = j.step
    <3>1. \A i \in Saved(j.msg) : i < j.at + 1 => <<j.msg, i>> \in saved
      <4>1. ASSUME NEW i \in Saved(j.msg), i < j.at + 1 PROVE <<j.msg, i>> \in saved
        <5>1. i # j.at /\ i < j.at
          BY <2>2, <2>3, <4>1
        <5> QED
          BY <2>4, <5>1
      <4> QED
        BY <4>1
    <3> QED
      BY <2>2, <2>4, <2>5, <3>1 DEF JobSaves
  <2>6. CASE k.pc \in {"step", "archive"} /\ j.at = Len(AttachOf[j.msg]) + 1
    <3>1. \A i \in Saved(j.msg) : i < j.at
      BY <2>3, <2>6
    <3>2. AllSaved(j.msg, saved)
      BY <2>4, <3>1 DEF AllSaved
    <3> QED
      BY <2>2, <2>6, <3>2 DEF JobSaves
  <2> QED
    BY <2>2, <2>5, <2>6
<1>10. CASE SaveBody(r) \/ ScriptStart(r) \/ ScriptEnd(r)
  <2>1. UNCHANGED <<saved, archived>>
    BY <1>10 DEF SaveBody, ScriptStart, ScriptEnd
  <2>2. j.pc \in {"step", "script"}
    BY <1>10, OtherStepMoves
  <2>3. PICK k : /\ Moved(r, k) /\ k.msg = j.msg
                 /\ \/ k.pc = "script" /\ k.step = j.step /\ k.ok = j.ok
                    \/ k.pc \in {"step", "archive"} /\ k.ok = FALSE
                    \/ /\ k.pc \in {"step", "archive"} /\ k.ok = j.ok /\ k.step = j.step + 1
                       /\ Steps[j.step] # "save"
    BY <1>10, OtherStepMoves
  <2>4. j.step \in DOMAIN Steps
    BY <1>0, <2>2 DEF JobOK
  <2> SUFFICES ASSUME k.ok PROVE JobSaves(k, saved)
    BY <2>1, <2>3, SavesStep DEF JobSaves
  <2> HIDE DEF j
  <2>5. k.ok = j.ok /\ (SaveBefore(k.step) => SaveBefore(j.step))
    BY <2>3, <2>4, SaveBeforeNext
  <2>6. SaveBefore(j.step) => AllSaved(j.msg, saved)
    BY <1>0, <2>2, <2>5 DEF JobSaves
  <2> QED
    BY <2>3, <2>5, <2>6 DEF JobSaves
<1>11. CASE Archive(r) \/ Record(r) \/ Hit(r)
  <2>1. saved' = saved
    BY <1>11 DEF Archive, Record, Hit
  <2>2. PICK k : Moved(r, k) /\ (k = Idle \/ k.pc \in {"record", "hit"})
    BY <1>11, EndMoves
  <2>3. JobSaves(k, saved')
    BY <2>2, IdleJob DEF JobSaves
  <2>4. ASSUME NEW m \in archived' \ archived, "save" \in {Steps[s] : s \in DOMAIN Steps}
        PROVE  AllSaved(m, saved)
    <3>1. j.pc = "archive" /\ j.ok /\ m = j.msg
      BY <1>11, <2>4 DEF Archive, Record, Hit
    <3>2. SaveBefore(j.step)
      BY <1>0, <2>4, <3>1, StepsAre DEF SaveBefore, JobOK
    <3> HIDE DEF j
    <3> QED
      BY <1>0, <3>1, <3>2 DEF JobSaves
  <2> QED
    BY <2>1, <2>2, <2>3, <2>4, SavesStep
<1> QED
  BY <1>3, <1>4, <1>5, <1>6, <1>7, <1>8, <1>9, <1>10, <1>11 DEF Step

\* A run archives a mail only after every attachment the filter lets through was
\* written (archive_after_success, workflows.rs).
THEOREM ArchivedMailsAreSaved == Spec => []ArchivedIsSaved
<1>1. Init => JobsOK /\ SavesInv
  BY InitJobs, IdleJob DEF Init, SavesInv, JobSaves
<1>2. JobsOK /\ SavesInv /\ [Next]_vars => (JobsOK /\ SavesInv)'
  <2> SUFFICES ASSUME JobsOK, SavesInv, [Next]_vars PROVE SavesInv'
    BY NextJobs
  <2>1. ASSUME NEW r \in Runs, Step(r) PROVE SavesInv'
    BY <2>1, StepSaves
  <2>2. CASE Restart
    <3>1. UNCHANGED <<saved, archived>> /\ \A r \in Runs : job'[r] = Idle
      BY <2>2 DEF Restart, files, histories
    <3> QED
      BY <3>1, IdleJob DEF SavesInv, JobSaves
  <2>3. CASE Edits \/ UNCHANGED vars
    <3>1. UNCHANGED <<job, saved, archived>>
      BY <2>3 DEF Edits, CommandRead, ApplyToExisting, EditRule, DeleteFlow, DeleteRule, EditFlow, vars, files, histories
    <3> QED
      BY <3>1 DEF SavesInv
  <2> QED
    BY <2>1, <2>2, <2>3, NextIs
<1>3. SavesInv => ArchivedIsSaved
  BY DEF SavesInv, ArchivedIsSaved, AllSaved
<1> QED
  BY <1>1, <1>2, <1>3, PTL DEF Spec

-----------------------------------------------------------------------------
(* The counters.                                                           *)

CountersInv ==
    /\ flow \in [there : BOOLEAN, enabled : BOOLEAN, archive : BOOLEAN, count : Nat]
    /\ rule \in [there : BOOLEAN, bound : BOOLEAN, hits : Nat]
    /\ counted \in [runs : Nat, hits : Nat]
    /\ Cardinality(Pending) <= counted.hits
    /\ CountersAgree

LEMMA PendingIs == IsFiniteSet(Pending) /\ Cardinality(Pending) \in Nat
<1>1. Pending \subseteq Runs
  BY DEF Pending
<1> QED
  BY <1>1, FS_Subset, FS_CardinalityType

\* The set of those waiting changes with a step of r by r alone.
LEMMA PendingMoves ==
    ASSUME JobsOK, NEW r \in Runs, NEW k, Moved(r, k)
    PROVE  Pending' = IF k.pc = "hit" THEN Pending \cup {r} ELSE Pending \ {r}
<1>1. job'[r] = k /\ \A o \in Runs \ {r} : job'[o] = job[o]
  BY OneMoves DEF Moved
<1> QED
  BY <1>1 DEF Pending

\* A step that counts nothing, of a run that does not wait before it nor after it.
LEMMA QuietCounters ==
    ASSUME JobsOK, CountersInv, UNCHANGED <<flow, rule, counted>>, NEW r \in Runs, NEW k, Moved(r, k),
           job[r].pc # "hit", k.pc # "hit"
    PROVE  CountersInv'
<1>1. Pending' = Pending
  <2>1. Pending' = Pending \ {r} /\ r \notin Pending
    BY PendingMoves DEF Pending
  <2> QED
    BY <2>1
<1> QED
  BY <1>1, PendingIs DEF CountersInv, CountersAgree

LEMMA FlowCounts ==
    ASSUME CountersInv, flow' = IF flow.there THEN [flow EXCEPT !.count = @ + 1] ELSE flow
    PROVE  /\ flow' \in [there : BOOLEAN, enabled : BOOLEAN, archive : BOOLEAN, count : Nat]
           /\ flow'.there = flow.there
           /\ flow'.count = IF flow.there THEN flow.count + 1 ELSE flow.count
<1>1. flow \in [there : BOOLEAN, enabled : BOOLEAN, archive : BOOLEAN, count : Nat]
  BY DEF CountersInv
<1>2. CASE flow.there
  <2> DEFINE g == [flow EXCEPT !.count = @ + 1]
  <2>1. g \in [there : BOOLEAN, enabled : BOOLEAN, archive : BOOLEAN, count : Nat] /\ g.there = flow.there /\ g.count = flow.count + 1
    BY <1>1
  <2> HIDE DEF g
  <2> QED
    BY <1>2, <2>1 DEF g
<1>3. CASE ~flow.there
  BY <1>1, <1>3
<1> QED
  BY <1>2, <1>3

LEMMA RuleCounts ==
    ASSUME CountersInv, rule' = IF rule.there THEN [rule EXCEPT !.hits = @ + 1] ELSE rule
    PROVE  /\ rule' \in [there : BOOLEAN, bound : BOOLEAN, hits : Nat]
           /\ rule'.there = rule.there /\ rule'.bound = rule.bound
           /\ rule.there => rule'.hits = rule.hits + 1
<1>1. rule \in [there : BOOLEAN, bound : BOOLEAN, hits : Nat]
  BY DEF CountersInv
<1>2. CASE rule.there
  <2> DEFINE g == [rule EXCEPT !.hits = @ + 1]
  <2>1. g \in [there : BOOLEAN, bound : BOOLEAN, hits : Nat] /\ g.there = rule.there /\ g.bound = rule.bound /\ g.hits = rule.hits + 1
    BY <1>1
  <2> HIDE DEF g
  <2> QED
    BY <1>2, <2>1 DEF g
<1>3. CASE ~rule.there
  BY <1>1, <1>3
<1> QED
  BY <1>2, <1>3

LEMMA RecordCounters ==
    ASSUME JobsOK, CountersInv, NEW r \in Runs, Record(r)
    PROVE  CountersInv'
<1>1. /\ job[r].pc = "record" /\ UNCHANGED rule
      /\ flow' = IF flow.there THEN [flow EXCEPT !.count = @ + 1] ELSE flow
      /\ counted' = [runs |-> counted.runs + 1, hits |-> counted.hits + IF job[r].byRule THEN 1 ELSE 0]
  BY DEF Record
<1>2. IsFiniteSet(Pending) /\ Cardinality(Pending) \in Nat /\ r \notin Pending
  BY <1>1, PendingIs DEF Pending
<1>3. CASE job[r].byRule
  <2>1. PICK k : Moved(r, k) /\ k.pc = "hit"
    BY <1>1, <1>3, GotoMoved, ZenonT(40) DEF Record
  <2>2. Pending' = Pending \cup {r}
    BY <2>1, PendingMoves
  <2>3. Cardinality(Pending') = Cardinality(Pending) + 1
    BY <1>2, <2>2, FS_AddElement
  <2>4. counted'.hits = counted.hits + 1 /\ counted'.runs = counted.runs + 1 /\ counted' \in [runs : Nat, hits : Nat]
    BY <1>1, <1>3 DEF CountersInv, CountersAgree
  <2>5. /\ flow' \in [there : BOOLEAN, enabled : BOOLEAN, archive : BOOLEAN, count : Nat]
        /\ flow'.there = flow.there
        /\ flow'.count = IF flow.there THEN flow.count + 1 ELSE flow.count
    BY <1>1, FlowCounts
  <2>6. /\ Cardinality(Pending') <= counted'.hits
        /\ rule'.there => rule'.hits + Cardinality(Pending') = counted'.hits
    <3>1. /\ rule.hits \in Nat /\ counted.hits \in Nat
          /\ Cardinality(Pending) <= counted.hits
          /\ rule.there => rule.hits + Cardinality(Pending) = counted.hits
      BY DEF CountersInv, CountersAgree
    <3>2. rule.there => rule.hits + Cardinality(Pending') = counted'.hits
      <4>1. ASSUME NEW h \in Nat, NEW p \in Nat, NEW d \in Nat, h + p = d PROVE h + (p + 1) = d + 1
        BY <4>1
      <4>2. Cardinality(Pending) \in Nat
        BY <1>2
      <4> HIDE DEF Pending
      <4>3. CASE rule.there
        <5>1. rule.hits + (Cardinality(Pending) + 1) = counted.hits + 1
          BY <3>1, <4>1, <4>2, <4>3, SMTT(20)
        <5> QED
          BY <2>3, <2>4, <5>1
      <4> QED
        BY <4>3
    <3>3. rule' = rule
      BY <1>1
    <3> QED
      BY <3>1, <3>2, <3>3, <1>2, <2>3, <2>4
  <2>7. /\ flow'.there => flow'.count = counted'.runs
        /\ rule'.there /\ rule'.bound => flow'.there
    BY <1>1, <2>4, <2>5 DEF CountersInv, CountersAgree
  <2> QED
    BY <1>1, <2>4, <2>5, <2>6, <2>7 DEF CountersInv, CountersAgree
<1>4. CASE ~job[r].byRule
  <2>1. Moved(r, Idle)
    BY <1>4 DEF Record, Moved
  <2>2. Pending' = Pending
    BY <1>2, <2>1, PendingMoves, IdleJob
  <2>3. counted'.hits = counted.hits /\ counted'.runs = counted.runs + 1 /\ counted' \in [runs : Nat, hits : Nat]
    BY <1>1, <1>4 DEF CountersInv, CountersAgree
  <2>4. /\ flow' \in [there : BOOLEAN, enabled : BOOLEAN, archive : BOOLEAN, count : Nat]
        /\ flow'.there = flow.there
        /\ flow'.count = IF flow.there THEN flow.count + 1 ELSE flow.count
    BY <1>1, FlowCounts
  <2> QED
    BY <1>1, <1>2, <2>2, <2>3, <2>4 DEF CountersInv, CountersAgree
<1> QED
  BY <1>3, <1>4

LEMMA HitCounters ==
    ASSUME JobsOK, CountersInv, NEW r \in Runs, Hit(r)
    PROVE  CountersInv'
<1>1. /\ job[r].pc = "hit" /\ UNCHANGED <<flow, counted>> /\ Moved(r, Idle)
      /\ rule' = IF rule.there THEN [rule EXCEPT !.hits = @ + 1] ELSE rule
  BY DEF Hit, files, histories, Moved
<1>2. IsFiniteSet(Pending) /\ Cardinality(Pending) \in Nat /\ r \in Pending
  BY <1>1, PendingIs DEF Pending
<1>3. Pending' = Pending \ {r}
  BY <1>1, PendingMoves, IdleJob
<1>4. Cardinality(Pending') = Cardinality(Pending) - 1
  BY <1>2, <1>3, FS_RemoveElement
<1>5. Cardinality(Pending) > 0
  <2>1. Cardinality(Pending) # 0
    BY <1>2, FS_EmptySet
  <2> QED
    BY <1>2, <2>1
<1>6. /\ rule' \in [there : BOOLEAN, bound : BOOLEAN, hits : Nat]
      /\ rule'.there = rule.there /\ rule'.bound = rule.bound
      /\ rule.there => rule'.hits = rule.hits + 1
  BY <1>1, RuleCounts
<1> QED
  BY <1>1, <1>2, <1>4, <1>5, <1>6 DEF CountersInv, CountersAgree

LEMMA StepCounters ==
    ASSUME JobsOK, CountersInv, NEW r \in Runs, Step(r)
    PROVE  CountersInv'
<1> USE DEF files, rows, histories
<1>1. CASE \E m \in Messages, byRule \in BOOLEAN : Start(r, m, byRule)
  <2>1. UNCHANGED <<flow, rule, counted>> /\ job[r].pc # "hit"
    BY <1>1 DEF Start
  <2>2. PICK k : Moved(r, k) /\ k.pc = "load"
    BY <1>1, StartMoves
  <2> QED
    BY <2>1, <2>2, QuietCounters
<1>2. CASE Load(r)
  <2>1. UNCHANGED <<flow, rule, counted>> /\ job[r].pc # "hit"
    BY <1>2 DEF Load
  <2>2. PICK k : Moved(r, k) /\ (k = Idle \/ k.pc \in {"wipe", "step", "archive"})
    BY <1>2, LoadMoves
  <2> QED
    BY <2>1, <2>2, IdleJob, QuietCounters
<1>3. CASE Wipe(r) \/ MakeDir(r) \/ Unpack(r)
  <2>1. UNCHANGED <<flow, rule, counted>> /\ job[r].pc # "hit"
    BY <1>3 DEF Wipe, MakeDir, Unpack
  <2>2. PICK k : Moved(r, k) /\ k.pc \in {"make", "unpack", "step"}
    BY <1>3, WipeMoves, UnpackMoves
  <2> QED
    BY <2>1, <2>2, QuietCounters
<1>4. CASE ListTarget(r) \/ SaveOne(r) \/ PassOver(r) \/ SaveBody(r) \/ ScriptStart(r) \/ ScriptEnd(r)
  <2>1. UNCHANGED <<flow, rule, counted>> /\ job[r].pc # "hit"
    BY <1>4 DEF ListTarget, SaveOne, PassOver, SaveBody, ScriptStart, ScriptEnd, At
  <2>2. PICK k : Moved(r, k) /\ k.pc \in {"saving", "step", "archive", "script"}
    <3>1. CASE ListTarget(r)
      BY <3>1, ListTargetMoves
    <3>2. CASE SaveOne(r)
      BY <3>2, SaveOneMoves
    <3>3. CASE PassOver(r)
      BY <3>3, PassOverMoves
    <3>4. CASE SaveBody(r) \/ ScriptStart(r) \/ ScriptEnd(r)
      BY <3>4, OtherStepMoves
    <3> QED
      BY <1>4, <3>1, <3>2, <3>3, <3>4
  <2> QED
    BY <2>1, <2>2, QuietCounters
<1>5. CASE Archive(r)
  <2>1. UNCHANGED <<flow, rule, counted>> /\ Goto(r, "record") /\ job[r].pc # "hit"
    BY <1>5 DEF Archive
  <2>2. PICK k : Moved(r, k) /\ k.pc = "record"
    BY <2>1, GotoMoves DEF PCs, Early
  <2> QED
    BY <2>1, <2>2, QuietCounters
<1> QED
  BY <1>1, <1>2, <1>3, <1>4, <1>5, RecordCounters, HitCounters DEF Step

\* A command writes no counter but the rule's, by one for each hit it is due, and
\* leaves no rule bound to a workflow that is gone.
LEMMA EditCounters ==
    ASSUME CountersInv, Edits \/ UNCHANGED vars
    PROVE  CountersInv'
<1> USE DEF files, histories
<1>1. Pending' = Pending
  BY DEF Edits, CommandRead, ApplyToExisting, EditRule, DeleteFlow, DeleteRule, EditFlow, vars, Pending
<1>2. CASE ApplyToExisting
  <2>1. flow' = flow /\ UNCHANGED counted.runs
    BY <1>2 DEF ApplyToExisting, CountersInv
  <2>2. CASE UNCHANGED <<rule, counted>>
    BY <1>1, <2>1, <2>2 DEF CountersInv, CountersAgree
  <2>3. CASE /\ rule' = IF rule.there THEN [rule EXCEPT !.hits = @ + 1] ELSE rule
             /\ counted' = [counted EXCEPT !.hits = @ + 1]
    <3>1. /\ rule' \in [there : BOOLEAN, bound : BOOLEAN, hits : Nat]
          /\ rule'.there = rule.there /\ rule'.bound = rule.bound
          /\ rule.there => rule'.hits = rule.hits + 1
      BY <2>3, RuleCounts
    <3>2. counted' \in [runs : Nat, hits : Nat] /\ counted'.runs = counted.runs /\ counted'.hits = counted.hits + 1
      BY <2>3 DEF CountersInv
    <3> QED
      BY <1>1, <2>1, <3>1, <3>2, PendingIs DEF CountersInv, CountersAgree
  <2> QED
    BY <1>2, <2>2, <2>3 DEF ApplyToExisting
<1>3. CASE \E bound \in BOOLEAN : EditRule(bound)
  <2>1. UNCHANGED <<flow, counted>>
    BY <1>3 DEF EditRule
  <2>2. /\ rule' \in [there : BOOLEAN, bound : BOOLEAN, hits : Nat]
        /\ rule'.there = rule.there /\ rule'.hits = rule.hits
        /\ rule'.there /\ rule'.bound => flow.there
    BY <1>3 DEF EditRule, CountersInv, CountersAgree
  <2> QED
    BY <1>1, <2>1, <2>2 DEF CountersInv, CountersAgree
<1>4. CASE DeleteFlow
  <2>1. UNCHANGED counted
    BY <1>4 DEF DeleteFlow
  <2>2. /\ flow' \in [there : BOOLEAN, enabled : BOOLEAN, archive : BOOLEAN, count : Nat]
        /\ ~flow'.there
        /\ rule' \in [there : BOOLEAN, bound : BOOLEAN, hits : Nat]
        /\ rule'.hits = rule.hits /\ (rule'.there => rule.there /\ ~rule'.bound)
    BY <1>4 DEF DeleteFlow, CountersInv
  <2> QED
    BY <1>1, <2>1, <2>2 DEF CountersInv, CountersAgree
<1>5. CASE CommandRead \/ DeleteRule \/ (\E enabled, archive \in BOOLEAN : EditFlow(enabled, archive)) \/ UNCHANGED vars
  <2>1. UNCHANGED counted
    BY <1>5 DEF CommandRead, DeleteRule, EditFlow, vars
  <2>2. /\ flow' \in [there : BOOLEAN, enabled : BOOLEAN, archive : BOOLEAN, count : Nat]
        /\ flow'.count = flow.count /\ flow'.there = flow.there
        /\ rule' \in [there : BOOLEAN, bound : BOOLEAN, hits : Nat]
        /\ rule'.hits = rule.hits /\ rule'.bound = rule.bound /\ (rule'.there => rule.there)
    BY <1>5 DEF CommandRead, DeleteRule, EditFlow, vars, CountersInv
  <2> QED
    BY <1>1, <2>1, <2>2 DEF CountersInv, CountersAgree
<1> QED
  BY <1>2, <1>3, <1>4, <1>5 DEF Edits

\* The end of the program takes the hits along that were not counted yet.
LEMMA RestartCounters ==
    ASSUME CountersInv, Restart
    PROVE  CountersInv'
<1>1. /\ UNCHANGED <<flow, rule>> /\ \A r \in Runs : job'[r] = Idle
      /\ counted' = [counted EXCEPT !.hits = @ - Cardinality(Pending)]
  BY DEF Restart, files
<1>2. Pending' = {}
  BY <1>1, IdleJob DEF Pending
<1>3. Cardinality(Pending') = 0
  BY <1>2, FS_EmptySet
<1>4. Cardinality(Pending) \in Nat /\ Cardinality(Pending) <= counted.hits /\ counted \in [runs : Nat, hits : Nat]
  BY PendingIs DEF CountersInv
<1> HIDE DEF Pending
<1>5. counted' \in [runs : Nat, hits : Nat] /\ counted'.runs = counted.runs /\ counted'.hits = counted.hits - Cardinality(Pending)
  BY <1>1, <1>4
<1> QED
  BY <1>1, <1>3, <1>4, <1>5 DEF CountersInv, CountersAgree

\* The counters tell how many runs came to their end and how often the rule fired,
\* whatever updates, bindings, deletions and applications to the mails that are
\* there are under way (commands/workflows.rs:125-129, 387-388;
\* rule_scheduler.rs:407-417).
THEOREM CountersAlwaysAgree == Spec => []CountersAgree
<1>1. Init => JobsOK /\ CountersInv
  <2> SUFFICES ASSUME Init PROVE CountersInv
    BY InitJobs
  <2>1. Pending = {}
    BY IdleJob DEF Init, Pending
  <2>2. Cardinality(Pending) = 0
    BY <2>1, FS_EmptySet
  <2> QED
    BY <2>2 DEF Init, CountersInv, CountersAgree
<1>2. JobsOK /\ CountersInv /\ [Next]_vars => (JobsOK /\ CountersInv)'
  BY NextJobs, NextIs, StepCounters, EditCounters, RestartCounters
<1>3. CountersInv => CountersAgree
  BY DEF CountersInv
<1> QED
  BY <1>1, <1>2, <1>3, PTL DEF Spec

-----------------------------------------------------------------------------
(* The files in the target directory.                                      *)

\* The text step writes its file over whatever is there.
BodyFile(f) == f = <<"body", 1>> /\ "body" \in {Steps[s] : s \in DOMAIN Steps}

\* No run that is writing takes f for free.
Known(f) == \A o \in Runs : Saving(o) => f \in job[o].used
Settled(f, c) == f \in DOMAIN target /\ target[f] = c /\ ~BodyFile(f) /\ Known(f)

\* The file of the text is neither one of the user's nor named like an attachment that is saved.
BodyApart ==
    "body" \in {Steps[s] : s \in DOMAIN Steps} => "body" \notin Wanted /\ <<"body", 1>> \notin Users

FiniteInv == IsFiniteSet(DOMAIN target) /\ \A o \in Runs : Saving(o) => IsFiniteSet(job[o].used)
KeepInv ==
    /\ FiniteInv
    /\ Users # {} => <<"own", 0>> \in saved
    /\ <<"own", 0>> \notin exposed => \A f \in Users : ~BodyFile(f) => Settled(f, <<"own", 0>>)
    /\ BodyApart => \A c \in saved \ exposed : \E f \in DOMAIN target : Settled(f, c)

LEMMA LeastNatural ==
    ASSUME NEW S \in SUBSET Nat, S # {}
    PROVE  \E x \in S : \A y \in S : x <= y
<1>1. PICK x \in S : \A y \in S : ~(<<y, x>> \in OpToRel(<, Nat))
  BY NatLessThanWellFounded, WFMin
<1>2. \A y \in S : ~(y < x)
  BY <1>1 DEF OpToRel
<1> QED
  BY <1>2

\* Of one more name than there are in use one is free, and the least of those is taken.
LEMMA FreeNameIs ==
    ASSUME NEW name, NEW used, IsFiniteSet(used)
    PROVE  FreeName(name, used) \notin used /\ \E k : FreeName(name, used) = <<name, k>>
<1> DEFINE n == Cardinality(used) + 1
           f == [k \in 1..n |-> <<name, k>>]
           Free == {k \in 1..n : <<name, k>> \notin used}
<1>1. Cardinality(used) \in Nat /\ n \in Nat
  BY FS_CardinalityType
<1>2. IsFiniteSet(1..n) /\ Cardinality(1..n) = n
  <2>0. 1 \in Int /\ n \in Int
    BY <1>1
  <2> HIDE DEF n
  <2>1. IsFiniteSet(1..n) /\ Cardinality(1..n) = IF 1 > n THEN 0 ELSE n - 1 + 1
    BY <2>0, FS_Interval
  <2>2. n > 0
    BY <1>1 DEF n
  <2> QED
    BY <1>1, <2>1, <2>2
<1>3. Free # {}
  <2> SUFFICES ASSUME \A k \in 1..n : <<name, k>> \in used PROVE FALSE
    OBVIOUS
  <2>1. f \in [1..n -> used]
    OBVIOUS
  <2>2. Cardinality(used) < Cardinality(1..n)
    BY <1>1, <1>2
  <2> HIDE DEF n, f
  <2>3. \E x, y \in 1..n : x # y /\ f[x] = f[y]
    BY <1>2, <2>1, <2>2, FS_PigeonHole
  <2> QED
    BY <2>3 DEF f
<1>4. PICK k \in Free : \A l \in Free : k <= l
  <2>1. Free \in SUBSET Nat
    BY <1>1
  <2> HIDE DEF Free
  <2> QED
    BY <1>3, <2>1, LeastNatural
<1>5. \A l \in 1..(k - 1) : <<name, l>> \in used
  <2>1. ASSUME NEW l \in 1..(k - 1), <<name, l>> \notin used PROVE FALSE
    <3>1. k \in 1..n /\ l \in 1..n /\ l < k
      BY <1>1
    <3>2. k <= l
      BY <1>4, <2>1, <3>1
    <3> QED
      BY <1>1, <3>1, <3>2
  <2> QED
    BY <2>1
<1>6. \E l \in 1..n : <<name, l>> \notin used /\ \A i \in 1..(l - 1) : <<name, i>> \in used
  BY <1>4, <1>5
<1> HIDE DEF n
<1> QED
  BY <1>6 DEF FreeName, n

\* A step of run r that writes no attachment.
LEMMA QuietKeeps ==
    ASSUME JobsOK, KeepInv, NEW r \in Runs, NEW k, Moved(r, k), UNCHANGED <<saved, exposed>>,
           \/ k.pc # "saving"
           \/ k.used = DOMAIN target /\ UNCHANGED target
           \/ Saving(r) /\ k.used = job[r].used,
           \/ UNCHANGED target
           \/ \E c : Put(<<"body", 1>>, c) /\ "body" \in {Steps[s] : s \in DOMAIN Steps}
    PROVE  KeepInv'
<1>1. job'[r] = k /\ \A o \in Runs \ {r} : job'[o] = job[o]
  BY OneMoves DEF Moved
<1>2. DOMAIN target' \in {DOMAIN target, DOMAIN target \cup {<<"body", 1>>}}
  BY DEF Put
<1>3. FiniteInv'
  <2>1. IsFiniteSet(DOMAIN target')
    BY <1>2, FS_AddElement, ZenonT(40) DEF KeepInv, FiniteInv
  <2> QED
    BY <1>1, <2>1 DEF KeepInv, FiniteInv, Saving
<1>4. ASSUME NEW f, NEW c, Settled(f, c) PROVE Settled(f, c)'
  <2>1. f \in DOMAIN target' /\ target'[f] = c
    BY <1>4 DEF Settled, Put, BodyFile
  <2>2. Known(f)'
    BY <1>1, <1>4 DEF Settled, Known, Saving
  <2> QED
    BY <1>4, <2>1, <2>2 DEF Settled, BodyFile
<1>5. <<"own", 0>> \notin exposed => \A f \in Users : ~BodyFile(f) => Settled(f, <<"own", 0>>)'
  BY <1>4 DEF KeepInv
<1>6. ASSUME BodyApart PROVE \A c \in saved' \ exposed' : \E f \in DOMAIN target' : Settled(f, c)'
  <2>1. ASSUME NEW c \in saved \ exposed PROVE \E f \in DOMAIN target' : Settled(f, c)'
    <3>1. PICK f : Settled(f, c)
      BY <1>6, <2>1 DEF KeepInv
    <3> QED
      BY <1>4, <3>1 DEF Settled
  <2> QED
    BY <2>1
<1> QED
  BY <1>3, <1>5, <1>6 DEF KeepInv, BodyFile, BodyApart

\* The name an attachment is written under is none of those the run knows, and
\* from then on the run knows it; the others know it unless they were writing too.
LEMMA SaveOneKeeps ==
    ASSUME JobsOK, KeepInv, NEW r \in Runs, SaveOne(r)
    PROVE  KeepInv'
<1> DEFINE j == job[r]
           c == <<j.msg, j.at>>
           name == AttachOf[j.msg][j.at]
<1>0. PICK f : f = FreeName(name, j.used)
  OBVIOUS
<1>1. Saving(r) /\ IsFiniteSet(j.used) /\ name \in Wanted
  BY DEF SaveOne, Saving, Saved, KeepInv, FiniteInv
<1>2. f \notin j.used /\ \E l : f = <<name, l>>
  BY <1>0, <1>1, FreeNameIs
<1>3. PICK k : Moved(r, k) /\ k.pc = "saving" /\ k.used = j.used \cup {f}
  BY <1>0, SaveOneMoves
<1>4. job'[r] = k /\ \A o \in Runs \ {r} : job'[o] = job[o]
  BY <1>3, OneMoves DEF Moved
<1>5. \/ UNCHANGED <<target, saved, exposed>>
      \/ /\ Put(f, c) /\ saved' = saved \cup {c}
         /\ exposed' = IF \E o \in Runs \ {r} : Saving(o) THEN exposed \cup {c} ELSE exposed
  BY <1>0 DEF SaveOne
<1> HIDE DEF j, c, name
<1>6. FiniteInv'
  <2>1. IsFiniteSet(DOMAIN target')
    <3>1. DOMAIN target' = DOMAIN target \/ DOMAIN target' = DOMAIN target \cup {f}
      BY <1>5 DEF Put
    <3> QED
      BY <3>1, FS_AddElement DEF KeepInv, FiniteInv
  <2>2. IsFiniteSet(k.used)
    BY <1>1, <1>3, FS_AddElement
  <2> QED
    BY <1>4, <2>1, <2>2 DEF KeepInv, FiniteInv, Saving
<1>7. ASSUME NEW g, NEW d, Settled(g, d) PROVE Settled(g, d)'
  <2>1. g \in j.used
    BY <1>1, <1>7 DEF Settled, Known, j
  <2>2. g # f
    BY <1>2, <2>1
  <2>3. g \in DOMAIN target' /\ target'[g] = d
    BY <1>5, <1>7, <2>2 DEF Settled, Put
  <2>4. Known(g)'
    BY <1>3, <1>4, <1>7, <2>1 DEF Settled, Known, Saving
  <2> QED
    BY <1>7, <2>3, <2>4 DEF Settled, BodyFile
<1>8. /\ Users # {} => <<"own", 0>> \in saved'
      /\ <<"own", 0>> \notin exposed' => \A g \in Users : ~BodyFile(g) => Settled(g, <<"own", 0>>)'
  BY <1>5, <1>7 DEF KeepInv
<1>9. ASSUME BodyApart, NEW d \in saved' \ exposed' PROVE \E g \in DOMAIN target' : Settled(g, d)'
  <2>1. CASE d \in saved \ exposed
    <3>1. PICK g : Settled(g, d)
      BY <1>9, <2>1 DEF KeepInv
    <3> QED
      BY <1>7, <3>1 DEF Settled
  <2>2. CASE d \notin saved \ exposed
    <3>1. /\ d = c /\ Put(f, c) /\ \A o \in Runs \ {r} : ~Saving(o)
      BY <1>5, <1>9, <2>2
    <3>2. f \in DOMAIN target' /\ target'[f] = d
      BY <3>1 DEF Put
    <3>3. Known(f)'
      <4>1. f \in job'[r].used
        BY <1>3, <1>4
      <4>2. \A o \in Runs \ {r} : ~Saving(o)'
        BY <1>4, <3>1 DEF Saving
      <4> QED
        BY <4>1, <4>2 DEF Known
    <3>4. ~BodyFile(f)
      BY <1>1, <1>2, <1>9 DEF BodyFile, BodyApart
    <3>5. Settled(f, d)'
      BY <3>2, <3>3, <3>4 DEF Settled, BodyFile
    <3> QED
      BY <3>2, <3>5
  <2> QED
    BY <2>1, <2>2
<1> QED
  BY <1>6, <1>8, <1>9 DEF KeepInv, BodyFile, BodyApart

LEMMA StepKeeps ==
    ASSUME JobsOK, KeepInv, NEW r \in Runs, Step(r)
    PROVE  KeepInv'
<1> USE DEF files, rows, histories
<1>1. CASE \E m \in Messages, byRule \in BOOLEAN : Start(r, m, byRule)
  <2>1. UNCHANGED <<target, saved, exposed>>
    BY <1>1 DEF Start
  <2>2. PICK k : Moved(r, k) /\ k.pc = "load"
    BY <1>1, StartMoves
  <2> QED
    BY <2>1, <2>2, QuietKeeps
<1>2. CASE Load(r)
  <2>1. UNCHANGED <<target, saved, exposed>>
    BY <1>2 DEF Load
  <2>2. PICK k : Moved(r, k) /\ (k = Idle \/ k.pc \in {"wipe", "step", "archive"})
    BY <1>2, LoadMoves
  <2> QED
    BY <2>1, <2>2, IdleJob, QuietKeeps
<1>3. CASE Wipe(r) \/ MakeDir(r)
  <2>1. UNCHANGED <<target, saved, exposed>>
    BY <1>3 DEF Wipe, MakeDir
  <2>2. PICK k : Moved(r, k) /\ k.pc \in {"make", "unpack"}
    BY <1>3, WipeMoves
  <2> QED
    BY <2>1, <2>2, QuietKeeps
<1>4. CASE Unpack(r)
  <2>1. UNCHANGED <<target, saved, exposed>>
    BY <1>4 DEF Unpack
  <2>2. PICK k : Moved(r, k) /\ k.pc \in {"unpack", "step"}
    BY <1>4, UnpackMoves
  <2> QED
    BY <2>1, <2>2, QuietKeeps
<1>5. CASE ListTarget(r)
  <2>1. UNCHANGED <<target, saved>> /\ (exposed' = exposed \/ exposed' = saved)
    BY <1>5 DEF ListTarget
  <2>2. PICK k : /\ Moved(r, k)
                 /\ \/ k.used = DOMAIN target
                    \/ k.pc = "saving" /\ k.used = {} /\ exposed' = saved
                    \/ k.pc \in {"step", "archive"}
    BY <1>5, ListTargetMoves
  <2>3. CASE exposed' = exposed /\ (k.used = DOMAIN target \/ k.pc \in {"step", "archive"})
    BY <2>1, <2>2, <2>3, QuietKeeps
  <2>4. CASE exposed' = saved
    <3>1. job'[r] = k /\ \A o \in Runs \ {r} : job'[o] = job[o]
      BY <2>2, OneMoves DEF Moved
    <3>2. FiniteInv'
      BY <2>1, <2>2, <3>1, FS_EmptySet DEF KeepInv, FiniteInv, Saving
    <3>3. (Users # {} => <<"own", 0>> \in saved') /\ (<<"own", 0>> \in saved' => <<"own", 0>> \in exposed')
      BY <2>1, <2>4 DEF KeepInv
    <3>4. saved' \ exposed' = {}
      BY <2>1, <2>4
    <3> QED
      BY <3>2, <3>3, <3>4 DEF KeepInv
  <2> QED
    BY <2>1, <2>2, <2>3, <2>4
<1>6. CASE SaveOne(r)
  BY <1>6, SaveOneKeeps
<1>7. CASE PassOver(r)
  <2>1. UNCHANGED <<target, saved, exposed>> /\ Saving(r)
    BY <1>7 DEF PassOver, Saving
  <2>2. PICK k : Moved(r, k) /\ (k.used = job[r].used \/ k.pc \in {"step", "archive"})
    BY <1>7, PassOverMoves
  <2> QED
    BY <2>1, <2>2, QuietKeeps
<1>8. CASE SaveBody(r) \/ ScriptStart(r) \/ ScriptEnd(r)
  <2>1. /\ UNCHANGED <<saved, exposed>>
        /\ \/ UNCHANGED target
           \/ \E c : Put(<<"body", 1>>, c) /\ SaveBody(r)
    BY <1>8 DEF SaveBody, ScriptStart, ScriptEnd
  <2>2. SaveBody(r) => "body" \in {Steps[s] : s \in DOMAIN Steps}
    <3>1. SaveBody(r) => job[r].step \in DOMAIN Steps /\ Steps[job[r].step] = "body"
      BY DEF SaveBody, At, JobsOK, JobOK
    <3> QED
      BY <3>1
  <2>3. PICK k : Moved(r, k) /\ k.pc \in {"script", "step", "archive"}
    BY <1>8, OtherStepMoves
  <2> QED
    BY <2>1, <2>2, <2>3, QuietKeeps
<1>9. CASE Archive(r) \/ Record(r) \/ Hit(r)
  <2>1. UNCHANGED <<target, saved, exposed>>
    BY <1>9 DEF Archive, Record, Hit
  <2>2. PICK k : Moved(r, k) /\ (k = Idle \/ k.pc \in {"record", "hit"})
    BY <1>9, EndMoves
  <2> QED
    BY <2>1, <2>2, IdleJob, QuietKeeps
<1> QED
  BY <1>1, <1>2, <1>3, <1>4, <1>5, <1>6, <1>7, <1>8, <1>9 DEF Step

\* The names the runs have listed and the files there are stay finite, and what is settled stays settled.
LEMMA KeepAlways == Spec => [](JobsOK /\ KeepInv)
<1>1. Init => JobsOK /\ KeepInv
  <2> SUFFICES ASSUME Init PROVE KeepInv
    BY InitJobs
  <2>1. /\ DOMAIN target = Users /\ \A f \in Users : target[f] = <<"own", 0>>
        /\ \A o \in Runs : ~Saving(o)
        /\ saved = {target[f] : f \in Users}
        /\ Users # {} => <<"own", 0>> \in saved
    BY IdleJob DEF Init, Saving
  <2>2. ASSUME NEW f \in Users, ~BodyFile(f) PROVE Settled(f, <<"own", 0>>)
    BY <2>1, <2>2 DEF Settled, Known
  <2>3. ASSUME BodyApart, NEW f \in Users PROVE ~BodyFile(f)
    BY <2>3 DEF BodyApart, BodyFile
  <2>4. ASSUME BodyApart, NEW c \in saved \ exposed PROVE \E f \in DOMAIN target : Settled(f, c)
    BY <2>1, <2>2, <2>3, <2>4
  <2> QED
    BY <2>1, <2>2, <2>4 DEF KeepInv, FiniteInv
<1>2. JobsOK /\ KeepInv /\ [Next]_vars => (JobsOK /\ KeepInv)'
  <2> SUFFICES ASSUME JobsOK, KeepInv, [Next]_vars PROVE KeepInv'
    BY NextJobs
  <2>1. ASSUME NEW r \in Runs, Step(r) PROVE KeepInv'
    BY <2>1, StepKeeps
  <2>2. CASE Restart
    <3>1. UNCHANGED <<target, saved, exposed>> /\ \A o \in Runs : ~Saving(o)'
      BY <2>2, IdleJob DEF Restart, files, histories, Saving
    <3> QED
      BY <3>1 DEF KeepInv, FiniteInv, Settled, Known, BodyFile, BodyApart
  <2>3. CASE Edits \/ UNCHANGED vars
    <3>1. UNCHANGED <<job, target, saved, exposed>>
      BY <2>3 DEF Edits, CommandRead, ApplyToExisting, EditRule, DeleteFlow, DeleteRule, EditFlow, vars, files, histories
    <3> QED
      BY <3>1 DEF KeepInv, FiniteInv, Settled, Known, BodyFile, BodyApart, Saving
  <2> QED
    BY <2>1, <2>2, <2>3, NextIs
<1> QED
  BY <1>1, <1>2, PTL DEF Spec

\* What a run wrote while no other was writing, and what the user had put there,
\* stays in the directory as long as it can be listed, provided the step that saves
\* the text has a file of its own (save_attachments_step and dedupe_name,
\* workflows.rs; save_body_step does not look what is there).
THEOREM SavedFilesStay == BodyApart => (Spec => []SavedIsKept)
<1> SUFFICES ASSUME BodyApart PROVE Spec => []SavedIsKept
  OBVIOUS
<1>1. KeepInv => SavedIsKept
  BY DEF KeepInv, Settled, SavedIsKept
<1> QED
  BY <1>1, KeepAlways, PTL

UsersFilesAreKept ==
    <<"own", 0>> \notin exposed =>
        \A f \in Users : ~BodyFile(f) => f \in DOMAIN target /\ target[f] = <<"own", 0>>

\* As long as every listing succeeds no run writes an attachment over a file of the
\* user's, not even when several write at a time ("so we don't silently overwrite",
\* save_attachments_step, workflows.rs): whatever the steps and the names are.
THEOREM UsersFilesStay == Spec => []UsersFilesAreKept
<1>1. KeepInv => UsersFilesAreKept
  BY DEF KeepInv, Settled, UsersFilesAreKept
<1> QED
  BY <1>1, KeepAlways, PTL

-----------------------------------------------------------------------------
(* The names of the files.                                                 *)

\* A set of numbers up to n has a last one.
LEMMA LastNatural ==
    ASSUME NEW n \in Nat, NEW S \in SUBSET (1..n), S # {}
    PROVE  \E x \in S : \A y \in S : y <= x
<1> DEFINE T == {n - x : x \in S}
<1>0. \A x \in S : x \in Nat /\ x <= n /\ n - x \in Nat
  OBVIOUS
<1>1. T \in SUBSET Nat /\ T # {}
  BY <1>0
<1>2. PICK t \in T : \A y \in T : t <= y
  <2> HIDE DEF T
  <2> QED
    BY <1>1, LeastNatural
<1>3. PICK x \in S : t = n - x
  OBVIOUS
<1>4. \A y \in S : n - x <= n - y
  BY <1>2, <1>3
<1> HIDE DEF T
<1> QED
  BY <1>0, <1>4

\* first and last are the first and the last place of text not in drop.
KeptBetween(text, drop, first, last) ==
    /\ first \in DOMAIN text /\ last \in DOMAIN text /\ first <= last
    /\ text[first] \notin drop /\ text[last] \notin drop
    /\ \A i \in DOMAIN text : text[i] \notin drop => i \in first..last

\* Trimming keeps what lies between the two.
LEMMA TrimmedIs ==
    ASSUME NEW Char, NEW text \in Seq(Char), NEW drop, \E i \in DOMAIN text : text[i] \notin drop
    PROVE  \E first, last : /\ KeptBetween(text, drop, first, last)
                           /\ Trimmed(text, drop, TRUE) = SubSeq(text, first, last)
<1> DEFINE kept == {i \in DOMAIN text : text[i] \notin drop}
           one == CHOOSE i \in kept : \A j \in kept : i <= j
           end == CHOOSE i \in kept : \A j \in kept : j <= i
<1>1. Len(text) \in Nat /\ DOMAIN text = 1..Len(text)
  OBVIOUS
<1>2. kept \in SUBSET Nat /\ kept \in SUBSET (1..Len(text)) /\ kept # {}
  BY <1>1
<1>3. Trimmed(text, drop, TRUE) = SubSeq(text, one, end)
  BY <1>2 DEF Trimmed
<1>5. kept \subseteq DOMAIN text /\ \A i \in DOMAIN text : i \in kept <=> text[i] \notin drop
  OBVIOUS
<1> HIDE DEF kept
<1>4. /\ one \in kept /\ \A j \in kept : one <= j
      /\ end \in kept /\ \A j \in kept : j <= end
  <2>1. \E x \in kept : \A y \in kept : x <= y
    BY <1>2, LeastNatural
  <2>2. \E x \in kept : \A y \in kept : y <= x
    BY <1>1, <1>2, LastNatural
  <2> QED
    BY <2>1, <2>2
<1> HIDE DEF one, end
<1>6. one \in DOMAIN text /\ end \in DOMAIN text /\ one <= end
  BY <1>4, <1>5
<1>7. \A i \in DOMAIN text : text[i] \notin drop => i \in one..end
  BY <1>1, <1>4, <1>5, <1>6
<1> QED
  BY <1>3, <1>4, <1>5, <1>6, <1>7 DEF KeptBetween

\* A text whose ends are not dropped stays as it is.
LEMMA TrimmedStays ==
    ASSUME NEW Char, NEW text \in Seq(Char), NEW drop, text # <<>>,
           text[1] \notin drop, text[Len(text)] \notin drop
    PROVE  Trimmed(text, drop, TRUE) = text
<1>1. Len(text) \in Nat /\ Len(text) >= 1 /\ DOMAIN text = 1..Len(text)
  OBVIOUS
<1>5. \E i \in DOMAIN text : text[i] \notin drop
  BY <1>1
<1>2. PICK first, last :
          /\ KeptBetween(text, drop, first, last)
          /\ Trimmed(text, drop, TRUE) = SubSeq(text, first, last)
  BY <1>5, TrimmedIs
<1>3. first = 1 /\ last = Len(text)
  BY <1>1, <1>2 DEF KeptBetween
<1>4. SubSeq(text, 1, Len(text)) = text
  BY SubSeqFull
<1> QED
  BY <1>2, <1>3, <1>4

LEMMA FillerIs == Filler \notin Separators \cup Control
  BY Zenon DEF Filler, Separators, Control

\* Replacing the separators leaves none, and a name without them as it is.
LEMMA Cleaned ==
    ASSUME NEW Char, Filler \in Char, NEW name \in Seq(Char)
    PROVE  LET cleaned == [i \in DOMAIN name |-> IF name[i] \in Separators \cup Control THEN Filler ELSE name[i]]
           IN  /\ cleaned \in Seq(Char) /\ DOMAIN cleaned = DOMAIN name
               /\ \A i \in DOMAIN cleaned : cleaned[i] \notin Separators \cup Control
               /\ (\A i \in DOMAIN name : name[i] \notin Separators \cup Control) => cleaned = name
<1> DEFINE cleaned == [i \in DOMAIN name |-> IF name[i] \in Separators \cup Control THEN Filler ELSE name[i]]
<1>0. Len(name) \in Nat /\ DOMAIN name = 1..Len(name) /\ \A i \in DOMAIN name : name[i] \in Char
  OBVIOUS
<1>1. cleaned \in [1..Len(name) -> Char]
  BY <1>0
<1>2. cleaned \in Seq(Char)
  BY <1>0, <1>1, SeqDef
<1>3. Filler \notin Separators \cup Control
  BY FillerIs
<1>4. (\A i \in DOMAIN name : name[i] \notin Separators \cup Control) => cleaned = name
  BY <1>0
<1> QED
  BY <1>2, <1>3, <1>4

\* A name that stays in its directory: not empty, no separator or control
\* character, no dot or space at either end, so neither "." nor "..".
CleanName(f) ==
    /\ \E Char : f \in Seq(Char)
    /\ f # <<>>
    /\ ToSet(f) \cap (Separators \cup Control) = {}
    /\ f[1] \notin Ends /\ f[Len(f)] \notin Ends

\* The name given to what has none needs no cleaning.
LEMMA UnnamedIs == CleanName(Unnamed)
<1>1. ASSUME NEW S, NEW T, NEW dot, dot \notin S, "a" \notin S \cup T, "b" \notin S \cup T
      PROVE  LET f == <<"a", dot, "b">>
             IN  /\ f \in Seq({"a", dot, "b"}) /\ f # <<>> /\ {f[i] : i \in DOMAIN f} \cap S = {}
                 /\ f[1] \notin T /\ f[Len(f)] \notin T
  BY <1>1
<1>2. "." \notin Separators \cup Control /\ "a" \notin Separators \cup Control \cup Ends /\ "b" \notin Separators \cup Control \cup Ends
  BY Zenon DEF Separators, Control, Ends
<1> DEFINE S == Separators \cup Control
<1> HIDE DEF S
<1>4. ASSUME NEW dot, dot \notin S PROVE CleanName(<<"a", dot, "b">>)
  <2>1. "a" \notin S \cup Ends /\ "b" \notin S \cup Ends
    BY <1>2 DEF S
  <2> DEFINE f == <<"a", dot, "b">>
  <2>2. f \in Seq({"a", dot, "b"}) /\ f # <<>> /\ {f[i] : i \in DOMAIN f} \cap S = {}
        /\ f[1] \notin Ends /\ f[Len(f)] \notin Ends
    BY <1>1, <1>4, <2>1
  <2>3. CleanName(f)
    <3> HIDE DEF f
    <3> QED
      BY <2>2 DEF CleanName, ToSet, S
  <2> QED
    BY <2>3, Zenon DEF f
<1>5. CleanName(<<"a", ".", "b">>)
  BY <1>2, <1>4, Zenon DEF S
<1> QED
  BY <1>5, Zenon DEF Unnamed

\* Cleaning changes nothing in a clean name.
LEMMA CleanStays ==
    ASSUME NEW f, CleanName(f)
    PROVE  sanitize_filename(f) = f
<1>1. \A i \in DOMAIN f : f[i] \notin Separators \cup Control
  BY DEF CleanName, ToSet
<1>2. [i \in DOMAIN f |-> IF f[i] \in Separators \cup Control THEN Filler ELSE f[i]] = f
  BY <1>1, Cleaned DEF CleanName
<1>3. Trimmed(f, Ends, TRUE) = f
  BY TrimmedStays DEF CleanName
<1> QED
  BY <1>2, <1>3 DEF sanitize_filename, CleanName

\* Whatever an attachment is called, sanitize_filename gives it a clean name, and
\* cleaning twice gives the same one (workflows.rs:491-506).
THEOREM CleanedNames ==
    ASSUME NEW Char, Filler \in Char, NEW name \in Seq(Char)
    PROVE  LET f == sanitize_filename(name)
           IN  CleanName(f) /\ sanitize_filename(f) = f
<1> SUFFICES CleanName(sanitize_filename(name))
  BY CleanStays
<1> DEFINE drop == Ends
           cleaned == [i \in DOMAIN name |-> IF name[i] \in Separators \cup Control THEN Filler ELSE name[i]]
           trimmed == Trimmed(cleaned, drop, TRUE)
<1>1. /\ cleaned \in Seq(Char)
      /\ \A i \in DOMAIN cleaned : cleaned[i] \notin Separators \cup Control
  BY Cleaned
<1>2. sanitize_filename(name) = IF trimmed = <<>> THEN Unnamed ELSE trimmed
  BY DEF sanitize_filename
<1>3. CleanName(Unnamed)
  BY UnnamedIs
<1> HIDE DEF cleaned
<1>4. CASE \E i \in DOMAIN cleaned : cleaned[i] \notin drop
  <2>0. PICK first, last :
            KeptBetween(cleaned, drop, first, last) /\ trimmed = SubSeq(cleaned, first, last)
    <3> HIDE DEF drop
    <3> QED
      BY <1>1, <1>4, TrimmedIs
  <2>1. /\ first \in DOMAIN cleaned /\ last \in DOMAIN cleaned /\ first <= last
        /\ cleaned[first] \notin drop /\ cleaned[last] \notin drop
        /\ trimmed = SubSeq(cleaned, first, last)
    BY <2>0 DEF KeptBetween
  <2>2. Len(cleaned) \in Nat /\ DOMAIN cleaned = 1..Len(cleaned)
    BY <1>1
  <2> DEFINE n == last - first + 1
  <2>3. n \in Nat \ {0} /\ first + n - 1 = last /\ \A i \in 1..n : first + i - 1 \in DOMAIN cleaned
    BY <2>1, <2>2
  <2>4. /\ trimmed \in Seq(Char) /\ Len(trimmed) = n
        /\ \A i \in 1..n : trimmed[i] = cleaned[first + i - 1]
    <3>1. \A i \in first..last : cleaned[i] \in Char
      BY <1>1, <2>1, <2>2
    <3>2. first \in Int /\ last \in Int
      BY <2>1, <2>2
    <3> HIDE DEF trimmed
    <3> QED
      BY <2>1, <3>1, <3>2, SubSeqProperties
  <2> HIDE DEF trimmed, n
  <2>5. \A i \in DOMAIN trimmed : trimmed[i] \notin Separators \cup Control
    BY <1>1, <2>3, <2>4
  <2>7. trimmed[1] = cleaned[first] /\ trimmed[Len(trimmed)] = cleaned[last]
    BY <2>1, <2>2, <2>3, <2>4, SMTT(20)
  <2>6. CleanName(trimmed)
    BY <2>1, <2>3, <2>4, <2>5, <2>7, ZenonT(40) DEF CleanName, ToSet
  <2> QED
    BY <1>2, <1>3, <2>6
<1>5. CASE ~\E i \in DOMAIN cleaned : cleaned[i] \notin drop
  <2>1. trimmed = <<>>
    BY <1>5 DEF Trimmed
  <2> QED
    BY <1>2, <1>3, <2>1
<1> QED
  BY <1>4, <1>5

-----------------------------------------------------------------------------
(* The arguments of the scripts.                                           *)

\* A variable that is dropped from the context is in the text of no enabled parameter.
LEMMA GoneIsUnused ==
    ASSUME NEW params, NEW given, NEW found, NEW typed, NEW i \in DOMAIN params, params[i].enabled,
           params[i].source # "first"
    PROVE  LET ctx == [vars |-> given, files |-> found, prompt |-> typed]
               small == Materialise(ctx, scan_needs(params))
           IN  /\ small.prompt = typed
               /\ params[i].text \in DOMAIN small.vars <=> params[i].text \in DOMAIN given
               /\ params[i].text \in DOMAIN given => small.vars[params[i].text] = given[params[i].text]
<1> DEFINE texts == {IF params[j].source = "first" THEN "$attachments_dir" ELSE params[j].text :
                         j \in {k \in DOMAIN params : params[k].enabled}}
           needs == scan_needs(params)
           gone == (IF needs.attachments THEN {} ELSE {"$attachments_dir", "$csv"})
                   \cup (IF needs.body_essentials THEN {} ELSE {"$body_essentials"})
           small == Materialise([vars |-> given, files |-> found, prompt |-> typed], needs)
<1>1. params[i].text \in texts
  OBVIOUS
<1>2. /\ needs.attachments = (texts \cap {"$attachments_dir", "$csv"} # {})
      /\ needs.body_essentials = ("$body_essentials" \in texts)
  BY DEF scan_needs
<1> HIDE DEF texts, needs
<1>3. params[i].text \notin gone
  BY <1>1, <1>2
<1>4. small.prompt = typed /\ small.vars = [v \in DOMAIN given \ gone |-> given[v]]
  BY DEF Materialise
<1> HIDE DEF gone, small
<1>5. /\ small.prompt = typed
      /\ params[i].text \in DOMAIN small.vars <=> params[i].text \in DOMAIN given
      /\ params[i].text \in DOMAIN given => small.vars[params[i].text] = given[params[i].text]
  BY <1>3, <1>4
<1> QED
  BY <1>5 DEF small, needs

\* A parameter that takes a file of the mail has the mail unpacked.
LEMMA FilesAreThere ==
    ASSUME NEW params, NEW given, NEW found, NEW typed, NEW i \in DOMAIN params, params[i].enabled,
           params[i].source = "first"
    PROVE  Materialise([vars |-> given, files |-> found, prompt |-> typed], scan_needs(params)).files = found
<1>1. "$attachments_dir" \in {IF params[j].source = "first" THEN "$attachments_dir" ELSE params[j].text :
                                 j \in {k \in DOMAIN params : params[k].enabled}}
  OBVIOUS
<1>2. scan_needs(params).attachments
  BY <1>1 DEF scan_needs
<1> QED
  BY <1>2 DEF Materialise

\* scan_needs and build_argv agree: a parameter contributes the same argument, or
\* fails the same way, when only what scan_needs asked for was computed as when
\* everything was, for every list of parameters, every mail and every prompt.
THEOREM NeedsSuffice ==
    ASSUME NEW params, NEW given, NEW found, NEW typed, NEW i \in DOMAIN params,
           params[i].source \in {"fixed", "template", "first", "prompt"}, NEW s
    PROVE  LET ctx == [vars |-> given, files |-> found, prompt |-> typed]
           IN  Argument(s, params[i], Materialise(ctx, scan_needs(params))) = Argument(s, params[i], ctx)
<1> DEFINE p == params[i]
           ctx == [vars |-> given, files |-> found, prompt |-> typed]
           small == Materialise(ctx, scan_needs(params))
<1>1. CASE ~p.enabled
  BY <1>1 DEF Argument
<1>2. CASE p.enabled
  <2>1. Resolve(p, small) = Resolve(p, ctx)
    <3>1. CASE p.source = "first"
      <4>1. small.files = found
        BY <1>2, <3>1, FilesAreThere
      <4> HIDE DEF small, p
      <4> QED
        BY <3>1, <4>1 DEF Resolve, first_attachment_of
    <3>2. CASE p.source # "first"
      <4>1. /\ small.prompt = typed
            /\ p.text \in DOMAIN small.vars <=> p.text \in DOMAIN given
            /\ p.text \in DOMAIN given => small.vars[p.text] = given[p.text]
        BY <1>2, <3>2, GoneIsUnused
      <4>2. p.source \in {"fixed", "template", "prompt"}
        BY <3>2
      <4> HIDE DEF small, p
      <4>3. substitute(p.text, small) = substitute(p.text, ctx)
        BY <4>1 DEF substitute
      <4>4. CASE p.source = "fixed"
        BY <4>3, <4>4 DEF Resolve
      <4>5. CASE p.source = "template"
        BY <4>1, <4>5 DEF Resolve
      <4>6. CASE p.source = "prompt"
        BY <4>1, <4>3, <4>6 DEF Resolve
      <4> QED
        BY <4>2, <4>4, <4>5, <4>6
    <3> QED
      BY <3>1, <3>2
  <2>2. Argument(s, p, small) = Argument(s, p, ctx)
    <3> HIDE DEF small, ctx, p
    <3> QED
      BY <2>1 DEF Argument
  <2> QED
    BY <2>2
<1> QED
  BY <1>1, <1>2

=============================================================================
