------------------------------ MODULE Workflows ------------------------------
(***************************************************************************)
(* Workflows (application/workflows.rs, commands/workflows.rs,             *)
(* spawn_auto_apply of application/workflow_rules.rs, apply_to_existing of *)
(* application/rule_scheduler.rs): a run unpacks the attachments of its    *)
(* message to a directory named for the message, takes its steps one after *)
(* the other, archives the mail when all went well and counts itself.      *)
(* Runs are tasks of their own: those the user starts, and those a rule    *)
(* starts, interleave in the file system and in the database.              *)
(*                                                                         *)
(* One workflow, one rule that may be bound to it, one directory the       *)
(* attachments go to.  <<m, i>> stands for the content of attachment i of  *)
(* m, <<m, 0>> for its text.  A file name is <<name, k>>: k = 1 as it      *)
(* came, k > 1 with -k before the extension.                               *)
(***************************************************************************)
EXTENDS Naturals, Sequences, FiniteSets

CONSTANTS
    Messages,       \* messages with a stored body
    AttachOf,       \* [message -> the names of its attachments]
    Wanted,         \* the names the filter of the save step lets through
    Nested,         \* contents that are mails themselves (message/rfc822)
    Steps,          \* the steps: "save", "body", "script"
    Users,          \* files that are in the target directory to begin with
    Runs,           \* runs that may be under way at a time
    MaxRuns,        \* bound: runs started
    MaxEdits,       \* bound: commands on the rows: edits, deletions, apply_to_existing
    MaxFaults       \* bound: failed file operations, failed moves, ends of the program

ASSUME WorkflowsAssumption ==
    /\ Messages # {} /\ IsFiniteSet(Runs) /\ IsFiniteSet(Users)
    /\ \A m \in Messages : AttachOf[m] \in Seq(STRING)
    /\ Steps \in Seq({"save", "body", "script"})
    /\ MaxRuns \in Nat /\ MaxEdits \in Nat /\ MaxFaults \in Nat

VARIABLES
    flow,           \* the row of the workflow
    rule,           \* the row of the rule
    edit,           \* what an open command on a row does and the counter it read, or <<>>
    job,            \* [run -> where it stands]
    temp,           \* [message -> files unpacked in its directory, 0 for the directory]
    target,         \* [file name -> content], the directory of the save step
    archived,       \* messages a run has moved to the archive
    left,           \* what remains of the bounds
    saved,          \* history: contents that were written to target
    exposed,        \* history: contents written while another run was saving, or
                    \* there when the listing of a run failed
    shared,         \* history: runs whose directory a second run of their message wiped
    counted         \* history: runs that came to their end, and hits due to the rule
vars == <<flow, rule, edit, job, temp, target, archived, left, saved, exposed, shared, counted>>
rows == <<flow, rule, edit>>
files == <<temp, target>>
histories == <<saved, exposed, shared, counted>>

\* What lies in the directories.
FileNames == (UNION {{AttachOf[m][i] : i \in DOMAIN AttachOf[m]} : m \in Messages} \cup {"body"})
             \X (Nat \ {0})
Contents == UNION {{m} \X (0..Len(AttachOf[m])) : m \in Messages} \cup {<<"own", 0>>}
\* What the save step writes of a message: it has no way to write a mail.
Saved(m) == {i \in DOMAIN AttachOf[m] : AttachOf[m][i] \in Wanted /\ <<m, i>> \notin Nested}

Idle == [pc |-> "idle", msg |-> CHOOSE m \in Messages : TRUE, byRule |-> FALSE, archive |-> FALSE,
         ok |-> TRUE, step |-> 1, at |-> 1, unpacked |-> {}, used |-> {}]
PCs == {"idle", "load", "wipe", "make", "unpack", "step", "saving", "script", "archive", "record", "hit"}

Init ==
    /\ flow = [there |-> TRUE, enabled |-> TRUE, archive |-> TRUE, count |-> 0]
    /\ rule = [there |-> TRUE, bound |-> TRUE, hits |-> 0]
    /\ edit = <<>>
    /\ job = [r \in Runs |-> Idle]
    /\ temp = [m \in Messages |-> {}]
    /\ target = [f \in Users |-> <<"own", 0>>]
    /\ archived = {}
    /\ left = [runs |-> MaxRuns, edits |-> MaxEdits, faults |-> MaxFaults]
    /\ saved = {target[f] : f \in Users}
    /\ exposed = {}
    /\ shared = {}
    /\ counted = [runs |-> 0, hits |-> 0]

Spend(what) == left[what] > 0 /\ left' = [left EXCEPT ![what] = @ - 1]
Goto(r, pc) == job' = [job EXCEPT ![r].pc = pc]
\* On to the next step, and after the last one to the archive.
After(j) == [j EXCEPT !.pc = IF j.step = Len(Steps) THEN "archive" ELSE "step", !.step = @ + 1]
Done(r) == job' = [job EXCEPT ![r] = After(@)]
\* Mutant of Fail: the error is reported, the result stays ok.
FailNot(r) == job' = [job EXCEPT ![r] = After(@)]

Fail(r) == job' = [job EXCEPT ![r] = After([@ EXCEPT !.ok = FALSE])]

-----------------------------------------------------------------------------
(* The start: the row of the workflow as it is now, then the message.      *)

Start(r, m, byRule) ==
    /\ job[r].pc = "idle"
    /\ flow.there /\ flow.enabled
    /\ byRule => rule.there /\ rule.bound
    /\ Spend("runs")
    /\ job' = [job EXCEPT ![r] = [Idle EXCEPT !.pc = "load", !.msg = m, !.byRule = byRule, !.archive = flow.archive]]
    /\ shared' = shared \ {r}
    /\ UNCHANGED <<rows, files, archived, saved, exposed, counted>>

\* A row that is gone ends the run with an error; it is not counted.
Load(r) ==
    /\ job[r].pc = "load"
    /\ IF job[r].msg \in archived THEN job' = [job EXCEPT ![r] = Idle]
       ELSE Goto(r, IF "script" \in {Steps[s] : s \in DOMAIN Steps} THEN "wipe"
                    ELSE IF Steps = <<>> THEN "archive" ELSE "step")
    /\ UNCHANGED <<rows, files, archived, left, histories>>

-----------------------------------------------------------------------------
(* The attachments, unpacked for the scripts.                              *)

\* Mutant of Wipe: one directory for the messages of all runs.
WipeAll(r) ==
    LET m == job[r].msg
    IN  /\ job[r].pc = "wipe"
        /\ temp' = [n \in Messages |-> {}]
        /\ shared' = shared \cup {o \in Runs \ {r} : job[o].msg = m /\ job[o].pc # "idle"}
        /\ Goto(r, "make")
        /\ UNCHANGED <<rows, target, archived, left, saved, exposed, counted>>

Wipe(r) ==
    LET m == job[r].msg
    IN  /\ job[r].pc = "wipe"
        /\ temp' = [temp EXCEPT ![m] = {}]
        /\ shared' = shared \cup {o \in Runs \ {r} : job[o].msg = m /\ job[o].pc # "idle"}
        /\ Goto(r, "make")
        /\ UNCHANGED <<rows, target, archived, left, saved, exposed, counted>>

MakeDir(r) ==
    /\ job[r].pc = "make"
    /\ temp' = [temp EXCEPT ![job[r].msg] = @ \cup {0}]
    /\ Goto(r, "unpack")
    /\ UNCHANGED <<rows, target, archived, left, histories>>

\* A failed write gives up on all of them; the steps run nevertheless.  A mail
\* that is attached is passed over.
Unpack(r) ==
    LET j == job[r]
    IN  /\ j.pc = "unpack"
        /\ \/ /\ j.at \in DOMAIN AttachOf[j.msg] /\ <<j.msg, j.at>> \notin Nested
              /\ 0 \in temp[j.msg]
              /\ temp' = [temp EXCEPT ![j.msg] = @ \cup {j.at}]
              /\ job' = [job EXCEPT ![r].at = @ + 1, ![r].unpacked = @ \cup {j.at}]
              /\ UNCHANGED left
           \/ /\ j.at \in DOMAIN AttachOf[j.msg] /\ <<j.msg, j.at>> \in Nested
              /\ job' = [job EXCEPT ![r].at = @ + 1]
              /\ UNCHANGED <<temp, left>>
           \/ /\ j.at \in DOMAIN AttachOf[j.msg] /\ <<j.msg, j.at>> \notin Nested
              /\ IF 0 \in temp[j.msg] THEN Spend("faults") ELSE UNCHANGED left
              /\ job' = [job EXCEPT ![r].pc = "step", ![r].unpacked = {}]
              /\ UNCHANGED temp
           \/ /\ j.at \notin DOMAIN AttachOf[j.msg]
              /\ Goto(r, "step")
              /\ UNCHANGED <<temp, left>>
        /\ UNCHANGED <<rows, target, archived, histories>>

-----------------------------------------------------------------------------
(* The steps.  A failed one does not keep the next ones from running.      *)

At(r, step) == job[r].pc = "step" /\ Steps[job[r].step] = step

\* Mutant of ListTarget: the directory is not listed: only the names of the same mail are told apart.
ListTargetNot(r) ==
    /\ At(r, "save")
    /\ \/ /\ job' = [job EXCEPT ![r].pc = "saving", ![r].at = 1, ![r].used = {}]
          /\ UNCHANGED left
       \/ Spend("faults") /\ Fail(r)
    /\ UNCHANGED <<rows, files, archived, histories>>

\* The directory is listed once, before the first file is written; one that
\* cannot be listed counts as empty.
ListTarget(r) ==
    /\ At(r, "save")
    /\ \/ /\ job' = [job EXCEPT ![r].pc = "saving", ![r].at = 1, ![r].used = DOMAIN target]
          /\ UNCHANGED <<left, exposed>>
       \/ /\ job' = [job EXCEPT ![r].pc = "saving", ![r].at = 1, ![r].used = {}]
          /\ Spend("faults") /\ exposed' = saved
       \/ Spend("faults") /\ Fail(r) /\ UNCHANGED exposed
    /\ UNCHANGED <<rows, files, archived, saved, shared, counted>>

\* The first -k that is free; one more than there are names in use is enough (the
\* code goes over to a random number when 999 are taken).
FreeName(name, used) ==
    <<name, CHOOSE k \in 1..(Cardinality(used) + 1) :
        <<name, k>> \notin used /\ \A l \in 1..(k - 1) : <<name, l>> \in used>>

Put(f, content) == target' = [g \in DOMAIN target \cup {f} |-> IF g = f THEN content ELSE target[g]]
Saving(o) == job[o].pc = "saving"

SaveOne(r) ==
    LET j == job[r]
        c == <<j.msg, j.at>>
        f == FreeName(AttachOf[j.msg][j.at], j.used)
    IN  /\ j.pc = "saving" /\ j.at \in Saved(j.msg)
        /\ \/ /\ Put(f, c)
              /\ job' = [job EXCEPT ![r].at = @ + 1, ![r].used = @ \cup {f}]
              /\ saved' = saved \cup {c}
              /\ exposed' = IF \E o \in Runs \ {r} : Saving(o) THEN exposed \cup {c} ELSE exposed
              /\ UNCHANGED left
           \/ /\ Spend("faults")
              /\ job' = [job EXCEPT ![r].at = @ + 1, ![r].used = @ \cup {f}, ![r].ok = FALSE]
              /\ UNCHANGED <<target, saved, exposed>>
        /\ UNCHANGED <<rows, temp, archived, shared, counted>>

\* What the filter holds back, and a mail that is attached, is passed over; after
\* the last one the step ends, with success if no write failed.
PassOver(r) ==
    LET j == job[r]
    IN  /\ j.pc = "saving" /\ j.at \notin Saved(j.msg)
        /\ IF j.at \in DOMAIN AttachOf[j.msg] THEN job' = [job EXCEPT ![r].at = @ + 1] ELSE Done(r)
        /\ UNCHANGED <<rows, files, archived, left, histories>>

\* The text goes to its path, whatever is there.
SaveBody(r) ==
    /\ At(r, "body")
    /\ \/ Put(<<"body", 1>>, <<job[r].msg, 0>>) /\ Done(r) /\ UNCHANGED left
       \/ Spend("faults") /\ Fail(r) /\ UNCHANGED target
    /\ UNCHANGED <<rows, temp, archived, histories>>

\* The script is given the path of an attachment; without one it is not started,
\* nor (a fault) without a script directory, a script in it and an interpreter.
ScriptStart(r) ==
    /\ At(r, "script")
    /\ \/ /\ IF job[r].unpacked = {} THEN Fail(r) ELSE Goto(r, "script")
          /\ UNCHANGED left
       \/ Spend("faults") /\ Fail(r)
    /\ UNCHANGED <<rows, files, archived, histories>>

ScriptEnd(r) ==
    /\ job[r].pc = "script"
    /\ Done(r) \/ Fail(r)
    /\ UNCHANGED <<rows, files, archived, left, histories>>

-----------------------------------------------------------------------------
(* The end.                                                                *)

\* A mail that is in the archive already has no row to move by.
Archive(r) ==
    LET j == job[r]
    IN  /\ j.pc = "archive"
        /\ \/ /\ j.archive /\ j.ok /\ j.msg \notin archived
              /\ archived' = archived \cup {j.msg}
              /\ UNCHANGED left
           \/ /\ j.archive /\ j.ok
              /\ IF j.msg \in archived THEN UNCHANGED left ELSE Spend("faults")
              /\ UNCHANGED archived
           \/ /\ ~(j.archive /\ j.ok)
              /\ UNCHANGED <<archived, left>>
        /\ Goto(r, "record")
        /\ UNCHANGED <<rows, files, histories>>

\* Every run that got this far counts, with failed steps too.
Record(r) ==
    /\ job[r].pc = "record"
    /\ flow' = IF flow.there THEN [flow EXCEPT !.count = @ + 1] ELSE flow
    /\ counted' = [runs |-> counted.runs + 1, hits |-> counted.hits + IF job[r].byRule THEN 1 ELSE 0]
    /\ IF job[r].byRule THEN Goto(r, "hit") ELSE job' = [job EXCEPT ![r] = Idle]
    /\ UNCHANGED <<rule, edit, files, archived, left, saved, exposed, shared>>

\* A run that a rule started counts for it too, failed steps or not.
Hit(r) ==
    /\ job[r].pc = "hit"
    /\ rule' = IF rule.there THEN [rule EXCEPT !.hits = @ + 1] ELSE rule
    /\ job' = [job EXCEPT ![r] = Idle]
    /\ UNCHANGED <<flow, edit, files, archived, left, histories>>

-----------------------------------------------------------------------------
(* Commands on the rows.  Each reads the row, awaits the writer, and finds *)
(* it as it is by then.  Updates leave the columns of the counters alone.  *)

CommandRead ==
    /\ edit = <<>> /\ Spend("edits")
    /\ \/ flow.there /\ edit' = <<"flow", flow.count>>
       \/ \E what \in {"rule", "existing"} : rule.there /\ edit' = <<what, rule.hits>>
    /\ UNCHANGED <<flow, rule, job, files, archived, histories>>

\* Mutant of EditFlow: the update writes back the counter it read before it waited.
EditFlowStale(enabled, archive) ==
    /\ edit # <<>> /\ edit[1] = "flow"
    /\ flow' = IF flow.there THEN [flow EXCEPT !.enabled = enabled, !.archive = archive, !.count = edit[2]] ELSE flow
    /\ edit' = <<>>
    /\ UNCHANGED <<rule, job, files, archived, left, histories>>

EditFlow(enabled, archive) ==
    /\ edit # <<>> /\ edit[1] = "flow"
    /\ flow' = IF flow.there THEN [flow EXCEPT !.enabled = enabled, !.archive = archive] ELSE flow
    /\ edit' = <<>>
    /\ UNCHANGED <<rule, job, files, archived, left, histories>>

\* The user may bind the rule to another action or workflow, and back to this one
\* if it is still there (the foreign key).
EditRule(bound) ==
    /\ edit # <<>> /\ edit[1] = "rule"
    /\ rule' = IF rule.there /\ (bound => flow.there) THEN [rule EXCEPT !.bound = bound] ELSE rule
    /\ edit' = <<>>
    /\ UNCHANGED <<flow, job, files, archived, left, histories>>

\* The rule is applied to the mails that are there already: they are tagged for the
\* sweeper, and if there was one the rule has its hit, without a run.
ApplyToExisting ==
    /\ edit # <<>> /\ edit[1] = "existing"
    /\ edit' = <<>>
    /\ \/ /\ rule' = IF rule.there THEN [rule EXCEPT !.hits = @ + 1] ELSE rule
          /\ counted' = [counted EXCEPT !.hits = @ + 1]
       \/ UNCHANGED <<rule, counted>>
    /\ UNCHANGED <<flow, job, files, archived, left, saved, exposed, shared>>

\* The foreign key takes the rules along that are bound to it.
DeleteFlow ==
    /\ flow.there /\ Spend("edits")
    /\ flow' = [flow EXCEPT !.there = FALSE]
    /\ rule' = [rule EXCEPT !.there = @ /\ ~rule.bound]
    /\ UNCHANGED <<edit, job, files, archived, histories>>

DeleteRule ==
    /\ rule.there /\ Spend("edits")
    /\ rule' = [rule EXCEPT !.there = FALSE]
    /\ UNCHANGED <<flow, edit, job, files, archived, histories>>

\* Runs that have counted themselves and are about to count for the rule.
Pending == {r \in Runs : job[r].pc = "hit"}

\* The directories stay where they are until the message has another run; a hit
\* that was not counted yet is lost.
Restart ==
    /\ \E r \in Runs : job[r].pc # "idle"
    /\ Spend("faults")
    /\ job' = [r \in Runs |-> Idle]
    /\ edit' = <<>>
    /\ counted' = [counted EXCEPT !.hits = @ - Cardinality(Pending)]
    /\ UNCHANGED <<flow, rule, files, archived, saved, exposed, shared>>

Step(r) ==
    \/ \E m \in Messages, byRule \in BOOLEAN : Start(r, m, byRule)
    \/ Load(r) \/ Wipe(r) \/ MakeDir(r) \/ Unpack(r)
    \/ ListTarget(r) \/ SaveOne(r) \/ PassOver(r) \/ SaveBody(r) \/ ScriptStart(r) \/ ScriptEnd(r)
    \/ Archive(r) \/ Record(r) \/ Hit(r)

Next ==
    \/ \E r \in Runs : Step(r)
    \/ CommandRead \/ ApplyToExisting \/ DeleteFlow \/ DeleteRule \/ Restart
    \/ \E enabled, archive \in BOOLEAN : EditFlow(enabled, archive)
    \/ \E bound \in BOOLEAN : EditRule(bound)

Spec == Init /\ [][Next]_vars

-----------------------------------------------------------------------------
(***************************************************************************)
(* Correctness.                                                            *)
(***************************************************************************)

TypeOK ==
    /\ flow \in [there : BOOLEAN, enabled : BOOLEAN, archive : BOOLEAN, count : Nat]
    /\ rule \in [there : BOOLEAN, bound : BOOLEAN, hits : Nat]
    /\ edit = <<>> \/ edit \in {"flow", "rule", "existing"} \X Nat
    /\ job \in [Runs -> [pc : PCs, msg : Messages, byRule : BOOLEAN, archive : BOOLEAN, ok : BOOLEAN,
                         step : Nat, at : Nat, unpacked : SUBSET Nat, used : SUBSET FileNames]]
    /\ temp \in [Messages -> SUBSET Nat]
    /\ DOMAIN target \subseteq FileNames /\ \A f \in DOMAIN target : target[f] \in Contents
    /\ archived \subseteq Messages
    /\ left \in [runs : Nat, edits : Nat, faults : Nat]
    /\ saved \subseteq Contents /\ exposed \subseteq saved
    /\ shared \subseteq Runs
    /\ counted \in [runs : Nat, hits : Nat]

\* The counter of a workflow tells how many runs came to their end, and the one of
\* a rule how often it fired, by runs and by apply_to_existing, but for the hits of
\* runs that are just counting: whatever updates, bindings and deletions are under
\* way meanwhile, none is lost or counted twice.  No rule stays bound to a workflow
\* that is gone (commands/workflows.rs:125-129, 387-388; the statements of db_ops.rs).
CountersAgree ==
    /\ flow.there => flow.count = counted.runs
    /\ rule.there => rule.hits + Cardinality(Pending) = counted.hits
    /\ rule.there /\ rule.bound => flow.there

\* What a run wrote, and what the user had put there, is still in the directory
\* (workflows.rs:590-598), unless it was written while another run had already
\* listed the directory and was still writing, or a run could not list it.
SavedIsKept == saved \ exposed \subseteq {target[f] : f \in DOMAIN target}

\* A mail goes to the archive by a run only after a run wrote every attachment the
\* filter lets through and the step can write: archive_after_success waits for all of the steps, and a
\* step with one failed write is a failed step.
ArchivedIsSaved ==
    "save" \in {Steps[s] : s \in DOMAIN Steps} =>
        \A m \in archived : \A i \in Saved(m) : <<m, i>> \in saved

\* As long as its script runs, a run finds every file it unpacked: only another
\* run of the same message takes them away, never one of another message and
\* never the end of a run.
RunSeesItsFiles ==
    \A r \in Runs \ shared : job[r].pc = "script" => job[r].unpacked \subseteq temp[job[r].msg]

=============================================================================
