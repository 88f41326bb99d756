------------------------------ MODULE Compose ------------------------------
(***************************************************************************)
(* Writing and sending: the one compose window and the one slot of the     *)
(* five-second undo (App.tsx, UndoSendOverlay.tsx), send_mail and          *)
(* save_draft (commands/mail.rs, application/smtp.rs), and the drafts that *)
(* another program hands over on the command line (main.rs,                *)
(* application/draft_import.rs).                                           *)
(*                                                                         *)
(* A mail is a value; editing does not change it.  What the window shows   *)
(* and what it was opened with are kept apart: the fields and the editor   *)
(* are filled when the window opens, whereas the parent and the draft it   *)
(* replaces are read from the current setComposeDraft when it is sent.     *)
(***************************************************************************)
EXTENDS Naturals, FiniteSets

CONSTANTS
    Mails,      \* what the user or another program writes
    Replies,    \* the mails that answer a message
    None,
    Tasks,      \* calls of performSend and performSaveDraft that may overlap
    MaxSends,   \* bound: Send and Save clicks, and so drafts on the server
    MaxFaults   \* bound: failed and unanswered commands, ends of the program

ASSUME ComposeAssumption ==
    /\ Replies \subseteq Mails
    /\ None \notin Mails
    /\ MaxSends \in Nat
    /\ MaxFaults \in Nat

VARIABLES
    account,    \* the account's settings and its servers
    window,     \* composeDraft and what the window shows
    pending,    \* pendingSend, the snapshot that waits out the five seconds
    opening,    \* the draft open_message is loading to be edited, or 0
    import,     \* the import of each mail
    front,      \* "none", "listening" or "drained": the import listener
    tpc, job,   \* where each call is, and its snapshot
    drafts,     \* server: the Drafts folder
    trash,      \* the drafts that were moved to the trash
    delivered,  \* server: how often each mail was accepted by SMTP
    filed,      \* server: its copies in Sent
    answered,   \* mails whose parent carries \Answered
    written,    \* history: mails that were ever begun or handed over
    crossed,    \* history: mails that met one of the overlaps named at Cross
    discarded,  \* history: mails whose window the user closed
    hits,       \* history: how often each call was accepted by SMTP
    sends, faults

servers == <<drafts, delivered, filed>>
user == <<window, pending, opening, import, front>>
calls == <<tpc, job>>
history == <<written, crossed, discarded>>
vars == <<account, user, calls, servers, trash, answered, history, hits, sends, faults>>

Ids == 1..MaxSends
Snapshots == [text : Mails \cup {None}, parent : Mails \cup {None}, replaces : Ids \cup {0}]
Closed == [text |-> None, parent |-> None, replaces |-> 0]
Blank(m) == [text |-> m, parent |-> IF m \in Replies THEN m ELSE None, replaces |-> 0]

\* The probe of a new account: the flag is set if its test mail shows up in
\* Sent within five seconds, and not when a command fails or the server is
\* slow. "port" is the TLS variant that gets through: the configured one, the
\* other one, or neither.
Accounts == {a \in [port : {"configured", "other", "neither"}, stores : BOOLEAN, flag : BOOLEAN] : a.flag => a.stores}

TypeOK ==
    /\ account \in Accounts
    /\ window \in Snapshots
    /\ pending \in Snapshots
    /\ opening \in Ids \cup {0}
    /\ import \in [Mails -> {"none", "cold", "live", "buffered"}]
    /\ front \in {"none", "listening", "drained"}
    /\ tpc \in [Tasks -> {"idle", "first", "second", "append", "marks", "rescue", "save", "clean"}]
    /\ job \in [Tasks -> Snapshots]
    /\ drafts \in [Ids -> Mails \cup {None}]
    /\ trash \subseteq Ids
    /\ delivered \in [Mails -> Nat]
    /\ filed \in [Mails -> Nat]
    /\ answered \subseteq Mails
    /\ written \subseteq Mails
    /\ crossed \subseteq Mails
    /\ discarded \subseteq Mails
    /\ hits \in [Tasks -> Nat]
    /\ sends \in 0..MaxSends
    /\ faults \in 0..MaxFaults

\* The program starts, perhaps with a draft on its command line.
Init ==
    /\ account \in Accounts
    /\ window = Closed
    /\ pending = Closed
    /\ opening = 0
    /\ \E S \in SUBSET Mails :
         /\ Cardinality(S) <= 1
         /\ import = [m \in Mails |-> IF m \in S THEN "cold" ELSE "none"]
    /\ front = "none"
    /\ tpc = [t \in Tasks |-> "idle"]
    /\ job = [t \in Tasks |-> Closed]
    /\ drafts = [d \in Ids |-> None]
    /\ trash = {}
    /\ delivered = [m \in Mails |-> 0]
    /\ filed = [m \in Mails |-> 0]
    /\ answered = {}
    /\ written = {m \in Mails : import[m] # "none"}
    /\ crossed = {}
    /\ discarded = {}
    /\ hits = [t \in Tasks |-> 0]
    /\ sends = 0
    /\ faults = 0

Fault == faults < MaxFaults /\ faults' = faults + 1
OpenDrafts == {d \in Ids : drafts[d] # None} \ trash
Busy(m) == \E t \in Tasks : tpc[t] \notin {"idle", "clean"} /\ job[t].text = m
Waiting(m) == pending.text = m \/ Busy(m)

-----------------------------------------------------------------------------
(* The window and the slot.                                                *)

\* The overlaps that lose sight of a mail: a second Send within the five
\* seconds of the first, a mail that comes back or is handed over while the
\* window shows another, an import that is ready when nobody listens or
\* after the buffer was emptied, and the end of the program.
Cross(S) == crossed' = crossed \cup (S \ {None})

\* setComposeDraft. Of an open window only what it was opened with changes.
Show(s) ==
    IF window.text = None
      THEN window' = s /\ UNCHANGED crossed
      ELSE /\ window' = [s EXCEPT !.text = window.text]
           /\ Cross({s.text} \ {window.text})

\* The user starts a mail.
Write(m) ==
    /\ window = Closed
    /\ m \notin written
    /\ window' = Blank(m)
    /\ written' = written \cup {m}
    /\ UNCHANGED <<account, pending, opening, import, front, calls, servers, trash, answered, crossed, discarded, hits, sends, faults>>

\* A draft is opened for editing: open_message, then the window.
EditDraft(d) ==
    /\ opening = 0
    /\ window = Closed
    /\ d \in OpenDrafts
    /\ opening' = d
    /\ UNCHANGED <<account, window, pending, import, front, calls, servers, trash, answered, history, hits, sends, faults>>

DraftOpened ==
    /\ opening # 0
    /\ opening' = 0
    /\ \/ Show([text |-> drafts[opening], parent |-> None, replaces |-> opening]) /\ UNCHANGED faults
       \/ Fault /\ UNCHANGED <<window, crossed>>
    /\ UNCHANGED <<account, pending, import, front, calls, servers, trash, answered, written, discarded, hits, sends>>

\* The window is closed without sending or saving.
Discard ==
    /\ window # Closed
    /\ window' = Closed
    /\ discarded' = discarded \cup {window.text}
    /\ UNCHANGED <<account, pending, opening, import, front, calls, servers, trash, answered, written, crossed, hits, sends, faults>>

\* Send: the snapshot takes the slot, and the timer starts anew.
Send ==
    /\ window # Closed
    /\ sends < MaxSends
    /\ sends' = sends + 1
    /\ pending' = window
    /\ Cross({pending.text})
    /\ window' = Closed
    /\ UNCHANGED <<account, opening, import, front, calls, servers, trash, answered, written, discarded, hits, faults>>

\* Undo: the snapshot comes back.
Undo ==
    /\ pending # Closed
    /\ pending' = Closed
    /\ Show(pending)
    /\ UNCHANGED <<account, opening, import, front, calls, servers, trash, answered, written, discarded, hits, sends, faults>>

Start(t, l, s) ==
    /\ tpc[t] = "idle"
    /\ tpc' = [tpc EXCEPT ![t] = l]
    /\ job' = [job EXCEPT ![t] = s]
    /\ hits' = [hits EXCEPT ![t] = 0]

\* The five seconds are over: performSend.
Timeout(t) ==
    /\ pending # Closed
    /\ pending' = Closed
    /\ Start(t, "first", pending)
    /\ UNCHANGED <<account, window, opening, import, front, servers, trash, answered, history, sends, faults>>

\* Save as draft: performSaveDraft.
Save(t) ==
    /\ window # Closed
    /\ sends < MaxSends
    /\ sends' = sends + 1
    /\ window' = Closed
    /\ Start(t, "save", window)
    /\ UNCHANGED <<account, pending, opening, import, front, servers, trash, answered, history, faults>>

-----------------------------------------------------------------------------
(* send_mail and save_draft.                                               *)

Goto(t, l) == tpc' = [tpc EXCEPT ![t] = l]

\* The call is over.
Return(t) ==
    /\ Goto(t, "idle")
    /\ job' = [job EXCEPT ![t] = Closed]

\* The server takes the mail, and files it in Sent if it is of that kind.
Accept(t) ==
    LET m == job[t].text
    IN  /\ delivered' = [delivered EXCEPT ![m] = @ + 1]
        /\ filed' = [filed EXCEPT ![m] = IF account.stores THEN @ + 1 ELSE @]
        /\ hits' = [hits EXCEPT ![t] = @ + 1]

\* try_send in a TLS variant, which gets through only if it is the right one;
\* when it does, the mail may be accepted and the answer lost.
\* An error that looks like a TLS mismatch leads to "again", another to the
\* rescue; which of the two a lost answer looks like is not known.
TrySend(t, right, again) ==
    \/ /\ right
       /\ Accept(t)
       /\ \/ Goto(t, "append") /\ UNCHANGED faults
          \/ Fault /\ (Goto(t, again) \/ Goto(t, "rescue"))
    \/ /\ ~right
       /\ Goto(t, again) \/ Goto(t, "rescue")
       /\ UNCHANGED <<delivered, filed, hits, faults>>
    \/ /\ Fault
       /\ Goto(t, "rescue")
       /\ UNCHANGED <<delivered, filed, hits>>

\* The configured variant. Recipients, account, password and attachments are
\* checked before, and an error there ends the call in the same way.
TryPrimary(t) ==
    /\ tpc[t] = "first"
    /\ TrySend(t, account.port = "configured", "second")
    /\ UNCHANGED <<account, user, job, drafts, trash, answered, history, sends>>

\* Mutant of TryFallback: the same variant once more.
TryFallbackSame(t) ==
    /\ tpc[t] = "second"
    /\ TrySend(t, account.port = "configured", "rescue")
    /\ UNCHANGED <<account, user, job, drafts, trash, answered, history, sends>>

\* Mutant of TryFallback: on a mismatch, back to the first variant.
TryFallbackLoops(t) ==
    /\ tpc[t] = "second"
    /\ TrySend(t, account.port = "other", "first")
    /\ UNCHANGED <<account, user, job, drafts, trash, answered, history, sends>>

\* The other variant.
TryFallback(t) ==
    /\ tpc[t] = "second"
    /\ TrySend(t, account.port = "other", "rescue")
    /\ UNCHANGED <<account, user, job, drafts, trash, answered, history, sends>>

\* append_to_sent, whose errors are logged and forgotten.
AppendToSent(t) ==
    /\ tpc[t] = "append"
    /\ \/ account.flag /\ UNCHANGED <<filed, faults>>
       \/ ~account.flag /\ filed' = [filed EXCEPT ![job[t].text] = @ + 1] /\ UNCHANGED faults
       \/ ~account.flag /\ Fault /\ (UNCHANGED filed \/ filed' = [filed EXCEPT ![job[t].text] = @ + 1])
    /\ Goto(t, "marks")
    /\ UNCHANGED <<account, user, job, drafts, delivered, trash, answered, history, hits, sends>>

\* The address history and the parent's \Answered or $Forwarded, with the
\* archive of archive_on_reply; their errors are logged and forgotten, but
\* that of the read of archive_on_reply ends the call, after the delivery.
MarkParent(t) ==
    /\ tpc[t] = "marks"
    /\ \/ answered' = answered \cup ({job[t].parent} \ {None}) /\ Goto(t, "clean") /\ UNCHANGED faults
       \/ Fault /\ UNCHANGED answered /\ Goto(t, "clean")
       \/ /\ job[t].parent # None
          /\ Fault
          /\ answered' = answered \cup {job[t].parent}
          /\ Goto(t, "rescue")
    /\ UNCHANGED <<account, user, job, servers, trash, history, hits, sends>>

\* delete_message of the draft the mail was opened from, if there was one.
RemoveReplaced(t) ==
    /\ tpc[t] = "clean"
    /\ \/ trash' = trash \cup ({job[t].replaces} \ {0}) /\ UNCHANGED faults
       \/ job[t].replaces # 0 /\ Fault /\ UNCHANGED trash
    /\ Return(t)
    /\ UNCHANGED <<account, user, servers, answered, history, hits, sends>>

\* APPEND to Drafts of a new draft with mail m.
StoreDraft(m) ==
    \E d \in Ids :
        /\ drafts[d] = None
        /\ \A e \in Ids : e < d => drafts[e] # None
        /\ drafts' = [drafts EXCEPT ![d] = m]

\* Mutant of SaveAsDraft: the replaced draft is removed on an error as well.
SaveAsDraftAnyway(t) ==
    /\ tpc[t] = "save"
    /\ \/ StoreDraft(job[t].text) /\ Goto(t, "clean") /\ UNCHANGED <<job, window, crossed, faults>>
       \/ /\ Fault
          /\ StoreDraft(job[t].text) \/ UNCHANGED drafts
          /\ Show(job[t])
          /\ Goto(t, "clean")
          /\ UNCHANGED job
    /\ UNCHANGED <<account, pending, opening, import, front, delivered, filed, trash, answered, written, discarded, hits, sends>>

\* save_draft; if it fails, whether or not the server kept the draft, the
\* mail comes back into the window.
SaveAsDraft(t) ==
    /\ tpc[t] = "save"
    /\ \/ StoreDraft(job[t].text) /\ Goto(t, "clean") /\ UNCHANGED <<job, window, crossed, faults>>
       \/ /\ Fault
          /\ StoreDraft(job[t].text) \/ UNCHANGED drafts
          /\ Show(job[t])
          /\ Return(t)
    /\ UNCHANGED <<account, pending, opening, import, front, delivered, filed, trash, answered, written, discarded, hits, sends>>

\* Mutant of Rescue: the window opens again only when the draft is not stored.
RescueInDrafts(t) ==
    /\ tpc[t] = "rescue"
    /\ \/ StoreDraft(job[t].text) /\ UNCHANGED <<faults, window, crossed>>
       \/ Fault /\ UNCHANGED <<drafts, window, crossed>>
    /\ Return(t)
    /\ UNCHANGED <<account, pending, opening, import, front, delivered, filed, trash, answered, written, discarded, hits, sends>>

\* After an error of send_mail: save_draft, then the window, in any case.
Rescue(t) ==
    /\ tpc[t] = "rescue"
    /\ \/ StoreDraft(job[t].text) /\ UNCHANGED faults
       \/ Fault /\ (UNCHANGED drafts \/ StoreDraft(job[t].text))
    /\ Show(job[t])
    /\ Return(t)
    /\ UNCHANGED <<account, pending, opening, import, front, delivered, filed, trash, answered, written, discarded, hits, sends>>

Call(t) ==
    \/ TryPrimary(t) \/ TryFallback(t) \/ AppendToSent(t) \/ MarkParent(t)
    \/ RemoveReplaced(t) \/ SaveAsDraft(t) \/ Rescue(t)

-----------------------------------------------------------------------------
(* Drafts from the command line.                                           *)

\* The listener is registered, and then the buffer emptied: of several
\* drafts the last one is shown.
Listen ==
    /\ front = "none"
    /\ front' = "listening"
    /\ UNCHANGED <<account, window, pending, opening, import, calls, servers, trash, answered, history, hits, sends, faults>>

Drain ==
    /\ front = "listening"
    /\ front' = "drained"
    /\ \/ /\ \A m \in Mails : import[m] # "buffered"
          /\ UNCHANGED <<import, window, crossed>>
       \/ \E m \in Mails :
            /\ import[m] = "buffered"
            /\ import' = [import EXCEPT ![m] = "none"]
            /\ Show([Closed EXCEPT !.text = m])
    /\ UNCHANGED <<account, pending, opening, calls, servers, trash, answered, written, discarded, hits, sends, faults>>

\* A second start of the program hands its arguments to the first.
HandOver(m) ==
    /\ m \notin written
    /\ import' = [import EXCEPT ![m] = "live"]
    /\ written' = written \cup {m}
    /\ UNCHANGED <<account, window, pending, opening, front, calls, servers, trash, answered, crossed, discarded, hits, sends, faults>>

\* build_prepared_draft is done, or fails with a banner. The draft of a cold
\* start is buffered, that of a running program goes to whoever listens.
Built(m) ==
    \/ /\ import[m] = "cold"
       /\ import' = [import EXCEPT ![m] = "buffered"]
       /\ Cross(IF front = "drained" THEN {m} ELSE {})
       /\ UNCHANGED <<window, written, faults>>
    \/ /\ import[m] = "live"
       /\ import' = [import EXCEPT ![m] = "none"]
       /\ IF front = "none" THEN Cross({m}) /\ UNCHANGED window
                            ELSE Show([Closed EXCEPT !.text = m])
       /\ UNCHANGED <<written, faults>>
    \/ /\ import[m] \in {"cold", "live"}
       /\ Fault
       /\ import' = [import EXCEPT ![m] = "none"]
       /\ written' = written \ {m}
       /\ UNCHANGED <<window, crossed>>

Import(m) == HandOver(m) \/ (Built(m) /\ UNCHANGED <<account, pending, opening, front, calls, servers, trash, answered, discarded, hits, sends>>)

\* The program ends, in whatever state, and is started again.
Restart ==
    /\ Fault
    /\ Cross({window.text, pending.text} \cup {job[t].text : t \in Tasks}
             \cup {m \in Mails : import[m] # "none"})
    /\ window' = Closed
    /\ pending' = Closed
    /\ opening' = 0
    /\ import' = [m \in Mails |-> "none"]
    /\ front' = "none"
    /\ tpc' = [t \in Tasks |-> "idle"]
    /\ job' = [t \in Tasks |-> Closed]
    /\ hits' = [t \in Tasks |-> 0]
    /\ UNCHANGED <<account, servers, trash, answered, written, discarded, sends>>

Next ==
    \/ \E m \in Mails : Write(m) \/ Import(m)
    \/ \E d \in Ids : EditDraft(d)
    \/ DraftOpened \/ Discard \/ Send \/ Undo \/ Listen \/ Drain
    \/ \E t \in Tasks : Timeout(t) \/ Save(t) \/ Call(t)
    \/ Restart

Spec == Init /\ [][Next]_vars

\* Timers fire and commands return, with an answer or an error: lettre gives
\* up after a minute, IMAP when the connection ends. The user need not act.
FairSpec ==
    /\ Spec
    /\ WF_vars(\E t \in Tasks : Timeout(t))
    /\ \A t \in Tasks : WF_vars(Call(t))
    /\ WF_vars(DraftOpened)

-----------------------------------------------------------------------------
(***************************************************************************)
(* Properties.                                                             *)
(***************************************************************************)

\* What was written is in the window, on its way, in Drafts or delivered
\* (App.tsx:967-969: a failed send lands as a draft "so the work isn't
\* lost"), unless the user threw it away or one of the overlaps met it.
WrittenIsKept ==
    \A m \in written \ (crossed \cup discarded) :
        \/ window.text = m \/ Waiting(m) \/ import[m] # "none"
        \/ delivered[m] > 0
        \/ \E d \in OpenDrafts : drafts[d] = m

\* One click on Send delivers once, even when the first attempt was accepted
\* and its lost answer looks like a TLS mismatch (smtp.rs:1035-1038).
AtMostOncePerSend == \A t \in Tasks : hits[t] <= 1

\* A click on Send takes no other mail off its way (App.tsx:194-196: "starting
\* another send before the timer expires is harmless").
SendTakesNothing == [][sends' > sends => \A m \in Mails : Waiting(m) => Waiting(m)']_vars

\* A draft is only thrown away when what it holds was delivered, or is in a
\* newer draft; an overlap may hand it to another mail.
DraftOutlivesMail ==
    [][\A d \in trash' \ trash :
           \/ drafts[d] \in crossed
           \/ delivered[drafts[d]] > 0
           \/ \E e \in OpenDrafts \ {d} : drafts[e] = drafts[d]]_vars

\* A mail that was sent does not stay on its way: it is delivered, or back.
SendResolves == \A m \in Mails : Waiting(m) ~> ~Waiting(m)
=============================================================================
