----------------------------- MODULE MCCompose -----------------------------
(***************************************************************************)
(* Compose for TLC, and the checks of DraftTemplate over all files, texts  *)
(* and command lines up to the lengths given here.                         *)
(***************************************************************************)
EXTENDS Compose, DraftTemplate, TLC

Files == BoundedSeq(LineKinds, 4)
Texts == BoundedSeq(Chars, 4)
Argvs == BoundedSeq(Options \cup {"k=v", "file"}, 3)
Jobs == "job" :> [NoRequest EXCEPT !.template = "file", !.attachments = <<"a">>]
Values == <<"n">> :> <<"$", "m">> @@ <<"m", "1">> :> <<"$", "n">> @@ <<"m">> :> <<>>
Opaque == <<"n">> :> "N" @@ <<"m", "1">> :> "M1" @@ <<"m">> :> "M"

ASSUME FilesAreRead == FriendlyAsDescribed(Files) /\ ExportReadsBack(BoundedSeq(LineKinds, 3))
ASSUME TextsAreFilled == ValuesVerbatim(Texts, Values, Opaque)
ASSUME ArgumentsAreRead == ArgumentsAddUp(Argvs, {"k=v"}, Jobs)
=============================================================================
