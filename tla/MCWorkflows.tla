---------------------------- MODULE MCWorkflows ----------------------------
(***************************************************************************)
(* Workflows for TLC, and the checks of WorkflowText over all names,       *)
(* filters and parameter lists up to the lengths given here.               *)
(***************************************************************************)
EXTENDS Workflows, WorkflowText, TLC

MCAttachOf == "m" :> <<"a", "a">> @@ "n" :> <<"a", "a">>
MCNested == {<<"n", 2>>}
MCSteps == <<"save", "body", "script">>
MCUsers == {<<"a", 1>>}
MCSymmetry == Permutations(Runs)

RawNames == BoundedSeq({"a", "A", ".", " ", "/", "bell", "-"}, 4)
Patterns == BoundedSeq({"a", "A", ".", "*"}, 4)
PlainNames == BoundedSeq({"a", "A", "."}, 4)
NameLists == BoundedSeq({<<"a">>, <<"a", "/">>, <<"a", "-", "2">>, <<".", "a">>, <<"a", ".", "b">>, <<>>}, 4)

Contexts ==
    {[vars |-> known, files |-> found, prompt |-> typed] :
        known \in {"$subject" :> "s" @@ "$attachments_dir" :> "dir" @@ "$csv" :> "dir/c" @@ "$body_essentials" :> "yes",
                  "$subject" :> "" @@ "$attachments_dir" :> "dir" @@ "$body_essentials" :> ""},
        found \in {"csv" :> "dir/c", <<>>}, typed \in {"", "typed"}}
TextsOf(source) ==
    CASE source = "fixed" -> {"", "yes", "$csv"}
      [] source = "template" -> {"$csv", "$subject", "$body_essentials"}
      [] source = "first" -> {"csv"}
      [] source = "prompt" -> {"", "$body_essentials"}
Params ==
    UNION {{[name |-> kind, order |-> order, enabled |-> enabled, required |-> required, kind |-> kind,
             source |-> source, text |-> text] :
                order \in {1, 2}, enabled \in BOOLEAN, required \in BOOLEAN,
                kind \in {"flag", "option", "positional"}, text \in TextsOf(source)} :
            source \in {"fixed", "template", "first", "prompt"}}
ParamLists == BoundedSeq(Params, 2)

ASSUME FilterAsDescribed == FilterIsGlob(PlainNames, Patterns)
ASSUME NamesAsDescribed ==
    NamesAreClean(RawNames) /\ NamesAreDistinct(NameLists, {<<"a">>, <<"a", "-", "2">>, <<"a", "-", "3">>}, 4)
ASSUME ArgumentsAreBuilt == ArgumentsAsDeclared(ParamLists, Contexts) /\ NeedsAreEnough(ParamLists, Contexts)
=============================================================================
