---------------------------- MODULE WorkflowText ----------------------------
(***************************************************************************)
(* File names, filters and the arguments of a script in a workflow         *)
(* (application/workflows.rs).  No state: operators, and what the comments *)
(* and tests of the code say of their results.                             *)
(*                                                                         *)
(* A name is a sequence of characters.  "bell" stands for the control      *)
(* characters, "uuid" for a fresh random name.                             *)
(***************************************************************************)
EXTENDS Naturals, Sequences, FiniteSets, SequencesExt, TLC

Separators == {"/", ":", "*"}
Control == {"bell"}
Filler == "_"               \* what a separator becomes
Ends == {".", " "}          \* what a name neither starts nor ends with
Unnamed == <<"a", ".", "b">>    \* attachment.bin, for a name of which nothing is left
Lower(c) == IF c = "A" THEN "a" ELSE c
InLower(text) == [i \in DOMAIN text |-> Lower(text[i])]

\* text without what its ends hold of drop; from the left only when both.
Trimmed(text, drop, both) ==
    LET kept == {i \in DOMAIN text : text[i] \notin drop}
        first == IF both THEN CHOOSE i \in kept : \A j \in kept : i <= j ELSE 1
        last == CHOOSE i \in kept : \A j \in kept : j <= i
    IN  IF kept = {} THEN <<>> ELSE SubSeq(text, first, last)

\* The name of an attachment.
sanitize_filename(name) ==
    LET cleaned == [i \in DOMAIN name |-> IF name[i] \in Separators \cup Control THEN Filler ELSE name[i]]
        trimmed == Trimmed(cleaned, Ends, TRUE)
    IN  IF trimmed = <<>> THEN Unnamed ELSE trimmed

\* The value of a variable in a path.
sanitize_path_segment(value) ==
    LET out == SelectSeq(value, LAMBDA c : c \notin Control)
    IN  Trimmed([i \in DOMAIN out |-> IF out[i] \in Separators THEN Filler ELSE out[i]], Ends, FALSE)

\* The first free one of name, name-2, ... name-cap, with the number before the
\* extension; past the cap a random one.
dedupe_name(name, used, cap) ==
    LET dots == {i \in 2..Len(name) : name[i] = "."}
        dot == IF dots = {} THEN Len(name) + 1 ELSE CHOOSE i \in dots : \A j \in dots : j <= i
        try(n) == SubSeq(name, 1, dot - 1) \o <<"-", n>> \o SubSeq(name, dot, Len(name))
        free == {n \in 2..cap : try(ToString(n)) \notin used}
        random(n) == try("uuid" \o ToString(n))
        unused == {n \in 1..(Cardinality(used) + 1) : random(n) \notin used}
    IN  IF name \notin used THEN name
        ELSE IF free = {} THEN random(CHOOSE n \in unused : TRUE)
        ELSE try(ToString(CHOOSE n \in free : \A m \in free : n <= m))

\* The names the attachments of one mail get in a directory that holds used.
FileNamesOf(names, used, cap) ==
    FoldLeft(LAMBDA out, name :
                 Append(out, dedupe_name(sanitize_filename(name), used \cup ToSet(out), cap)),
             <<>>, names)

\* The filter of the save step.  The single star slices [1..0], which panics.
Panics(pattern) == pattern = <<"*">>
filename_matches(name, pattern) ==
    LET n == InLower(name)
        p == InLower(pattern)
        starts == p # <<>> /\ p[1] = "*"
        ends == p # <<>> /\ p[Len(p)] = "*"
    IN  \/ starts /\ ends /\ \E i \in 1..(Len(n) + 1) : IsPrefix(SubSeq(p, 2, Len(p) - 1), SubSeq(n, i, Len(n)))
        \/ starts /\ ~ends /\ IsSuffix(SubSeq(p, 2, Len(p)), n)
        \/ ~starts /\ ends /\ IsPrefix(SubSeq(p, 1, Len(p) - 1), n)
        \/ ~starts /\ ~ends /\ n = p

-----------------------------------------------------------------------------
(* The arguments of a script.  A text is "", a literal, or one variable    *)
(* (written as in the template, "$csv"); vars holds the variables the mail *)
(* has, files the first attachment of an extension, prompt what the user   *)
(* typed.  A parameter is a record of order, enabled, required, kind,      *)
(* source and text; the source says what its text is.                      *)

substitute(text, ctx) == IF text \in DOMAIN ctx.vars THEN ctx.vars[text] ELSE text

first_attachment_of(ext, ctx) == IF ext # "" /\ ext \in DOMAIN ctx.files THEN ctx.files[ext] ELSE "none"

\* What the source gives, "none" when it has nothing.
Resolve(p, ctx) ==
    CASE p.source = "fixed" -> substitute(p.text, ctx)
      [] p.source = "template" -> IF p.text \in DOMAIN ctx.vars THEN ctx.vars[p.text] ELSE "none"
      [] p.source = "first" -> first_attachment_of(p.text, ctx)
      [] p.source = "prompt" -> IF ctx.prompt # "" THEN ctx.prompt
                                ELSE IF p.text # "" THEN substitute(p.text, ctx) ELSE "none"

Truthy == {"yes"}
Emit(p, value) ==
    CASE p.kind = "flag" -> IF value \in Truthy THEN <<p.name>> ELSE <<>>
      [] p.kind = "option" -> IF value = "" THEN <<>> ELSE <<p.name, value>>
      [] p.kind = "positional" -> IF value = "" THEN <<>> ELSE <<value>>

\* One parameter; failed is set by the first that cannot be given.
Argument(s, p, ctx) ==
    LET found == Resolve(p, ctx)
        value == IF found = "none" THEN "" ELSE found
    IN  IF s.failed \/ ~p.enabled THEN s
        ELSE IF p.required /\ (found = "none" \/ (value = "" /\ p.kind # "flag"))
        THEN [s EXCEPT !.failed = TRUE]
        ELSE [s EXCEPT !.argv = @ \o Emit(p, value)]

InOrder(params) ==
    LET orders == {params[i].order : i \in DOMAIN params}
        ranks == SetToSortSeq(orders, LAMBDA a, b : a < b)
    IN  FlattenSeq([k \in DOMAIN ranks |-> SelectSeq(params, LAMBDA p : p.order = ranks[k])])

build_argv(params, ctx) ==
    FoldLeft(LAMBDA s, p : Argument(s, p, ctx), [argv |-> <<>>, failed |-> FALSE], InOrder(params))

\* What must be computed from the mail before the steps run.
scan_needs(params) ==
    LET texts == {IF params[i].source = "first" THEN "$attachments_dir" ELSE params[i].text :
                      i \in {k \in DOMAIN params : params[k].enabled}}
    IN  [attachments |-> texts \cap {"$attachments_dir", "$csv"} # {},
         body_essentials |-> "$body_essentials" \in texts]

\* The context with no more than what was found to be needed.
Materialise(ctx, needs) ==
    LET gone == (IF needs.attachments THEN {} ELSE {"$attachments_dir", "$csv"})
                \cup (IF needs.body_essentials THEN {} ELSE {"$body_essentials"})
    IN  [ctx EXCEPT !.vars = [v \in DOMAIN @ \ gone |-> @[v]],
                    !.files = IF needs.attachments THEN @ ELSE <<>>]

-----------------------------------------------------------------------------
(***************************************************************************)
(* What the comments say, over all inputs of a bounded length.             *)
(***************************************************************************)

\* A pattern with stars matches as patterns do, a star standing for any text.
Glob(name, pattern) ==
    LET n == InLower(name)
        p == InLower(pattern)
        m[i \in 1..(Len(n) + 1), k \in 1..(Len(p) + 1)] ==
            IF k = Len(p) + 1 THEN i = Len(n) + 1
            ELSE IF p[k] = "*" THEN m[i, k + 1] \/ (i <= Len(n) /\ m[i + 1, k])
            ELSE i <= Len(n) /\ n[i] = p[k] /\ m[i + 1, k + 1]
    IN  m[1, 1]

\* The filter is this glob for stars at the ends (workflows.rs:670-673), in upper
\* and lower case alike; "*" alone, which a user would write for everything, is the
\* one such pattern it has no answer to.
FilterIsGlob(names, patterns) ==
    \A p \in patterns :
        (\A i \in 2..(Len(p) - 1) : p[i] # "*") /\ ~Panics(p)
            => \A n \in names : filename_matches(n, p) = Glob(n, p)

\* Cleaned names stay in their directory, are not empty, and cleaning them again
\* changes nothing; the values in a path as well, but these may be empty.
NamesAreClean(names) ==
    \A n \in names :
        /\ LET f == sanitize_filename(n)
           IN  /\ f # <<>> /\ sanitize_filename(f) = f
               /\ ToSet(f) \cap (Separators \cup Control) = {}
               /\ f \notin {<<".">>, <<".", ".">>}
        /\ LET s == sanitize_path_segment(n)
           IN  /\ sanitize_path_segment(s) = s
               /\ ToSet(s) \cap (Separators \cup Control) = {}
               /\ s \notin {<<".">>, <<".", ".">>}

\* No two attachments of a mail share a name, and none takes the name of a file
\* that was there (workflows.rs:508-512, 593-594), the cap on the numbers included.
NamesAreDistinct(lists, used, cap) ==
    \A names \in lists :
        LET out == FileNamesOf(names, used, cap)
        IN  Len(out) = Len(names) /\ ToSet(out) \cap used = {} /\ IsInjective(out)

\* Disabled parameters do not count, required ones too, equal orders keep their
\* place, and an argument list that is built lacks nothing required.
ArgumentsAsDeclared(lists, contexts) ==
    \A params \in lists, ctx \in contexts :
        LET s == build_argv(params, ctx)
            on == SelectSeq(params, LAMBDA p : p.enabled)
        IN  /\ s = build_argv(on, ctx)
            /\ s.failed <=> \E i \in DOMAIN on : build_argv(<<on[i]>>, ctx).failed
            /\ ~s.failed => s.argv = FlattenSeq([i \in DOMAIN on |-> build_argv(<<InOrder(on)[i]>>, ctx).argv])
            /\ ~s.failed => \A i \in DOMAIN on :
                   on[i].required /\ on[i].kind # "flag" => build_argv(<<on[i]>>, ctx).argv # <<>>

\* What scan_needs finds is enough: the arguments are those a context with
\* everything computed would give.
NeedsAreEnough(lists, contexts) ==
    \A params \in lists, ctx \in contexts :
        build_argv(params, Materialise(ctx, scan_needs(params))) = build_argv(params, ctx)
=============================================================================
