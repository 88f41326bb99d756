--------------------------- MODULE DraftTemplate ---------------------------
(***************************************************************************)
(* How a template file and a command line become a draft                   *)
(* (application/draft_import.rs): the front matter, the variables, the     *)
(* arguments.  No state: operators, and what the comments of the code say  *)
(* of their results.                                                       *)
(*                                                                         *)
(* A file is the sequence of the kinds of its lines:                       *)
(*   "blank"; "head" (a line that begins with "# "); "dash" (exactly ---); *)
(*   "dashes" (only begins so); the header keys, "date" for an unknown     *)
(*   one; "fold" (begins with a blank, has no colon); "text".              *)
(* The value of a header is the set of the lines it was read from.         *)
(***************************************************************************)
EXTENDS Naturals, Sequences, SequencesExt

Fields == {"to", "subject", "account"}
Known == {"to", "subject", "from", "account"}
HeaderLike == Known \cup {"date"}
LineKinds == HeaderLike \cup {"blank", "head", "dash", "dashes", "fold", "text"}
FieldOf(kind) == IF kind = "from" THEN "account" ELSE kind

NoMeta == [f \in Fields |-> {}]
AllBody == [meta |-> NoMeta, body |-> 1]
Last1(S) == CHOOSE i \in S : \A j \in S : j <= i
First1(S) == CHOOSE i \in S : \A j \in S : i <= j

\* Of headers, a sequence of [kind, lines], the last one of a field counts.
parse_meta_lines(headers) ==
    [f \in Fields |->
        LET of == {h \in DOMAIN headers : headers[h].kind \in Known /\ FieldOf(headers[h].kind) = f}
        IN  IF of = {} THEN {} ELSE headers[Last1(of)].lines]

\* An explicit header wins over the heading.
merge_meta(into, parsed) == [f \in Fields |-> IF parsed[f] # {} THEN parsed[f] ELSE into[f]]

Headers(file, from, to) == [i \in 1..(to - from + 1) |-> [kind |-> file[from + i - 1], lines |-> {from + i - 1}]]

\* One line of try_parse_friendly_headers; body = 0 as long as none began.
ReadLine(file, s, i) ==
    LET k == file[i]
        last == Len(s.headers)
    IN  CASE s.body # 0 -> s
          [] s.body = 0 /\ last = 0 ->
               IF k = "blank" THEN s
               ELSE IF k = "head" THEN [s EXCEPT !.heading = IF @ = 0 THEN i ELSE @]
               ELSE IF k \in Known THEN [s EXCEPT !.headers = Headers(file, i, i)]
               ELSE [s EXCEPT !.body = i]
          [] s.body = 0 /\ last > 0 ->
               IF k = "blank" THEN [s EXCEPT !.body = i + 1]
               ELSE IF k = "fold" THEN [s EXCEPT !.headers[last].lines = @ \cup {i}]
               ELSE IF k \in HeaderLike THEN [s EXCEPT !.headers = @ \o Headers(file, i, i)]
               ELSE [s EXCEPT !.body = i]

try_parse_friendly_headers(file) ==
    LET start == [heading |-> 0, headers |-> <<>>, body |-> 0]
        s == FoldLeftDomain(LAMBDA acc, i : ReadLine(file, acc, i), start, file)
        heading == IF s.heading = 0 THEN NoMeta ELSE [NoMeta EXCEPT !["subject"] = {s.heading}]
    IN  IF s.heading = 0 /\ s.headers = <<>> THEN AllBody
        ELSE [meta |-> merge_meta(heading, parse_meta_lines(s.headers)),
              body |-> IF s.body = 0 THEN Len(file) + 1 ELSE s.body]

parse_template(file) ==
    LET filled == {i \in DOMAIN file : file[i] # "blank"}
        open == First1(filled)
        ends == {i \in DOMAIN file : i > open /\ file[i] = "dash"}
    IN  IF filled = {} \/ file[open] \notin {"dash", "dashes"} THEN try_parse_friendly_headers(file)
        ELSE IF ends = {} THEN AllBody
        ELSE [meta |-> parse_meta_lines(Headers(file, open + 1, First1(ends) - 1)),
              body |-> First1(ends) + 1]

\* What saveBody writes for a mail in Markdown: subject, From, Date, body.
Export(body) == <<"head", "blank", "from", "date", "blank">> \o body

-----------------------------------------------------------------------------
(* Variables.  A text is a sequence of characters, of which "$" begins a   *)
(* name, letters and digits make it up, and a digit cannot begin it.       *)

Letters == {"n", "m"}
Digits == {"1"}
Chars == Letters \cup Digits \cup {"$", "-"}

NameEnd(text, i) ==
    First1({e \in i..(Len(text) + 1) :
        \/ e = Len(text) + 1
        \/ text[e] \notin Letters \cup Digits
        \/ e = i /\ text[e] \in Digits})

\* One pass from the left: a known name gives its value, all else stays.
substitute_with(text, value) ==
    LET from[i \in 1..(Len(text) + 1)] ==
            IF i = Len(text) + 1 THEN <<>>
            ELSE IF text[i] # "$" THEN <<text[i]>> \o from[i + 1]
            ELSE LET e == NameEnd(text, i + 1)
                     name == SubSeq(text, i + 1, e - 1)
                 IN  (IF name \in DOMAIN value THEN value[name] ELSE SubSeq(text, i, e - 1)) \o from[e]
    IN  from[1]

-----------------------------------------------------------------------------
(* The command line.                                                       *)

NoRequest == [template |-> "", params |-> <<>>, attachments |-> <<>>]
Options == {"-T", "-P", "-A", "-J"}

\* One argument: the value of the option before it, or an option, or noise.
\* job is what a job file holds, pairs the arguments of the form key=value.
ReadArgument(s, arg, pairs, job) ==
    LET req == IF s.req = <<>> THEN NoRequest ELSE s.req[1]
        give(r) == [s EXCEPT !.want = "", !.req = <<r>>]
    IN  CASE s.failed -> s
          [] ~s.failed /\ s.want = "-T" -> give([req EXCEPT !.template = arg])
          [] ~s.failed /\ s.want = "-P" ->
               IF arg \in pairs THEN give([req EXCEPT !.params = Append(@, arg)]) ELSE [s EXCEPT !.failed = TRUE]
          [] ~s.failed /\ s.want = "-A" -> give([req EXCEPT !.attachments = Append(@, arg)])
          [] ~s.failed /\ s.want = "-J" ->
               IF arg \in DOMAIN job THEN give(job[arg]) ELSE [s EXCEPT !.failed = TRUE]
          [] ~s.failed /\ s.want = "" -> IF arg \in Options THEN [s EXCEPT !.want = arg] ELSE s

ReadArguments(argv, pairs, job) ==
    FoldLeft(LAMBDA s, arg : ReadArgument(s, arg, pairs, job),
             [want |-> "", req |-> <<>>, failed |-> FALSE], argv)

\* <<>> without an option, <<"error">>, or the request.
parse_argv(argv, pairs, job) ==
    LET s == ReadArguments(argv, pairs, job)
    IN  IF s.failed \/ s.want # "" \/ (s.req # <<>> /\ s.req[1].template = "") THEN <<"error">> ELSE s.req

-----------------------------------------------------------------------------
(***************************************************************************)
(* What the comments say, over all files, texts and command lines of a     *)
(* bounded length.                                                         *)
(***************************************************************************)

\* The three forms of draft_import.rs:509-530: an optional heading, then an
\* optional block that a known key begins and that ends with its first blank
\* line or the first line that is no header; without either all is body.
Described(file) ==
    LET lead == {i \in DOMAIN file : \A j \in 1..i : file[j] \in {"blank", "head"}}
        headings == {i \in lead : file[i] = "head"}
        first == 1 + IF lead = {} THEN 0 ELSE Last1(lead)
        block == {i \in DOMAIN file :
                     /\ i >= first /\ file[first] \in Known
                     /\ \A j \in first..i : file[j] \in HeaderLike \cup {"fold"}}
        after == 1 + IF block = {} THEN first - 1 ELSE Last1(block)
        givers(f) == {i \in block : file[i] \in Known /\ FieldOf(file[i]) = f}
        folds(i) == {j \in block : j > i /\ \A k \in (i + 1)..j : file[k] = "fold"}
        field(f) == IF givers(f) # {} THEN {Last1(givers(f))} \cup folds(Last1(givers(f)))
                    ELSE IF f = "subject" /\ headings # {} THEN {First1(headings)} ELSE {}
    IN  IF block = {} /\ headings = {} THEN AllBody
        ELSE [meta |-> [f \in Fields |-> field(f)],
              body |-> IF block # {} /\ after \in DOMAIN file /\ file[after] = "blank" THEN after + 1 ELSE after]

\* The parser of the friendly form finds exactly what its comment describes.
FriendlyAsDescribed(files) == \A file \in files : try_parse_friendly_headers(file) = Described(file)

\* A saved mail is read back as it was saved (draft_import.rs:518-522): its
\* subject, its sender and its whole body, whatever lines the body has.
ExportReadsBack(bodies) ==
    \A body \in bodies :
        parse_template(Export(body)) =
            [meta |-> [to |-> {}, subject |-> {1}, account |-> {3}], body |-> 6]

\* Values are put in as they are: whatever they hold, the result is that of
\* opaque values, filled in afterwards. No value is searched for names.
ValuesVerbatim(texts, value, opaque) ==
    \A text \in texts :
        LET hidden == substitute_with(text, [n \in DOMAIN value |-> <<opaque[n]>>])
            shown(c) == LET of == {n \in DOMAIN value : opaque[n] = c}
                        IN  IF of = {} THEN <<c>> ELSE value[CHOOSE n \in of : TRUE]
        IN  substitute_with(text, value) = FlattenSeq([i \in DOMAIN hidden |-> shown(hidden[i])])

\* A command line can be cut after any complete option: what follows adds to
\* what was read before, and a job replaces all of it.
ArgumentsAddUp(argvs, pairs, job) ==
    \A a \in argvs :
        LET ra == ReadArguments(a, pairs, job)
        IN  ~ra.failed /\ ra.want = "" =>
            /\ \A j \in DOMAIN job : ReadArguments(a \o <<"-J", j>>, pairs, job).req = <<job[j]>>
            /\ \A b \in argvs :
                LET rb == ReadArguments(b, pairs, job)
                    first == ra.req[1]
                    second == rb.req[1]
                IN  ra.req # <<>> /\ rb.req # <<>> /\ ~rb.failed =>
                    ReadArguments(a \o b, pairs, job).req =
                        <<[template |-> IF second.template # "" THEN second.template ELSE first.template,
                           params |-> first.params \o second.params,
                           attachments |-> first.attachments \o second.attachments]>>
=============================================================================
