---------------------------- MODULE MCComponents ----------------------------
(***************************************************************************)
(* Each of the components of module Components on a small instance; what   *)
(* is a number, a name or a set of them is given in the .cfg.              *)
(***************************************************************************)
EXTENDS Components, SequencesExt, TLC

\* LlmClient, one reply of each kind that the code tells apart.
MCLlmReplies == {"content", "http_503", "timeout", "http_400", "not_object", "incompleteread"}

-----------------------------------------------------------------------------
\* ClaudeGuard: a message without usage, a message with one, a result with
\* two models.
Usage(in, out, read, new) ==
  [input |-> in, output |-> out, cacheRead |-> read, cacheCreation |-> new]

MCGuardReports ==
  { [direct |-> None, models |-> <<>>],
    [direct |-> Usage(1, 1, 2, 0), models |-> <<>>],
    [direct |-> None, models |-> <<Usage(1, 0, 1, 0), Usage(1, 1, 0, 1)>>] }

-----------------------------------------------------------------------------
\* SafetyPolicy: every command of at most three words, a few patches and calls.
MCSafetyDefaultAllowed == {<<"git", "log">>, <<"rg">>}
MCSafetyDefaultDenied == {<<"git", "reset">>, <<"rm">>}
MCSafetyOptions == [program \in {"rg"} |-> {"--pre"}]
MCSafetyPayloads == {None} \cup
  [dryRun : BOOLEAN, safeMode : BOOLEAN,
   allow : {None, {<<"git">>, <<>>}, MCSafetyDefaultDenied},
   deny : {None, {<<>>, <<"rg">>}, {<<"git", "log">>}}]

Token(w, path) == [word |-> w, option |-> IF w = "--pre=x" THEN "--pre" ELSE w, path |-> path]
Tokens == {Token(w, "none") : w \in {"git", "log", "reset", "rm", "rg", "--pre=x"}}
            \cup {Token("../x", "outside"), Token("./x", "inside")}
Cmd(tokens) == [parses |-> TRUE, tokens |-> tokens, shellMeta |-> FALSE]
MCSafetyCommands ==
  LET short == SeqOf(Tokens, 2)
  IN {Cmd(t) : t \in short \cup {u \o <<v>> : u \in short, v \in Tokens}}
       \cup {[Cmd(t) EXCEPT !.shellMeta = TRUE] : t \in short} \cup {[Cmd(<<>>) EXCEPT !.parses = FALSE]}

Relative(parts) == [absolute |-> FALSE, parts |-> parts]
Block(old, new, devNull, deletes) ==
  [paths |-> <<Relative(old), Relative(new)>>, devNull |-> devNull, deletes |-> deletes]
DiffBlocks ==
  { Block(<<"a">>, <<"a">>, FALSE, FALSE), Block(<<"a">>, <<"a">>, TRUE, TRUE),
    Block(<<"b">>, <<"b">>, TRUE, TRUE), Block(<<"c">>, <<"c">>, TRUE, FALSE),
    Block(<<"a">>, <<"..", "b">>, FALSE, FALSE), Block(<<"d", ".env">>, <<"a">>, FALSE, FALSE),
    [paths |-> <<>>, devNull |-> FALSE, deletes |-> FALSE] }
MCSafetyDiffs ==
  {[blank |-> b = <<>>, oversized |-> o, binary |-> n, blocks |-> b] :
     b \in SeqOf(DiffBlocks, 2), o \in BOOLEAN, n \in BOOLEAN}

MCSafetyCalls ==
  [undeclaredField : BOOLEAN, blanks : BOOLEAN, timeout : {None, 60, 301},
   cmd : {Cmd(<<Token("rg", "none")>>), Cmd(<<Token("git", "none"), Token("log", "none")>>),
          Cmd(<<Token("rm", "none")>>)},
   files : {<<>>, <<Relative(<<"a">>)>>, <<Relative(<<".", "a">>), Relative(<<"a">>)>>,
            <<Relative(<<"..", "a">>)>>}]

-----------------------------------------------------------------------------
\* PatchOutcome: a patch of each form, a repair, the upstream text, one that
\* breaks, one that weakens the test.
Edit(files, content) == [form |-> "edit", edits |-> [f \in files |-> content]]
MCOutcomePatches ==
  { [form |-> "empty", edits |-> [f \in {} |-> "good"]],
    [form |-> "delete", edits |-> [f \in {"src"} |-> "good"]],
    Edit({"src"}, "repaired"), Edit({"src"}, "good"),
    Edit({"src", "help"}, "broken"), Edit({"test"}, "lenient") }

\* The second revision of the manifest lets its second task change its test.
MCOutcomeAllows ==
  << <<{"src", "help"}, {"src", "help"}>>, <<{"src", "help"}, {"src", "help", "test"}>> >>

-----------------------------------------------------------------------------
\* EvidencePlan: chunks of two lines that overlap.
MCEvidenceTexts == {<<1, 1, 2>>, <<2, 1>>, <<>>, <<8>>}

-----------------------------------------------------------------------------
\* CodeSearch: five chunks of two files, every ranking of three scores.
Rows(file, start, end) == [file |-> file, start |-> start, end |-> end]
MCSearchChunks ==
  << Rows("a", 1, 3), Rows("a", 3, 5), Rows("a", 5, 7), Rows("b", 1, 3), Rows("b", 3, 4) >>
At(file, line) == [file |-> file, line |-> line]

\* With the defaults, with room for neighbours, with bounds of the caller's.
SearchConfigs ==
  { [topK |-> t, candidateK |-> c, window |-> 1, maxRecall |-> None,
     finalK |-> None, minScore |-> None, noFilter |-> FALSE] : t \in {1, 3}, c \in {None, 4} }
  \cup
  { [topK |-> 3, candidateK |-> 0, window |-> w, maxRecall |-> 2,
     finalK |-> f, minScore |-> 1, noFilter |-> n] : w \in {0, 1}, f \in {0, 2}, n \in BOOLEAN }

MCSearchQueries ==
  { config @@ ("scores" :> scores @@ "asked" :> asked @@ "mentions" :> mentions) :
      config \in SearchConfigs, scores \in [1 .. 5 -> 0 .. 2], asked \in {{}, {At("b", 3)}},
      mentions \in {<<>>, <<At("a", 3)>>, <<At("b", 3), At("a", 6)>>, <<At("b", 4), At("a", 6)>>} }

-----------------------------------------------------------------------------
\* CitedContext: two files of the same name, five and three lines.
MCContextSource == (<<"m">> :> <<2, 0, 1, 0, 3>>) @@ (<<"d", "m">> :> <<1, 1, 0>>)
MCContextCited == [path : {<<"m">>, <<"d", "m">>}, start : {1, 2, 3}, end : {1, 2, 3, 5}]

-----------------------------------------------------------------------------
\* CallPath: modules of up to five functions, three edges, one level.
Call(line, name) == [line |-> line, name |-> name]
NoImports == [n \in {} |-> None]
From(mod, symbol) == [module |-> mod, symbol |-> symbol]
Def(calls, locals) == [calls |-> calls, locals |-> locals, imports |-> NoImports, self |-> FALSE]

\* A package that reexports, and one that reexports itself.
MCTraceExports ==
  "pkg" :> ("run" :> From("impl", "run")) @@ "impl" :> NoImports @@ "loop" :> ("x" :> From("loop", "x"))

\* Three functions that call each other, and two imports.
FlatModules ==
  LET calls == { Call(1, <<"g">>), Call(1, <<"h">>), Call(2, <<"run">>), Call(2, <<"run", "now">>),
                 Call(3, <<"x">>), Call(3, <<>>), Call(4, <<"f">>) }
  IN { [functions |-> <<"f">> :> Def(inF, {}) @@ <<"g">> :> Def(inG, locals)
                        @@ <<"h">> :> Def(<<Call(9, <<"run">>), Call(9, <<"g">>)>>, {}),
        bindings |-> "run" :> From("pkg", "run") @@ "x" :> From("loop", "x"),
        ambiguous |-> twice] :
       inF \in SeqOf(calls, 2), inG \in SeqOf(calls, 1),
       twice \in {{}, {<<"h">>}}, locals \in {{}, {"run"}} }

\* A nested function, and a class whose method imports a name.
NestedModules ==
  { [functions |-> <<"f">> :> Def(<<Call(1, <<"inner">>)>>, locals)
                     @@ <<"f", "inner">> :> Def(<<Call(2, <<"h">>), Call(3, <<"inner">>)>>, {})
                     @@ <<"h">> :> Def(<<>>, {})
                     @@ <<"C", "m">> :> [Def(<<Call(5, <<"self", "n">>), Call(5, <<"run">>)>>, {"self", "run"})
                                          EXCEPT !.self = own, !.imports = "run" :> From("impl", "run")]
                     @@ <<"C", "n">> :> Def(<<Call(6, <<"h">>)>>, {"self"}),
     bindings |-> NoImports, ambiguous |-> twice] :
    locals \in {{"inner"}, {"inner", "h"}}, own \in BOOLEAN,
    twice \in {{}, {<<"h">>}, {<<"f", "inner">>}} }
MCTraceModules == FlatModules \cup NestedModules

-----------------------------------------------------------------------------
\* OfflineAgent: one set of files in two orders.
MCOfflineHits == {<<"a", "b">>, <<"b", "a">>, <<"a">>}

-----------------------------------------------------------------------------
\* TraceArchive.  Copies of a legacy record, a record that breaks lines,
\* one that is invalid, a file that cannot be parsed.
Legacy(id, breaks) ==
  [kind |-> "legacy", id |-> id, revision |-> 1, updated |-> None, text |-> "legacy",
   context |-> None, breaks |-> breaks]
NoTrace(kind) == [Legacy(None, FALSE) EXCEPT !.kind = kind]
Export(text) == [Legacy("n", FALSE) EXCEPT !.kind = "native", !.text = text]
File(format, parses, escaped, records) ==
  [format |-> format, parses |-> parses, escaped |-> escaped, records |-> records]

MCArchiveContents ==
  { File("json", TRUE, FALSE, <<Legacy("x", FALSE)>>),
    File("jsonl", TRUE, FALSE, <<NoTrace("other"), Legacy("x", FALSE)>>),
    File("jsonl", TRUE, TRUE, <<Legacy("y", TRUE)>>),
    File("json", TRUE, FALSE, <<Legacy("y", TRUE), NoTrace("invalid")>>),
    File("jsonl", FALSE, FALSE, <<>>) }

\* And pages of one row, while a run is saved twice and one file is imported.
MCHistoryContents ==
  { File("json", TRUE, FALSE, <<Legacy("x", FALSE), Legacy("y", FALSE)>>),
    File("json", TRUE, FALSE, <<Export("a"), Export("b")>>) }

MCArchiveIds == <<"n", "r", "x", "y">>
MCArchiveSettings ==
  { [contents |-> MCArchiveContents, selections |-> {<<>>, <<"p", "p">>}, filters |-> {},
     maxRevision |-> 1, maxArchives |-> 2],
    [contents |-> MCHistoryContents, selections |-> {<<>>, <<"p">>}, filters |-> {None, "legacy_import"},
     maxRevision |-> 2, maxArchives |-> 1] }
=============================================================================
