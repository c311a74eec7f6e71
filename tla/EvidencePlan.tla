---------------------------- MODULE EvidencePlan ----------------------------
(***************************************************************************)
(* The planning workflow of Learning Mode, learning/workflow.py: search    *)
(* the repository, read each hit again, cut the evidence to the size of    *)
(* the context, ask the model for a plan, and accept it only when every    *)
(* citation lies in what the model was shown.                              *)
(*                                                                         *)
(* A text is the sequence of the lengths of its lines; what those lines    *)
(* say is abstracted.  read_file numbers the lines it returns, so that a   *)
(* shown line is known by its number whatever is stripped around it.       *)
(***************************************************************************)
EXTENDS Integers, Sequences, Numbers

CONSTANTS
  Files,                 \* paths of the repository
  Texts,                 \* what a file may contain
  ChunkSize, Overlap,    \* LearningWorkflowConfig
  TopK,                  \* rows a search returns at most
  MaxContext,            \* max_context_chars
  Overhead,              \* len(path) + 120, what a row costs besides its text
  Reserve,               \* 160, the rest that is too little for another row
  MaxEdits,              \* bound: edits by the user during one run
  None

VARIABLES
  pc,        \* the node of the graph, and in collect_evidence the row it is at
  disk,      \* [Files -> Texts], the working tree
  edits,     \* edits so far
  rows,      \* the rows of the search
  observed,  \* the rows that were read again
  evidence,  \* state["evidence"]: what is sent to the model
  catalog,   \* state["evidence_catalog"]
  plan,      \* the citations of the accepted plan, or None
  error      \* state["error"]["code"], or None

vars == <<pc, disk, edits, rows, observed, evidence, catalog, plan, error>>

\* split_code_by_lines: where the chunks of a text of n lines start.
ChunkStarts(n) ==
  LET step == ChunkSize - Overlap
  IN {s \in 1 .. n : /\ (s - 1) % step = 0
                     /\ s = 1 \/ s - step + ChunkSize <= n}

Chunks(path) ==
  LET n == Len(disk[path])
  IN {[path |-> path, start |-> s, end |-> Lesser(s + ChunkSize - 1, n)] : s \in ChunkStarts(n)}

\* ReadOnlyAgentTools.read_file.
ReadFile(path, first, last) ==
  LET text == disk[path]
      end  == Lesser(Len(text), last)
  IN [path |-> path, start |-> first, end |-> end, total |-> Len(text),
      text |-> [i \in 1 .. end - first + 1 |-> [no |-> first + i - 1, len |-> text[first + i - 1]]]]

\* Length of lines joined by line breaks.
Size(text) == IF text = <<>> THEN 0 ELSE Sum([i \in DOMAIN text |-> text[i].len]) + Len(text) - 1

-----------------------------------------------------------------------------
\* The longest run of whole lines that fits; each costs its line break too.
Fitting(text, budget) ==
  LET fits == {n \in 1 .. Len(text) : Size(SubSeq(text, 1, n)) + 1 <= budget}
  IN IF fits = {} THEN <<>> ELSE SubSeq(text, 1, Greatest(fits))

\* One row of compact_evidence; `full` once a row did not fit.
X_Compacted(acc, row) ==
  LET remaining == MaxContext - acc.used
      budget == remaining - Overhead
      text == IF Size(row.text) <= budget THEN row.text ELSE Fitting(row.text, budget)
  IN IF acc.full \/ remaining <= Reserve \/ text = <<>> THEN [acc EXCEPT !.full = TRUE]
     ELSE [rows |-> Append(acc.rows, [path |-> row.path, start |-> row.start, end |-> row.end,
                                     total |-> row.total, text |-> text]),
           used |-> acc.used + Overhead + Size(text), full |-> FALSE]

Compacted(acc, row) ==
  LET remaining == MaxContext - acc.used
      budget == remaining - Overhead
      text == IF Size(row.text) <= budget THEN row.text ELSE Fitting(row.text, budget)
  IN IF acc.full \/ remaining <= Reserve \/ text = <<>> THEN [acc EXCEPT !.full = TRUE]
     ELSE [rows |-> Append(acc.rows, [path |-> row.path, start |-> row.start,
                                     end |-> Lesser(row.end, row.start + Len(text) - 1),
                                     total |-> row.total, text |-> text]),
           used |-> acc.used + Overhead + Size(text), full |-> FALSE]

\* What there is after each of the rows.
Compaction(seq) ==
  LET acc[n \in 0 .. Len(seq)] ==
        IF n = 0 THEN [rows |-> <<>>, used |-> 0, full |-> FALSE] ELSE Compacted(acc[n - 1], seq[n])
  IN acc

CompactEvidence(seq) == Compaction(seq)[Len(seq)].rows

\* build_evidence_catalog: total_lines is that of the first row of the file;
\* ranges that overlap or touch are one, which as a set of lines they are too.
Catalog(seq) ==
  LET Of(p)    == {i \in DOMAIN seq : seq[i].path = p}
      First(p) == CHOOSE i \in Of(p) : \A j \in Of(p) : i <= j
  IN [p \in {seq[i].path : i \in DOMAIN seq} |->
        [total |-> seq[First(p)].total, lines |-> UNION {seq[i].start .. seq[i].end : i \in Of(p)}]]

\* validate_plan_evidence of one EvidenceRef.
Supported(ref) ==
  /\ ref.path \in DOMAIN catalog
  /\ ref.end <= catalog[ref.path].total
  /\ ref.start .. ref.end \subseteq catalog[ref.path].lines

-----------------------------------------------------------------------------
Init ==
  /\ pc = "search"
  /\ disk \in [Files -> Texts]
  /\ edits = 0
  /\ rows = <<>> /\ observed = <<>> /\ evidence = <<>>
  /\ catalog = [p \in {} |-> None]
  /\ plan = None /\ error = None

\* The user saves a file while the run goes on.
EditFile(path, text) ==
  /\ pc \in {"search", "read"} /\ edits < MaxEdits /\ text # disk[path]
  /\ disk' = [disk EXCEPT ![path] = text]
  /\ edits' = edits + 1
  /\ UNCHANGED <<pc, rows, observed, evidence, catalog, plan, error>>

\* failure_update: the router ends the graph.
Fail(code) == error' = code /\ pc' = "end"

\* load_source_files and search_code.  The search may find nothing, and find
\* a chunk twice.
Search ==
  /\ pc = "search"
  /\ LET found == UNION {Chunks(p) : p \in Files} IN
     \/ found = {} /\ Fail("empty_repository") /\ UNCHANGED rows
     \/ found # {} /\ Fail("repository_error") /\ UNCHANGED rows
     \/ /\ rows' \in UNION {[1 .. n -> found] : n \in 1 .. TopK}
        /\ pc' = "read" /\ UNCHANGED error
  /\ UNCHANGED <<disk, edits, observed, evidence, catalog, plan>>

\* One turn of the loop over the rows.
ReadRow ==
  LET row == rows[1]
      result == ReadFile(row.path, row.start, row.end)
      seen == \E i \in DOMAIN observed : /\ observed[i].path = row.path
                                         /\ observed[i].start = row.start
                                         /\ observed[i].end = row.end
  IN /\ pc = "read" /\ rows # <<>>
     /\ rows' = Tail(rows)
     /\ \/ seen /\ UNCHANGED <<pc, observed, error>>
        \/ ~seen /\ result.end = row.end
           /\ observed' = Append(observed, result) /\ UNCHANGED <<pc, error>>
        \/ ~seen /\ result.end # row.end
           /\ Fail("repository_error") /\ UNCHANGED observed
     /\ UNCHANGED <<disk, edits, evidence, catalog, plan>>

\* The end of collect_evidence.
Collect ==
  LET compacted == CompactEvidence(observed)
  IN /\ pc = "read" /\ rows = <<>>
     /\ IF compacted = <<>>
        THEN Fail("repository_error") /\ UNCHANGED <<evidence, catalog>>
        ELSE /\ evidence' = compacted /\ catalog' = Catalog(compacted)
             /\ pc' = "analyze" /\ UNCHANGED error
     /\ UNCHANGED <<disk, edits, rows, observed, plan>>

\* analyze_and_plan: the model fails, returns what the schema refuses, or a
\* plan with these citations; EvidenceRef bounds their lines from below.
Analyze(refs) ==
  /\ pc = "analyze"
  /\ \/ \E code \in {"model_error", "invalid_model_output"} : Fail(code) /\ UNCHANGED plan
     \/ \E ref \in refs : ~Supported(ref) /\ Fail("invalid_evidence") /\ UNCHANGED plan
     \/ /\ \A ref \in refs : Supported(ref)
        /\ plan' = refs /\ pc' = "present" /\ UNCHANGED error
  /\ UNCHANGED <<disk, edits, rows, observed, evidence, catalog>>

Present ==
  /\ pc = "present"
  /\ pc' = "end"
  /\ UNCHANGED <<disk, edits, rows, observed, evidence, catalog, plan, error>>

MaxLine == 1 + Greatest({Len(t) : t \in Texts})
Refs == {r \in [path : Files, start : 1 .. MaxLine, end : 1 .. MaxLine] : r.start <= r.end}

Next ==
  \/ Search \/ ReadRow \/ Collect \/ Present
  \/ \E path \in Files, text \in Texts : EditFile(path, text)
  \/ \E first, second \in Refs : Analyze({first, second})

-----------------------------------------------------------------------------
\* The length of a context.
Cost(seq) == Sum([i \in DOMAIN seq |-> Overhead + Size(seq[i].text)])

Shown(path) == UNION {{evidence[i].text[k].no : k \in DOMAIN evidence[i].text} :
                        i \in {j \in DOMAIN evidence : evidence[j].path = path}}

\* Prompt of analyze_and_plan, "只能引用这些精确路径和行范围", and README on its
\* context limit: an accepted plan cites only lines whose text was in the
\* prompt, whatever was edited, cut or found twice before; the prompt is
\* within its limit; and unless a file changed in between, the model may cite
\* each range that it was told it may.
CitationsAreShown ==
  /\ plan # None => \A ref \in plan : ref.start .. ref.end \subseteq Shown(ref.path)
  /\ Cost(evidence) <= MaxContext
  /\ edits = 0 => \A i \in DOMAIN evidence :
       Supported([path |-> evidence[i].path, start |-> evidence[i].start, end |-> evidence[i].end])
  /\ error # None => plan = None
-----------------------------------------------------------------------------
\* What carries it.  A fragment is a range of a file with each of its lines.
Fragment ==
  {r \in [path : Files, start : Nat \ {0}, end : Nat, total : Nat, text : Seq([no : Nat, len : Nat])] :
     /\ r.start <= r.end /\ r.end <= r.total
     /\ Len(r.text) = r.end - r.start + 1
     /\ \A k \in DOMAIN r.text : r.text[k].no = r.start + k - 1}

\* As long as nothing was edited, the rows of a file agree on its length.
Observed == {r \in Fragment : edits = 0 => r.total = Len(disk[r.path])}

CitationInv ==
  /\ edits \in Nat /\ disk \in [Files -> Texts]
  /\ pc \in {"search", "read", "analyze", "present", "end"}
  /\ rows \in Seq([path : Files, start : Nat \ {0}, end : Nat])
  /\ \A i \in DOMAIN rows : rows[i].start <= rows[i].end
  /\ observed \in Seq(Observed) /\ evidence \in Seq(Observed)
  /\ Cost(evidence) <= MaxContext
  /\ catalog = Catalog(evidence)
  /\ plan # None => \A ref \in plan : Supported(ref)
  /\ pc # "end" => error = None
  /\ pc \notin {"present", "end"} => plan = None
  /\ error # None => plan = None
=============================================================================
