---- MODULE LearningSession ----
(***************************************************************************)
(* Learning Mode: one page (or a program that calls the endpoint) holds a  *)
(* teaching session, sends it with every action and gets the next one      *)
(* back.  The server keeps nothing but its key: a session counts when it   *)
(* carries this key's signature, so an old one may come again at any time. *)
(* Pages share no state, hence one of them is enough.                      *)
(*                                                                         *)
(* A step is its position in the plan.  Texts are their lengths, in the    *)
(* units in which the limit on a session is counted; the passing reviews   *)
(* of all steps have the same length.                                      *)
(***************************************************************************)
EXTENDS Naturals, Sequences, FiniteSets, SequencesExt

CONSTANTS
    Plans,        \* what the planning model may return: steps and length
    ReviewSize,   \* what a passing review adds to the session
    GapSize,      \* what the gaps and the hint of a failing one add to that
    EventSize,    \* what an event of the history adds
    Answers,      \* lengths of the reflections that are not blank
    MaxSigned,    \* MAX_SIGNED_SESSION_CHARS
    MaxKeys,      \* bound: server processes, each with a key of its own
    None          \* the Python None

ASSUME SizesAssumption ==
    /\ Plans \subseteq [steps : Nat \ {0}, size : Nat]
    /\ {ReviewSize, GapSize, EventSize, MaxSigned} \subseteq Nat
    /\ Answers \subseteq Nat \ {0}
    /\ MaxKeys \in Nat \ {0}

Phases == {"awaiting_submission", "needs_revision", "awaiting_reflection", "completed"}
Outcomes == {"started", "insufficient_submission", "needs_revision",
             "awaiting_reflection", "advanced", "completed"}
Codes == {"invalid_request", "invalid_session", "action_phase_mismatch",
          "planning_failed", "model_error", "invalid_model_output", "session_error"}
Reviews == [step : Nat, attempt : Nat, source : {"precheck", "model"}, passed : BOOLEAN]
Events == [turn : Nat, action : {"start", "submit", "reflect"}, from : Phases \cup {None},
           to : Phases, step : Nat, outcome : Outcomes]

\* reflections has the step of each answer; size is the length of the session
\* as JSON; key is the process that signed it, 0 for none.
Sessions ==
    [plan : Plans, index : Nat, phase : Phases, reviews : Seq(Reviews),
     reflections : Seq(Nat), history : Seq(Events), size : Nat, key : Nat]

ASSUME NoneAssumption ==
    /\ None \notin Sessions /\ None \notin Reviews
    /\ None \notin Codes /\ None \notin {"start", "submit", "reflect"}

VARIABLES
    key,      \* learning_signing_key of the running process
    at,       \* where the request is: a place in the server, or with the page
    request,
    verdict,  \* review in the state of the graph: did the model let it pass?
    result,   \* LearningSessionResult
    held,     \* learningSession of the page
    next      \* learningNextAction of the page

vars == <<key, at, request, verdict, result, held, next>>
----
Unfinished(s) == s.phase # "completed"
AwaitsSubmission(s) == s.phase \in {"awaiting_submission", "needs_revision"}

\* session_view: what the phase of a session asks for.
NextAction(s) ==
    IF s = None \/ ~Unfinished(s) THEN "none"
    ELSE IF s.phase = "awaiting_reflection" THEN "reflect" ELSE "submit"

SubmitSize == ReviewSize + EventSize
ReflectSize(answer) == answer + EventSize

\* The shortest way to the end of the plan from step i: one review that passes
\* and an answer of one character for each step.
RestSize(s, i) == (s.plan.steps - i) * (SubmitSize + ReflectSize(1))

\* Mutant: only what the session is now counts.
CompletionSize_Now(s) == s.size

\* session_has_completion_headroom: the length of the session at that end.
CompletionSize(s) ==
    s.size
      + (IF Unfinished(s) THEN ReflectSize(1) + RestSize(s, s.index) ELSE 0)
      + (IF AwaitsSubmission(s) THEN SubmitSize ELSE 0)

Fits(s) == s.size <= MaxSigned /\ CompletionSize(s) <= MaxSigned

\* Where the session has its reviews of step i, the last of them if there is one,
\* and whether it passed.
ReviewsOf(s, i) == {j \in DOMAIN s.reviews : s.reviews[j].step = i}
Latest(s, i) == {s.reviews[j] : j \in {k \in ReviewsOf(s, i) : \A l \in ReviewsOf(s, i) : l <= k}}
Passed(s, i) == \E r \in Latest(s, i) : r.passed

\* The part of validate_session_state about the reviews.
ReviewsAreLawful(s) ==
    \A j \in DOMAIN s.reviews :
        LET r == s.reviews[j]
            before == {i \in ReviewsOf(s, r.step) : i < j}
        IN  /\ r.step \in 1..s.index
            /\ \A i \in 1..(j - 1) : s.reviews[i].step <= r.step
            /\ r.attempt = Cardinality(before) + 1
            /\ \A i \in before : ~s.reviews[i].passed
            /\ r.source = "precheck" => ~r.passed

\* The part about the phase and the position in the plan.
PhaseIsLawful(s) ==
    LET current == ReviewsOf(s, s.index)
    IN  /\ s.reflections = [i \in 1..Len(s.reflections) |-> i]
        /\ Len(s.reflections) <= s.plan.steps
        /\ \A i \in 1..(s.index - 1) : Passed(s, i) /\ i <= Len(s.reflections)
        /\ IF Unfinished(s) THEN Len(s.reflections) = s.index - 1
           ELSE /\ s.index = s.plan.steps
                /\ Len(s.reflections) = s.plan.steps
                /\ \A i \in 1..s.plan.steps : Passed(s, i)
        /\ s.phase = "needs_revision" => current # {} /\ ~Passed(s, s.index)
        /\ s.phase = "awaiting_reflection" => Passed(s, s.index)
        /\ s.phase = "awaiting_submission" => current = {}

\* The event that a review, or the reflection on step i, has to have.
MatchesReview(e, r) ==
    /\ e.step = r.step
    /\ e.from \in {"awaiting_submission", "needs_revision"}
    /\ e.to = IF r.passed THEN "awaiting_reflection" ELSE "needs_revision"
    /\ e.outcome = IF r.source = "precheck" THEN "insufficient_submission" ELSE e.to
MatchesReflection(e, i, steps) ==
    /\ e.step = i
    /\ e.from = "awaiting_reflection"
    /\ e.to = IF i = steps THEN "completed" ELSE "awaiting_submission"
    /\ e.outcome = IF i = steps THEN "completed" ELSE "advanced"

\* How many of the first j events are of an action.
CountOf(h, action, j) == Cardinality({i \in 1..j : h[i].action = action})

\* The part about the history.
HistoryIsLawful(s) ==
    LET h == s.history
        Of(action, j) == CountOf(h, action, j)
    IN  /\ h # <<>>
        /\ \A j \in DOMAIN h : h[j].turn = j
        /\ h[1] = [turn |-> 1, action |-> "start", from |-> None,
                   to |-> "awaiting_submission", step |-> 1, outcome |-> "started"]
        /\ Last(h).to = s.phase
        /\ Of("submit", Len(h)) = Len(s.reviews)
        /\ Of("reflect", Len(h)) = Len(s.reflections)
        /\ \A j \in 2..Len(h) :
            /\ h[j].from = h[j - 1].to
            /\ \/ h[j].action = "submit" /\ MatchesReview(h[j], s.reviews[Of("submit", j)])
               \/ /\ h[j].action = "reflect"
                  /\ MatchesReflection(h[j], s.reflections[Of("reflect", j)], s.plan.steps)

\* LearningSession.validate_session_state.
Valid(s) ==
    /\ s.index \in 1..s.plan.steps
    /\ ReviewsAreLawful(s) /\ PhaseIsLawful(s) /\ HistoryIsLawful(s)

\* issue_signed_session refuses the others.
Issuable(s) == Valid(s) /\ Fits(s)

Signed(s) == [s EXCEPT !.key = key]
Verified(s) == s.key = key
----
Event(s, action, to, outcome) ==
    [turn |-> Len(s.history) + 1, action |-> action, from |-> s.phase, to |-> to,
     step |-> s.index, outcome |-> outcome]

\* The session that a plan starts with.
Started(plan) ==
    [plan |-> plan, index |-> 1, phase |-> "awaiting_submission", reviews |-> <<>>,
     reflections |-> <<>>, size |-> plan.size + EventSize, key |-> 0,
     history |-> <<[turn |-> 1, action |-> "start", from |-> None,
                    to |-> "awaiting_submission", step |-> 1, outcome |-> "started"]>>]

\* Mutant: the attempts of all steps are counted together.
Attempt_OfAll(s) == Len(s.reviews) + 1

Attempt(s) == Cardinality(ReviewsOf(s, s.index)) + 1

\* apply_review_to_session.
Reviewed(s, source, passed) ==
    LET to == IF passed THEN "awaiting_reflection" ELSE "needs_revision"
        outcome == IF source = "precheck" THEN "insufficient_submission" ELSE to
        record == [step |-> s.index, attempt |-> Attempt(s), source |-> source,
                   passed |-> passed]
    IN  [s EXCEPT !.phase = to, !.reviews = Append(@, record),
                  !.history = Append(@, Event(s, "submit", to, outcome)),
                  !.size = @ + SubmitSize + (IF passed THEN 0 ELSE GapSize)]

\* The update of apply_reflection.
Reflected(s, answer) ==
    LET last == s.index = s.plan.steps
        to == IF last THEN "completed" ELSE "awaiting_submission"
        outcome == IF last THEN "completed" ELSE "advanced"
    IN  [s EXCEPT !.phase = to, !.index = IF last THEN @ ELSE @ + 1,
                  !.reflections = Append(@, s.index),
                  !.history = Append(@, Event(s, "reflect", to, outcome)),
                  !.size = @ + ReflectSize(answer)]
----
Failure(s, code) ==
    [status |-> "failed", action |-> request.action, session |-> s,
     next |-> NextAction(s), review |-> None, feedback |-> FALSE, code |-> code]

\* review is the one just recorded, feedback says whether there are gaps to show.
Success(s, review) ==
    [status |-> "success", action |-> request.action, session |-> s,
     next |-> NextAction(s), review |-> review,
     feedback |-> review # None /\ ~review.passed, code |-> None]

\* LearningSessionResult.validate_result_state, of a result with a session.
ResultIsLawful(r) ==
    LET s == r.session
    IN  \/ s = None
        \/ r.status = "failed" /\ r.review = None /\ ~r.feedback
        \/ /\ r.status = "success"
           /\ r.action = Last(s.history).action
           /\ r.next = NextAction(s)
           /\ IF s.phase \in {"needs_revision", "awaiting_reflection"}
              THEN /\ r.review \in Latest(s, s.index)
                   /\ r.feedback = (s.phase = "needs_revision")
              ELSE r.review = None /\ ~r.feedback

\* finalize and session_result_from_state: a result that its model refuses turns
\* into a failure that shows the session of the request.
Finish(r) ==
    /\ result' = IF ResultIsLawful(r) THEN r ELSE Failure(request.session, "session_error")
    /\ at' = "reply"
    /\ verdict' = None
    /\ UNCHANGED <<key, request, held, next>>

Fail(s, code) == Finish(Failure(s, code))

\* The next session is signed and goes back, or the old one with an error.
Issue(s, review) ==
    IF Issuable(s) THEN Finish(Success(Signed(s), review))
    ELSE Fail(request.session, "session_error")

GoTo(place) ==
    /\ at' = place
    /\ UNCHANGED <<key, request, verdict, result, held, next>>
----
NoRequest == [action |-> None, session |-> None, form |-> "fine", text |-> 0]

Init ==
    /\ key = 1
    /\ at = "page"
    /\ request = NoRequest
    /\ verdict = None
    /\ result = None
    /\ held = None
    /\ next = "start"

\* A request in the forms it may have: fine, not of its schema, longer than
\* MAX_SESSION_REQUEST_CHARS, or with a session that was changed on the way so
\* that it no longer is one ("broken") or only has a wrong signature ("altered").
\* text is the length of the reflection, or says whether both parts of a
\* submission have text.  A page with a session never sends "start".
Send ==
    /\ at = "page"
    /\ \E action \in (IF held = None THEN {"start"} ELSE {"submit", "reflect"}),
          form \in {"fine", "malformed", "huge", "broken", "altered"},
          text \in Answers \cup {0} :
        /\ form \in {"broken", "altered"} => held # None
        /\ action = "start" => text = 0
        /\ action = "submit" => text \in {0, 1}
        /\ request' = [action |-> action, form |-> form, text |-> text,
                       session |-> IF form = "altered" THEN [held EXCEPT !.key = 0]
                                   ELSE held]
    /\ at' = "admit"
    /\ UNCHANGED <<key, verdict, result, held, next>>

\* run_learning_session, as far as it does without the graph.
Refuse ==
    /\ at = "admit"
    /\ LET s == request.session
           trusted == s # None /\ request.form # "broken" /\ Verified(s)
       IN  \/ request.form = "huge" /\ Fail(None, "invalid_request")
           \/ /\ request.form = "malformed"
              /\ IF s # None /\ ~trusted THEN Fail(None, "invalid_session")
                 ELSE Fail(s, "invalid_request")
           \/ /\ request.form \in {"fine", "broken", "altered"}
              /\ s # None /\ ~trusted
              /\ Fail(None, "invalid_session")

Admit ==
    /\ at = "admit"
    /\ request.form = "fine"
    /\ request.session # None => Verified(request.session)
    /\ GoTo("dispatch")

\* dispatch routes by the action and the phase.
Dispatch ==
    /\ at = "dispatch"
    /\ LET s == request.session
       IN  \/ request.action = "start" /\ GoTo("collect")
           \/ request.action = "submit" /\ AwaitsSubmission(s) /\ GoTo("submission")
           \/ request.action = "reflect" /\ s.phase = "awaiting_reflection" /\ GoTo("reflection")

Mismatch ==
    /\ at = "dispatch"
    /\ LET s == request.session
       IN  \/ request.action = "submit" /\ ~AwaitsSubmission(s)
           \/ request.action = "reflect" /\ s.phase # "awaiting_reflection"
    /\ Fail(request.session, "action_phase_mismatch")

\* The planning workflow: collect_evidence finds something to read, or not.
CollectEvidence ==
    /\ at = "collect"
    /\ GoTo("analyze") \/ Fail(None, "planning_failed")

\* What analyze_and_plan and present_step leave: None when the model fails, answers
\* no plan, or cites evidence that was not collected.
Analyzed == Plans \cup {None}

\* start_session, with the outcome of the workflow.
StartSession ==
    /\ at = "analyze"
    /\ \E plan \in Analyzed :
        IF plan = None THEN Fail(None, "planning_failed") ELSE Issue(Started(plan), None)

\* validate_submission: a blank part is reviewed without the model.
Precheck ==
    /\ at = "submission"
    /\ IF request.text # 0 THEN GoTo("review")
       ELSE LET s == Reviewed(request.session, "precheck", FALSE)
            IN  Issue(s, Last(s.reviews))

\* review_submission: the model passes it or not, fails, or answers something
\* that is no review of exactly the items of the step.
ReviewSubmission ==
    /\ at = "review"
    /\ \/ /\ verdict' \in BOOLEAN
          /\ at' = "apply"
          /\ UNCHANGED <<key, request, result, held, next>>
       \/ \E code \in {"model_error", "invalid_model_output"} : Fail(request.session, code)

ApplyReview ==
    /\ at = "apply"
    /\ LET s == Reviewed(request.session, "model", verdict)
       IN  Issue(s, Last(s.reviews))

ApplyReflection ==
    /\ at = "reflection"
    /\ IF request.text = 0 THEN Fail(request.session, "invalid_request")
       ELSE Issue(Reflected(request.session, request.text), None)
----
ToPage(session, action) ==
    /\ at' = "page"
    /\ request' = NoRequest
    /\ verdict' = None
    /\ result' = None
    /\ held' = session
    /\ next' = action

\* Mutant: the session of the answer is taken, even when it has none.
Receive_TakesNone ==
    /\ at = "reply"
    /\ ToPage(result.session, IF result.session = None THEN "start" ELSE result.next)
    /\ UNCHANGED key

\* runLearningTask reads the answer.
Receive ==
    /\ at = "reply"
    /\ \/ /\ result.code = "invalid_session" /\ result.session = None
          /\ ToPage(None, "start")
       \/ /\ result.session # None
          /\ ToPage(result.session, result.next)
       \/ /\ result.session = None /\ result.code # "invalid_session"
          /\ ToPage(held, IF held = None THEN "start" ELSE next)
    /\ UNCHANGED key

\* The connection breaks, or the server answers with an HTTP error: the page
\* keeps what it has, whatever the server did.
Disconnect ==
    /\ at # "page"
    /\ ToPage(held, next)
    /\ UNCHANGED key

\* A new server process has a new key; a request in it is lost.
Restart ==
    /\ key < MaxKeys
    /\ key' = key + 1
    /\ ToPage(held, next)

\* The page is loaded again.
Refresh ==
    /\ at = "page"
    /\ ToPage(None, "start")
    /\ UNCHANGED key

Next ==
    \/ Send \/ Refuse \/ Admit \/ Dispatch \/ Mismatch
    \/ CollectEvidence \/ StartSession \/ Precheck \/ ReviewSubmission \/ ApplyReview
    \/ ApplyReflection
    \/ Receive \/ Disconnect \/ Restart \/ Refresh

Spec == Init /\ [][Next]_vars
----
Places ==
    {"page", "admit", "dispatch", "collect", "analyze", "submission", "review",
     "apply", "reflection", "reply"}
Actions == {"start", "submit", "reflect"}

Requests ==
    [action : Actions \cup {None}, session : Sessions \cup {None},
     form : {"fine", "malformed", "huge", "broken", "altered"}, text : Nat]

Results ==
    [status : {"success", "failed"}, action : Actions, session : Sessions \cup {None},
     next : {"submit", "reflect", "none"}, review : Reviews \cup {None},
     feedback : BOOLEAN, code : Codes \cup {None}]

TypeOK ==
    /\ key \in 1..MaxKeys
    /\ at \in Places
    /\ request \in Requests
    /\ verdict \in BOOLEAN \cup {None}
    /\ result \in Results \cup {None}
    /\ held \in Sessions \cup {None}
    /\ next \in Actions \cup {"none"}

\* The shortest next action that succeeds.
Shortest(s) == IF AwaitsSubmission(s) THEN Reviewed(s, "model", TRUE) ELSE Reflected(s, 1)

\* session_has_completion_headroom: "refuse states that the size limit blocks for
\* ever".  Whatever was recorded before, a learner whose next submission passes, or
\* who answers in one character, is not refused for the length of the session.
NeverStuck == held # None /\ Unfinished(held) => Fits(Shortest(held))

\* What the action under way would sign.
Candidates ==
    CASE at = "analyze" -> {Started(plan) : plan \in Plans}
      [] at = "submission" -> {Reviewed(request.session, "precheck", FALSE)}
      [] at = "apply" -> {Reviewed(request.session, "model", verdict)}
      [] at = "reflection" -> {Reflected(request.session, request.text)}
      [] OTHER -> {}

\* A session_error only ever says that the session would grow too long: the
\* models that check every session and every result never refuse what the actions
\* themselves produce from a session they signed.
ErrorsAreAboutLength ==
    [][at' = "reply" /\ result'.code = "session_error" =>
        \E s \in Candidates : ~Fits(s)]_vars

Extends(s, old) ==
    /\ s.plan = old.plan
    /\ Len(s.history) = Len(old.history) + 1
    /\ \A f \in {"history", "reviews", "reflections"} : IsPrefix(old[f], s[f])

\* The page never loses progress to an error, a broken connection or a model that
\* answers nonsense: while the server lives, its session stays or gets one event
\* more.  Only a reload, or a session the page itself has spoiled, starts again.
ProgressIsKept ==
    [][held # None /\ held.key = key /\ held' # held =>
        \/ held' # None /\ Extends(held', held)
        \/ at = "page"
        \/ request.form \in {"broken", "altered"}]_vars
====
