---- MODULE LearningSession_proofs ----
(***************************************************************************)
(* LearningSession for all plans, sizes and limits.                        *)
(*                                                                         *)
(* LInv: every session in the page, in the request and in the answer has   *)
(* the headroom that issue_signed_session asks for; the shortest next      *)
(* action uses up just what the headroom had set aside for it.  Hence the  *)
(* types, and that no learner is ever stuck for the length of the session. *)
(*                                                                         *)
(* VInv: every session that carries the key of the server is one that      *)
(* validate_session_state accepts, since the actions make lawful sessions  *)
(* of lawful ones, and an answer brings the page's own session or one that *)
(* continues it.  Hence errors are about length, and progress is kept.     *)
(***************************************************************************)
EXTENDS LearningSession, FiniteSetTheorems, SequenceTheorems, TLAPS

Sound(s) == s # None => s.index \in 1..s.plan.steps /\ Fits(s)

\* An answer that waits for the page has a sound session, or none.
AnswerIsSound == at = "reply" => Sound(result.session)

\* What the handlers rely on about the request they work for.
Routed ==
    /\ at # "page" => request.action \in Actions
    /\ request.action \in {"submit", "reflect"} => request.session \in Sessions
    /\ at \in {"submission", "review", "apply", "reflection"} =>
        request.action \in {"submit", "reflect"}
    /\ at = "apply" => verdict \in BOOLEAN
    /\ at = "reply" => result \in Results

LInv == TypeOK /\ Routed /\ Sound(held) /\ Sound(request.session) /\ AnswerIsSound

\* The number of an attempt is a number.
LEMMA AttemptType == ASSUME NEW s \in Sessions PROVE Attempt(s) \in Nat
<1>1. DOMAIN s.reviews = 1..Len(s.reviews) /\ Len(s.reviews) \in Nat
    BY DEF Sessions
<1>2. IsFiniteSet(1..Len(s.reviews))
    BY <1>1, FS_Interval
<1>3. IsFiniteSet(ReviewsOf(s, s.index))
    BY <1>1, <1>2, FS_Subset DEF ReviewsOf
<1>4. QED
    BY <1>3, FS_CardinalityType DEF Attempt

\* The event of a turn is an event.
LEMMA EventType ==
    ASSUME NEW s \in Sessions, NEW action \in {"submit", "reflect"}, NEW to \in Phases,
           NEW outcome \in Outcomes
    PROVE  Event(s, action, to, outcome) \in Events
<1>1. Len(s.history) + 1 \in Nat /\ s.phase \in Phases /\ s.index \in Nat
    BY DEF Sessions
<1>2. QED
    BY <1>1 DEF Event, Events

\* apply_review_to_session makes a session of a session.
LEMMA ReviewedType ==
    ASSUME NEW s \in Sessions, NEW source \in {"precheck", "model"}, NEW passed \in BOOLEAN
    PROVE  /\ Reviewed(s, source, passed) \in Sessions
           /\ Last(Reviewed(s, source, passed).reviews) \in Reviews
<1> DEFINE to == IF passed THEN "awaiting_reflection" ELSE "needs_revision"
           outcome == IF source = "precheck" THEN "insufficient_submission" ELSE to
           record == [step |-> s.index, attempt |-> Attempt(s), source |-> source,
                      passed |-> passed]
           event == Event(s, "submit", to, outcome)
<1>1. record \in Reviews
    BY AttemptType DEF Sessions, Reviews
<1>2. event \in Events
    <2>1. to \in Phases /\ outcome \in Outcomes BY DEF Phases, Outcomes
    <2>2. QED BY <2>1, EventType
<1>3. s.size + SubmitSize + (IF passed THEN 0 ELSE GapSize) \in Nat
    BY SizesAssumption DEF Sessions, SubmitSize
<1>4. Append(s.reviews, record) \in Seq(Reviews) /\ Append(s.history, event) \in Seq(Events)
    BY <1>1, <1>2 DEF Sessions
<1>5. to \in Phases
    BY DEF Phases
<1>6. Last(Append(s.reviews, record)) = record
    <2>1. s.reviews \in Seq(Reviews) BY DEF Sessions
    <2> QED BY <1>1, <2>1 DEF Last
<1>7. Reviewed(s, source, passed) =
        [s EXCEPT !.phase = to, !.reviews = Append(@, record),
                  !.history = Append(@, event),
                  !.size = @ + SubmitSize + (IF passed THEN 0 ELSE GapSize)]
    BY DEF Reviewed
<1> HIDE DEF to, record, event
<1>8. QED
    BY <1>1, <1>3, <1>4, <1>5, <1>6, <1>7 DEF Sessions

\* apply_reflection makes a session of a session.
LEMMA ReflectedType ==
    ASSUME NEW s \in Sessions, NEW answer \in Nat
    PROVE  Reflected(s, answer) \in Sessions
<1> DEFINE last == s.index = s.plan.steps
           to == IF last THEN "completed" ELSE "awaiting_submission"
           outcome == IF last THEN "completed" ELSE "advanced"
           event == Event(s, "reflect", to, outcome)
           index == IF last THEN s.index ELSE s.index + 1
<1>1. event \in Events
    <2>1. to \in Phases /\ outcome \in Outcomes BY DEF Phases, Outcomes
    <2>2. QED BY <2>1, EventType
<1>2. s.size + ReflectSize(answer) \in Nat
    BY SizesAssumption DEF Sessions, ReflectSize
<1>3. Append(s.reflections, s.index) \in Seq(Nat) /\ Append(s.history, event) \in Seq(Events)
    BY <1>1 DEF Sessions
<1>4. to \in Phases /\ index \in Nat
    BY DEF Phases, Sessions
<1>5. Reflected(s, answer) =
        [s EXCEPT !.phase = to, !.index = index, !.reflections = Append(@, s.index),
                  !.history = Append(@, event), !.size = @ + ReflectSize(answer)]
    BY DEF Reflected
<1> HIDE DEF to, event, index
<1>6. QED
    BY <1>2, <1>3, <1>4, <1>5 DEF Sessions

\* A plan starts a session.
LEMMA StartedType == ASSUME NEW plan \in Plans PROVE Started(plan) \in Sessions
<1>1. plan.size + EventSize \in Nat
    BY SizesAssumption
<1>2. <<[turn |-> 1, action |-> "start", from |-> None,
         to |-> "awaiting_submission", step |-> 1, outcome |-> "started"]>> \in Seq(Events)
    <2>1. [turn |-> 1, action |-> "start", from |-> None,
           to |-> "awaiting_submission", step |-> 1, outcome |-> "started"] \in Events
        BY DEF Events, Phases, Outcomes
    <2>2. QED BY <2>1
<1>3. QED
    BY <1>1, <1>2 DEF Started, Sessions, Phases
----
\* One step of the plan costs one step's share of the rest.
LEMMA RestType ==
    ASSUME NEW s \in Sessions, NEW i \in 1..s.plan.steps
    PROVE  /\ RestSize(s, i) \in Nat
           /\ i + 1 <= s.plan.steps =>
                RestSize(s, i) = RestSize(s, i + 1) + SubmitSize + ReflectSize(1)
           /\ i = s.plan.steps => RestSize(s, i) = 0
<1> DEFINE step == SubmitSize + ReflectSize(1)
           rest == s.plan.steps - i
<1>1. step \in Nat /\ SubmitSize \in Nat /\ ReflectSize(1) \in Nat
    BY SizesAssumption DEF SubmitSize, ReflectSize
<1>2. s.plan.steps \in Nat /\ rest \in Nat
    BY SizesAssumption DEF Sessions
<1>3. RestSize(s, i) = rest * step
    BY DEF RestSize
<1>4. rest * step \in Nat
    <2> HIDE DEF rest, step
    <2> QED BY <1>1, <1>2
<1>5. ASSUME i + 1 <= s.plan.steps
      PROVE  RestSize(s, i) = RestSize(s, i + 1) + SubmitSize + ReflectSize(1)
    <2>1. RestSize(s, i + 1) = (rest - 1) * step
        BY <1>2 DEF RestSize
    <2>2. rest * step = (rest - 1) * step + step
        <3> HIDE DEF rest, step
        <3> QED BY <1>1, <1>2
    <2>3. (rest - 1) * step \in Int
        <3> HIDE DEF rest, step
        <3> QED BY <1>1, <1>2
    <2>4. step = SubmitSize + ReflectSize(1)
        OBVIOUS
    <2> HIDE DEF rest, step
    <2>5. QED BY <1>1, <1>3, <2>1, <2>2, <2>3, <2>4
<1>6. ASSUME i = s.plan.steps PROVE RestSize(s, i) = 0
    <2>1. rest = 0 BY <1>2, <1>6
    <2> HIDE DEF rest, step
    <2>2. QED BY <1>1, <1>3, <2>1
<1>7. QED
    BY <1>3, <1>4, <1>5, <1>6

\* A session with headroom has room for the shortest next action, and keeps it.
LEMMA HeadroomIsEnough ==
    ASSUME NEW s \in Sessions, s.index \in 1..s.plan.steps, Fits(s), Unfinished(s)
    PROVE  Fits(Shortest(s))
<1>1. s.size \in Nat /\ MaxSigned \in Nat /\ SubmitSize \in Nat /\ ReflectSize(1) \in Nat
    BY SizesAssumption DEF Sessions, SubmitSize, ReflectSize
<1>2. RestSize(s, s.index) \in Nat
    BY RestType
<1>3. CASE AwaitsSubmission(s)
    <2> DEFINE n == Shortest(s)
    <2>1. /\ n.size = s.size + SubmitSize /\ n.phase = "awaiting_reflection"
          /\ n.index = s.index /\ n.plan = s.plan
        BY <1>1, <1>3 DEF Shortest, Reviewed, Sessions
    <2>2. RestSize(n, n.index) = RestSize(s, s.index)
        BY <2>1 DEF RestSize
    <2>3. CompletionSize(n) = n.size + (ReflectSize(1) + RestSize(s, s.index)) + 0
        BY <2>1, <2>2 DEF CompletionSize, Unfinished, AwaitsSubmission
    <2>4. CompletionSize(s) = s.size + (ReflectSize(1) + RestSize(s, s.index)) + SubmitSize
        BY <1>3 DEF CompletionSize, Unfinished, AwaitsSubmission
    <2>5. QED
        BY <1>1, <1>2, <2>1, <2>3, <2>4 DEF Fits
<1>4. CASE ~AwaitsSubmission(s)
    <2> DEFINE n == Shortest(s)
    <2>1. CompletionSize(s) = s.size + (ReflectSize(1) + RestSize(s, s.index)) + 0
        BY <1>4 DEF CompletionSize, Unfinished
    <2>2. n.size = s.size + ReflectSize(1) /\ n.plan = s.plan
        BY <1>1, <1>4 DEF Shortest, Reflected, Sessions
    <2>3. CASE s.index = s.plan.steps
        <3>1. n.phase = "completed"
            BY <1>4, <2>3 DEF Shortest, Reflected, Sessions
        <3>2. CompletionSize(n) = n.size + 0 + 0
            BY <3>1 DEF CompletionSize, Unfinished, AwaitsSubmission
        <3>3. QED
            BY <1>1, <1>2, <2>1, <2>2, <3>2 DEF Fits
    <2>4. CASE s.index # s.plan.steps
        <3>1. n.phase = "awaiting_submission" /\ n.index = s.index + 1
            BY <1>4, <2>4 DEF Shortest, Reflected, Sessions
        <3>2. /\ s.index + 1 \in 1..s.plan.steps
              /\ RestSize(s, s.index) =
                    RestSize(s, s.index + 1) + SubmitSize + ReflectSize(1)
            <4>1. s.index \in Nat /\ s.plan.steps \in Nat
                BY SizesAssumption DEF Sessions
            <4>2. s.index + 1 \in 1..s.plan.steps
                BY <2>4, <4>1
            <4>3. QED BY <4>1, <4>2, RestType
        <3>3. RestSize(n, n.index) = RestSize(s, s.index + 1) /\ RestSize(s, s.index + 1) \in Nat
            <4>1. RestSize(n, n.index) = RestSize(s, s.index + 1)
                BY <2>2, <3>1 DEF RestSize
            <4>2. QED BY <3>2, <4>1, RestType
        <3>4. CompletionSize(n) =
                n.size + (ReflectSize(1) + RestSize(s, s.index + 1)) + SubmitSize
            BY <3>1, <3>3 DEF CompletionSize, Unfinished, AwaitsSubmission
        <3>5. QED
            BY <1>1, <1>2, <2>1, <2>2, <3>2, <3>3, <3>4 DEF Fits
    <2>5. QED
        BY <2>3, <2>4
<1>5. QED
    BY <1>3, <1>4
----
\* A failure is a result, with the session it is given.
LEMMA FailureType ==
    ASSUME NEW s \in Sessions \cup {None}, NEW code \in Codes, request.action \in Actions
    PROVE  Failure(s, code) \in Results /\ Failure(s, code).session = s
BY DEF Failure, Results, NextAction

\* So is a success.
LEMMA SuccessType ==
    ASSUME NEW s \in Sessions, NEW review \in Reviews \cup {None}, request.action \in Actions
    PROVE  Success(s, review) \in Results /\ Success(s, review).session = s
<1>1. NextAction(s) \in {"submit", "reflect", "none"}
    BY DEF NextAction
<1>2. (review # None /\ ~review.passed) \in BOOLEAN
    OBVIOUS
<1>3. QED
    BY <1>1, <1>2 DEF Success, Results

\* Whatever a handler finishes with keeps the invariant, if its session is sound.
LEMMA FinishKeepsInv ==
    ASSUME LInv, request.action \in Actions, NEW r \in Results, Sound(r.session), Finish(r)
    PROVE  LInv'
<1>1. request \in Requests /\ request.session \in Sessions \cup {None}
    BY DEF LInv, TypeOK, Requests
<1> DEFINE f == Failure(request.session, "session_error")
<1>2. f \in Results /\ f.session = request.session
    BY <1>1, FailureType DEF Codes
<1>3. PICK a \in {r, f} : result' = a
    BY DEF Finish
<1>4. a \in Results /\ Sound(a.session)
    <2>1. Sound(request.session) BY DEF LInv
    <2> HIDE DEF f
    <2>2. QED BY <1>2, <2>1
<1> HIDE DEF f
<1>5. at' = "reply" /\ verdict' = None /\ UNCHANGED <<key, request, held, next>>
    BY DEF Finish
<1>6. TypeOK'
    BY <1>3, <1>4, <1>5 DEF LInv, TypeOK, Places
<1>7. Routed'
    BY <1>3, <1>4, <1>5 DEF LInv, Routed
<1>8. Sound(held)' /\ Sound(request.session)'
    BY <1>5 DEF LInv, Sound, Fits, CompletionSize, Unfinished, AwaitsSubmission, RestSize,
        SubmitSize, ReflectSize
<1>9. AnswerIsSound'
    BY <1>3, <1>4 DEF AnswerIsSound, Sound, Fits, CompletionSize, Unfinished,
        AwaitsSubmission, RestSize, SubmitSize, ReflectSize
<1>10. QED
    BY <1>6, <1>7, <1>8, <1>9 DEF LInv

\* A failure shows no session, or the one of the request.
LEMMA FailKeepsInv ==
    ASSUME LInv, request.action \in Actions, NEW s \in {None, request.session},
           NEW code \in Codes, Fail(s, code)
    PROVE  LInv'
<1>1. s \in Sessions \cup {None} /\ Sound(s)
    BY DEF LInv, TypeOK, Requests, Sound
<1>2. Failure(s, code) \in Results /\ Failure(s, code).session = s
    BY <1>1, FailureType
<1>3. QED
    BY <1>1, <1>2, FinishKeepsInv DEF Fail

\* What is issued has been found to have headroom.
LEMMA IssueKeepsInv ==
    ASSUME LInv, request.action \in Actions, NEW s \in Sessions,
           NEW review \in Reviews \cup {None}, Issue(s, review)
    PROVE  LInv'
<1>1. CASE Issuable(s)
    <2>1. Signed(s) \in Sessions
        BY DEF Signed, Sessions, LInv, TypeOK
    <2>2. Sound(Signed(s))
        BY <1>1 DEF Sound, Issuable, Valid, Signed, Sessions, Fits, CompletionSize, Unfinished,
            AwaitsSubmission, RestSize
    <2>3. Success(Signed(s), review) \in Results
          /\ Success(Signed(s), review).session = Signed(s)
        BY <2>1, SuccessType
    <2>4. QED
        BY <1>1, <2>2, <2>3, FinishKeepsInv DEF Issue
<1>2. CASE ~Issuable(s)
    BY <1>2, FailKeepsInv DEF Issue, Codes
<1>3. QED
    BY <1>1, <1>2

\* A handler that passes the request on keeps the invariant.
LEMMA GoToKeepsInv ==
    ASSUME LInv, request.action \in Actions,
           NEW place \in Places \ {"page", "apply", "reply"}, GoTo(place),
           place \in {"submission", "review", "reflection"} =>
                request.action \in {"submit", "reflect"}
    PROVE  LInv'
<1>1. at' = place /\ UNCHANGED <<key, request, verdict, result, held, next>>
    BY DEF GoTo
<1>2. TypeOK'
    BY <1>1 DEF LInv, TypeOK
<1>3. Routed'
    BY <1>1 DEF LInv, Routed
<1>4. Sound(held)' /\ Sound(request.session)' /\ AnswerIsSound'
    BY <1>1 DEF LInv, Sound, AnswerIsSound, Fits, CompletionSize, Unfinished, AwaitsSubmission,
        RestSize, SubmitSize, ReflectSize
<1>5. QED
    BY <1>2, <1>3, <1>4 DEF LInv

\* The page is free for the next action, with a session that is sound.
LEMMA ToPageKeepsInv ==
    ASSUME LInv, NEW s \in Sessions \cup {None}, Sound(s), NEW action \in Actions \cup {"none"},
           ToPage(s, action), key' \in 1..MaxKeys
    PROVE  LInv'
<1>2. /\ at' = "page" /\ request' = NoRequest /\ verdict' = None /\ result' = None
      /\ held' = s /\ next' = action
    BY DEF ToPage
<1>3. TypeOK'
    BY <1>2 DEF TypeOK, Requests, NoRequest, Places
<1>4. Routed'
    BY <1>2, NoneAssumption DEF Routed, NoRequest
<1>5. Sound(held)'
    BY <1>2 DEF Sound, Fits, CompletionSize, Unfinished, AwaitsSubmission,
        RestSize, SubmitSize, ReflectSize
<1>6. Sound(request.session)' /\ AnswerIsSound'
    BY <1>2 DEF Sound, AnswerIsSound, NoRequest
<1>7. QED
    BY <1>3, <1>4, <1>5, <1>6 DEF LInv
----
\* The page has nothing and nothing is under way.
LEMMA InitHolds == Init => LInv
BY NoneAssumption, SizesAssumption
   DEF Init, LInv, TypeOK, Routed, Sound, AnswerIsSound, NoRequest, Requests, Places, Actions

\* The page sends its session as it is, or with another signature.
LEMMA SendKeepsInv == LInv /\ Send => LInv'
<1> SUFFICES ASSUME LInv, Send PROVE LInv'
    OBVIOUS
<1>1. PICK action \in Actions, form \in {"fine", "malformed", "huge", "broken", "altered"},
           text \in Nat :
        /\ action = "start" <=> held = None
        /\ form = "altered" => held # None
        /\ request' = [action |-> action, form |-> form, text |-> text,
                       session |-> IF form = "altered" THEN [held EXCEPT !.key = 0]
                                   ELSE held]
    BY SizesAssumption DEF Send, Actions
<1> DEFINE s == IF form = "altered" THEN [held EXCEPT !.key = 0] ELSE held
<1>2. /\ request' = [action |-> action, form |-> form, text |-> text, session |-> s]
      /\ at' = "admit" /\ UNCHANGED <<key, verdict, result, held, next>>
    BY <1>1 DEF Send
<1>3. s \in Sessions \cup {None} /\ (held # None => s \in Sessions)
    BY <1>1 DEF LInv, TypeOK, Sessions
<1>4. Sound(s)
    <2>1. CASE form = "altered"
        <3>1. held \in Sessions /\ Sound(held) /\ held # None
            BY <1>1, <2>1 DEF LInv, TypeOK
        <3>2. /\ s.index = held.index /\ s.plan = held.plan /\ s.size = held.size
              /\ s.phase = held.phase
            BY <2>1, <3>1 DEF Sessions
        <3>3. QED
            BY <3>1, <3>2 DEF Sound, Fits, CompletionSize, Unfinished, AwaitsSubmission, RestSize
    <2>2. CASE form # "altered"
        BY <2>2 DEF LInv
    <2>3. QED
        BY <2>1, <2>2
<1> HIDE DEF s
<1>5. TypeOK'
    BY <1>2, <1>3 DEF LInv, TypeOK, Requests, Places
<1>6. Routed'
    BY <1>1, <1>2, <1>3 DEF LInv, Routed, Actions
<1>7. Sound(held)' /\ AnswerIsSound' /\ Sound(request.session)'
    BY <1>2, <1>4 DEF LInv, Sound, AnswerIsSound, Fits, CompletionSize, Unfinished, AwaitsSubmission,
        RestSize, SubmitSize, ReflectSize
<1>8. QED
    BY <1>5, <1>6, <1>7 DEF LInv

\* The server answers, with a failure or with a session it issues.
LEMMA ServerKeepsInv ==
    ASSUME LInv,
           \/ Refuse \/ Admit \/ Dispatch \/ Mismatch \/ CollectEvidence \/ StartSession
           \/ Precheck \/ ReviewSubmission \/ ApplyReview \/ ApplyReflection
    PROVE  LInv'
<1>1. at # "page" /\ request.action \in Actions /\ request \in Requests
    BY DEF LInv, TypeOK, Routed, Refuse, Admit, Dispatch, Mismatch, CollectEvidence, StartSession,
        Precheck, ReviewSubmission, ApplyReview, ApplyReflection
<1>2. CASE Refuse
    <2>1. PICK s \in {None, request.session}, code \in Codes : Fail(s, code)
        BY <1>2 DEF Refuse, Codes
    <2>2. QED
        BY <1>1, <2>1, FailKeepsInv
<1>3. CASE Admit
    BY <1>1, <1>3, GoToKeepsInv DEF Admit, Places
<1>4. CASE Dispatch
    <2>1. PICK place \in {"collect", "submission", "reflection"} :
            /\ GoTo(place)
            /\ place # "collect" => request.action \in {"submit", "reflect"}
        BY <1>4 DEF Dispatch
    <2>2. QED
        BY <1>1, <2>1, GoToKeepsInv DEF Places
<1>5. CASE Mismatch
    BY <1>1, <1>5, FailKeepsInv DEF Mismatch, Codes
<1>6. CASE CollectEvidence
    <2>1. CASE GoTo("analyze")
        BY <1>1, <2>1, GoToKeepsInv DEF Places
    <2>2. CASE Fail(None, "planning_failed")
        BY <1>1, <2>2, FailKeepsInv DEF Codes
    <2>3. QED
        BY <1>6, <2>1, <2>2 DEF CollectEvidence
<1>7. CASE StartSession
    <2>1. CASE Fail(None, "planning_failed")
        BY <1>1, <2>1, FailKeepsInv DEF Codes
    <2>2. ASSUME NEW plan \in Plans, Issue(Started(plan), None) PROVE LInv'
        BY <1>1, <2>2, StartedType, IssueKeepsInv
    <2>3. QED
        BY <1>7, <2>1, <2>2 DEF StartSession, Analyzed
<1>8. CASE Precheck
    <2>1. request.session \in Sessions /\ request.action \in {"submit", "reflect"}
        BY <1>8 DEF LInv, Routed, Precheck
    <2>2. CASE request.text # 0
        BY <1>1, <1>8, <2>1, <2>2, GoToKeepsInv DEF Precheck, Places
    <2>3. CASE request.text = 0
        <3> DEFINE s == Reviewed(request.session, "precheck", FALSE)
        <3>1. s \in Sessions /\ Last(s.reviews) \in Reviews
            BY <2>1, ReviewedType
        <3>2. Issue(s, Last(s.reviews))
            BY <1>8, <2>3 DEF Precheck
        <3> HIDE DEF s
        <3>3. QED
            BY <1>1, <3>1, <3>2, IssueKeepsInv
    <2>4. QED
        BY <2>2, <2>3
<1>9. CASE ReviewSubmission
    <2>1. request.action \in {"submit", "reflect"}
        BY <1>9 DEF LInv, Routed, ReviewSubmission
    <2>2. CASE /\ verdict' \in BOOLEAN /\ at' = "apply"
               /\ UNCHANGED <<key, request, result, held, next>>
        <3>1. TypeOK'
            BY <2>2 DEF LInv, TypeOK, Places
        <3>2. Routed'
            BY <2>1, <2>2 DEF LInv, Routed, Actions
        <3>3. Sound(held)' /\ Sound(request.session)' /\ AnswerIsSound'
            BY <2>2 DEF LInv, Sound, AnswerIsSound, Fits, CompletionSize, Unfinished,
                AwaitsSubmission, RestSize, SubmitSize, ReflectSize
        <3>4. QED
            BY <3>1, <3>2, <3>3 DEF LInv
    <2>3. ASSUME NEW code \in {"model_error", "invalid_model_output"},
                 Fail(request.session, code)
          PROVE  LInv'
        BY <1>1, <2>3, FailKeepsInv DEF Codes
    <2>4. QED
        BY <1>9, <2>2, <2>3 DEF ReviewSubmission
<1>10. CASE ApplyReview
    <2>1. request.session \in Sessions /\ verdict \in BOOLEAN
        BY <1>10 DEF LInv, Routed, ApplyReview
    <2> DEFINE s == Reviewed(request.session, "model", verdict)
    <2>2. s \in Sessions /\ Last(s.reviews) \in Reviews
        BY <2>1, ReviewedType
    <2>3. Issue(s, Last(s.reviews))
        BY <1>10 DEF ApplyReview
    <2> HIDE DEF s
    <2>4. QED
        BY <1>1, <2>2, <2>3, IssueKeepsInv
<1>11. CASE ApplyReflection
    <2>1. request.session \in Sessions /\ request.text \in Nat
        BY <1>1, <1>11 DEF LInv, Routed, ApplyReflection, Requests
    <2>2. CASE request.text = 0
        BY <1>1, <1>11, <2>2, FailKeepsInv DEF ApplyReflection, Codes
    <2>3. CASE request.text # 0
        BY <1>1, <1>11, <2>1, <2>3, ReflectedType, IssueKeepsInv DEF ApplyReflection
    <2>4. QED
        BY <2>2, <2>3
<1>12. QED
    BY <1>2, <1>3, <1>4, <1>5, <1>6, <1>7, <1>8, <1>9, <1>10, <1>11

\* The page takes the answer, or goes on without it.
LEMMA PageKeepsInv ==
    ASSUME LInv, Receive \/ Disconnect \/ Restart \/ Refresh
    PROVE  LInv'
<1>1. /\ key \in 1..MaxKeys /\ next \in Actions \cup {"none"} /\ MaxKeys \in Nat
      /\ held \in Sessions \cup {None} /\ Sound(held) /\ Sound(None)
    BY SizesAssumption DEF LInv, TypeOK, Sound
<1>2. CASE Receive
    <2>1. /\ result \in Results /\ key' \in 1..MaxKeys
          /\ Sound(result.session)
        BY <1>1, <1>2 DEF LInv, Routed, AnswerIsSound, Receive
    <2>2. result.next \in Actions \cup {"none"} /\ result.session \in Sessions \cup {None}
        BY <2>1 DEF Results, Actions
    <2>3. CASE ToPage(None, "start")
        BY <1>1, <2>1, <2>3, ToPageKeepsInv DEF Actions
    <2>4. CASE ToPage(result.session, result.next)
        BY <2>1, <2>2, <2>4, ToPageKeepsInv
    <2>5. CASE ToPage(held, IF held = None THEN "start" ELSE next)
        <3>1. (IF held = None THEN "start" ELSE next) \in Actions \cup {"none"}
            BY <1>1 DEF Actions
        <3>2. QED
            BY <1>1, <2>1, <2>5, <3>1, ToPageKeepsInv
    <2>6. QED
        BY <1>2, <2>3, <2>4, <2>5 DEF Receive
<1>3. CASE Disconnect
    BY <1>1, <1>3, ToPageKeepsInv DEF Disconnect
<1>4. CASE Restart
    BY <1>1, <1>4, ToPageKeepsInv DEF Restart
<1>5. CASE Refresh
    BY <1>1, <1>5, ToPageKeepsInv DEF Refresh, Actions
<1>6. QED
    BY <1>2, <1>3, <1>4, <1>5

\* The invariant holds at the start, and every step of the page and of the server
\* keeps it.
THEOREM Invariance == Spec => []LInv
<1>1. Init => LInv
    BY InitHolds
<1>2. LInv /\ [Next]_vars => LInv'
    <2> SUFFICES ASSUME LInv, [Next]_vars PROVE LInv'
        OBVIOUS
    <2>1. CASE Send
        BY <2>1, SendKeepsInv
    <2>2. CASE \/ Refuse \/ Admit \/ Dispatch \/ Mismatch \/ CollectEvidence \/ StartSession
               \/ Precheck \/ ReviewSubmission \/ ApplyReview \/ ApplyReflection
        BY <2>2, ServerKeepsInv
    <2>3. CASE Receive \/ Disconnect \/ Restart \/ Refresh
        BY <2>3, PageKeepsInv
    <2>4. CASE UNCHANGED vars
        BY <2>4 DEF vars, LInv, TypeOK, Routed, Sound, AnswerIsSound, Fits, CompletionSize,
            Unfinished, AwaitsSubmission, RestSize, SubmitSize, ReflectSize
    <2>5. QED
        BY <2>1, <2>2, <2>3, <2>4 DEF Next
<1>3. QED
    BY <1>1, <1>2, PTL DEF Spec

\* Every variable has its type: run_learning_session and the page hand on sessions,
\* requests and results of the shapes that the schemas describe.
THEOREM TypeCorrect == Spec => []TypeOK
<1>1. LInv => TypeOK
    BY DEF LInv
<1>2. QED
    BY <1>1, Invariance, PTL

\* A session that the server has signed never has to be given up for its length,
\* whatever the plan, the limit and the lengths of reviews and answers are.
THEOREM NobodyIsStuck == Spec => []NeverStuck
<1>1. LInv => NeverStuck
    <2> SUFFICES ASSUME LInv, held # None, Unfinished(held) PROVE Fits(Shortest(held))
        BY DEF NeverStuck
    <2>1. held \in Sessions /\ held.index \in 1..held.plan.steps /\ Fits(held)
        BY DEF LInv, TypeOK, Sound
    <2>2. QED
        BY <2>1, HeadroomIsEnough
<1>2. QED
    BY <1>1, Invariance, PTL
----
\* What is appended comes last, and changes nothing before it.
LEMMA AppendedIs ==
    ASSUME NEW S, NEW q \in Seq(S), NEW e \in S
    PROVE  /\ Append(q, e) \in Seq(S)
           /\ Len(q) \in Nat /\ Len(Append(q, e)) = Len(q) + 1
           /\ DOMAIN q = 1..Len(q) /\ DOMAIN Append(q, e) = 1..(Len(q) + 1)
           /\ \A i \in 1..Len(q) : Append(q, e)[i] = q[i]
           /\ Append(q, e)[Len(q) + 1] = e
           /\ Last(Append(q, e)) = e
           /\ IsPrefix(q, Append(q, e))
           /\ IsPrefix(q, q)
<1>1. /\ Append(q, e) \in Seq(S) /\ Len(q) \in Nat /\ Len(Append(q, e)) = Len(q) + 1
      /\ \A i \in 1..Len(q) : Append(q, e)[i] = q[i]
      /\ Append(q, e)[Len(q) + 1] = e
    BY AppendProperties
<1>2. DOMAIN q = 1..Len(q) /\ DOMAIN Append(q, e) = 1..(Len(q) + 1)
    BY <1>1
<1>3. SubSeq(q, 1, Len(q)) = SubSeq(Append(q, e), 1, Len(q))
    BY <1>1
<1>4. IsPrefix(q, Append(q, e)) /\ IsPrefix(q, q)
    BY <1>1, <1>3 DEF IsPrefix
<1>5. QED
    BY <1>1, <1>2, <1>4 DEF Last

\* Counting the events of an action up to a position.
LEMMA Counts ==
    ASSUME NEW h \in Seq(Events), NEW action, NEW j \in 0..Len(h)
    PROVE  /\ CountOf(h, action, j) \in Nat
           /\ \A k \in 0..j : CountOf(h, action, k) <= CountOf(h, action, j)
           /\ j # 0 /\ h[j].action = action => CountOf(h, action, j) # 0
<1> DEFINE T(k) == {i \in 1..k : h[i].action = action}
<1>1. \A k \in 0..j : IsFiniteSet(T(k)) /\ CountOf(h, action, k) = Cardinality(T(k))
                      /\ Cardinality(T(k)) \in Nat
    <2> TAKE k \in 0..j
    <2>1. IsFiniteSet(1..k) BY FS_Interval
    <2>2. IsFiniteSet(T(k)) BY <2>1, FS_Subset
    <2>3. QED BY <2>2, FS_CardinalityType DEF CountOf
<1>2. \A k \in 0..j : T(k) \in SUBSET T(j)
    OBVIOUS
<1>3. j # 0 /\ h[j].action = action => T(j) # {}
    <2>1. j # 0 /\ h[j].action = action => j \in T(j)
        OBVIOUS
    <2>2. QED BY <2>1
<1> HIDE DEF T
<1>4. \A k \in 0..j : Cardinality(T(k)) <= Cardinality(T(j))
    BY <1>1, <1>2, FS_Subset
<1>5. Cardinality(T(j)) = 0 => T(j) = {}
    BY <1>1, FS_EmptySet
<1>6. QED
    BY <1>1, <1>3, <1>4, <1>5

\* One more event counts for its own action only.
LEMMA CountsAppended ==
    ASSUME NEW h \in Seq(Events), NEW e \in Events, NEW action
    PROVE  /\ \A j \in 0..Len(h) : CountOf(Append(h, e), action, j) = CountOf(h, action, j)
           /\ CountOf(Append(h, e), action, Len(h) + 1) =
                CountOf(h, action, Len(h)) + (IF e.action = action THEN 1 ELSE 0)
<1> DEFINE g == Append(h, e)
           n == Len(h)
           T == {i \in 1..n : h[i].action = action}
           U == {i \in 1..(n + 1) : g[i].action = action}
<1>1. n \in Nat /\ (\A i \in 1..n : g[i] = h[i]) /\ g[n + 1] = e
    BY AppendedIs
<1>2. ASSUME NEW j \in 0..n PROVE CountOf(g, action, j) = CountOf(h, action, j)
    <2>1. {i \in 1..j : g[i].action = action} = {i \in 1..j : h[i].action = action}
        BY <1>1
    <2>2. QED BY <2>1 DEF CountOf
<1>3. IsFiniteSet(T) /\ n + 1 \notin T
    <2>1. IsFiniteSet(1..n) BY <1>1, FS_Interval
    <2>2. QED BY <1>1, <2>1, FS_Subset
<1>4. U = IF e.action = action THEN T \cup {n + 1} ELSE T
    BY <1>1
<1>5. Cardinality(T \cup {n + 1}) = Cardinality(T) + 1 /\ Cardinality(T) \in Nat
    BY <1>3, FS_AddElement, FS_CardinalityType
<1>6. CountOf(g, action, n + 1) = Cardinality(U)
    BY DEF CountOf
<1>7. CountOf(h, action, n) = Cardinality(T)
    BY DEF CountOf
<1> HIDE DEF T, U
<1>8. CountOf(g, action, n + 1) = Cardinality(T) + (IF e.action = action THEN 1 ELSE 0)
    <2>1. CASE e.action = action
        BY <1>4, <1>5, <1>6, <2>1
    <2>2. CASE e.action # action
        BY <1>4, <1>5, <1>6, <2>2
    <2>3. QED BY <2>1, <2>2
<1>9. QED
    BY <1>2, <1>7, <1>8
----
\* While a submission is awaited, no review of the current step has passed.
LEMMA NonePassed ==
    ASSUME NEW s \in Sessions, Valid(s), AwaitsSubmission(s)
    PROVE  \A j \in ReviewsOf(s, s.index) : ~s.reviews[j].passed
<1>1. CASE ReviewsOf(s, s.index) = {}
    BY <1>1
<1>2. CASE ~Passed(s, s.index)
    <2> SUFFICES ASSUME NEW j \in ReviewsOf(s, s.index), s.reviews[j].passed PROVE FALSE
        OBVIOUS
    <2>1. DOMAIN s.reviews = 1..Len(s.reviews) /\ Len(s.reviews) \in Nat
        BY DEF Sessions
    <2>2. ASSUME NEW k \in ReviewsOf(s, s.index), ~(k <= j) PROVE FALSE
        <3>1. k \in DOMAIN s.reviews /\ j \in DOMAIN s.reviews /\ s.reviews[k].step = s.index
            BY DEF ReviewsOf
        <3>2. j < k
            BY <2>1, <2>2, <3>1
        <3>3. j \in {i \in ReviewsOf(s, s.reviews[k].step) : i < k}
            BY <3>1, <3>2
        <3>4. QED
            BY <3>1, <3>3 DEF Valid, ReviewsAreLawful
    <2>3. s.reviews[j] \in Latest(s, s.index)
        BY <2>2 DEF Latest
    <2>4. QED
        BY <1>2, <2>3 DEF Passed
<1>3. QED
    BY <1>1, <1>2 DEF Valid, PhaseIsLawful, AwaitsSubmission

\* What a review makes of a session.
LEMMA ReviewedIs ==
    ASSUME NEW s \in Sessions, NEW source \in {"precheck", "model"}, NEW passed \in BOOLEAN,
           NEW n, n = Reviewed(s, source, passed),
           NEW record, record = [step |-> s.index, attempt |-> Attempt(s), source |-> source,
                                 passed |-> passed]
    PROVE  /\ n \in Sessions /\ record \in Reviews
           /\ n.plan = s.plan /\ n.index = s.index /\ n.key = s.key
           /\ n.phase = IF passed THEN "awaiting_reflection" ELSE "needs_revision"
           /\ n.reviews = Append(s.reviews, record)
           /\ n.reflections = s.reflections
           /\ \E e \in Events :
                /\ n.history = Append(s.history, e)
                /\ e.action = "submit" /\ e.turn = Len(s.history) + 1
                /\ e.from = s.phase /\ e.to = n.phase /\ e.step = s.index
                /\ e.outcome = IF source = "precheck" THEN "insufficient_submission" ELSE n.phase
<1> DEFINE to == IF passed THEN "awaiting_reflection" ELSE "needs_revision"
           outcome == IF source = "precheck" THEN "insufficient_submission" ELSE to
           e == Event(s, "submit", to, outcome)
<1>1. n \in Sessions
    BY ReviewedType
<1>2. /\ n.plan = s.plan /\ n.index = s.index /\ n.key = s.key /\ n.phase = to
      /\ n.reviews = Append(s.reviews, record) /\ n.reflections = s.reflections
      /\ n.history = Append(s.history, e)
    BY DEF Reviewed, Sessions
<1>3. e \in Events
    <2>1. to \in Phases /\ outcome \in Outcomes BY DEF Phases, Outcomes
    <2>2. QED BY <2>1, EventType
<1>4. /\ e.action = "submit" /\ e.turn = Len(s.history) + 1 /\ e.from = s.phase
      /\ e.to = to /\ e.step = s.index /\ e.outcome = outcome
    BY DEF Event
<1>5. record \in Reviews
    BY AttemptType DEF Sessions, Reviews
<1> HIDE DEF e
<1>6. QED
    BY <1>1, <1>2, <1>3, <1>4, <1>5

\* A history stays lawful with one more event, if that continues it and belongs to
\* the review or reflection that comes with it.
LEMMA HistoryGoesOn ==
    ASSUME NEW s \in Sessions, Valid(s), NEW n \in Sessions, NEW e \in Events,
           n.plan = s.plan, n.history = Append(s.history, e),
           e.turn = Len(s.history) + 1, e.from = s.phase, e.to = n.phase,
           \/ /\ e.action = "submit"
              /\ n.reflections = s.reflections
              /\ \E r \in Reviews : n.reviews = Append(s.reviews, r) /\ MatchesReview(e, r)
           \/ /\ e.action = "reflect"
              /\ n.reviews = s.reviews
              /\ \E i \in Nat : /\ n.reflections = Append(s.reflections, i)
                                /\ MatchesReflection(e, i, s.plan.steps)
    PROVE  HistoryIsLawful(n)
<1> DEFINE h == s.history
           g == n.history
           Of(action, j) == CountOf(h, action, j)
           OfNew(action, j) == CountOf(g, action, j)
<1>1. /\ h \in Seq(Events) /\ h # <<>> /\ Len(h) \in Nat \ {0}
      /\ s.reviews \in Seq(Reviews) /\ s.reflections \in Seq(Nat)
    BY DEF Sessions, Valid, HistoryIsLawful
<1>2. /\ g \in Seq(Events) /\ Len(g) = Len(h) + 1 /\ DOMAIN g = 1..(Len(h) + 1)
      /\ DOMAIN h = 1..Len(h)
      /\ (\A i \in 1..Len(h) : g[i] = h[i]) /\ g[Len(h) + 1] = e /\ Last(g) = e
    BY <1>1, AppendedIs
<1>3. g # <<>> /\ Last(g).to = n.phase
    BY <1>1, <1>2
<1>4. \A j \in DOMAIN g : g[j].turn = j
    BY <1>1, <1>2 DEF Valid, HistoryIsLawful
<1>5. g[1] = [turn |-> 1, action |-> "start", from |-> None,
              to |-> "awaiting_submission", step |-> 1, outcome |-> "started"]
    BY <1>1, <1>2 DEF Valid, HistoryIsLawful
<1>6. \A action : /\ \A j \in 0..Len(h) : OfNew(action, j) = Of(action, j)
                  /\ OfNew(action, Len(g)) = Of(action, Len(h)) + (IF e.action = action THEN 1 ELSE 0)
    BY <1>1, <1>2, CountsAppended
<1>7. Of("submit", Len(h)) = Len(s.reviews) /\ Of("reflect", Len(h)) = Len(s.reflections)
    BY DEF Valid, HistoryIsLawful
<1>8. \A j \in 1..Len(h) : \A action \in {"submit", "reflect"} :
        /\ Of(action, j) \in Nat /\ Of(action, j) <= Of(action, Len(h))
        /\ h[j].action = action => Of(action, j) # 0
    <2> TAKE j \in 1..Len(h)
    <2> TAKE action \in {"submit", "reflect"}
    <2>. j \in 0..Len(h) /\ Len(h) \in 0..Len(h)
        BY <1>1
    <2>1. /\ CountOf(h, action, j) \in Nat
          /\ h[j].action = action => CountOf(h, action, j) # 0
        BY <1>1, Counts
    <2>2. CountOf(h, action, j) <= CountOf(h, action, Len(h))
        BY <1>1, Counts
    <2>3. QED BY <2>1, <2>2
<1>81. Of("submit", Len(h)) \in Nat /\ Of("reflect", Len(h)) \in Nat
    BY <1>1, <1>7
<1>9. \A j \in 2..Len(h) :
        /\ h[j].from = h[j - 1].to
        /\ \/ h[j].action = "submit" /\ MatchesReview(h[j], s.reviews[Of("submit", j)])
           \/ /\ h[j].action = "reflect"
              /\ MatchesReflection(h[j], s.reflections[Of("reflect", j)], s.plan.steps)
    BY DEF Valid, HistoryIsLawful
<1>10. Last(h) = h[Len(h)] /\ Last(h).to = s.phase
    BY DEF Valid, HistoryIsLawful, Last
<1> HIDE DEF Of, OfNew
<1>11. CASE e.action = "submit"
    <2>1. PICK r \in Reviews : n.reviews = Append(s.reviews, r) /\ MatchesReview(e, r)
        BY <1>11
    <2>2. n.reflections = s.reflections
        BY <1>11
    <2>3. /\ Len(s.reviews) \in Nat /\ Len(n.reviews) = Len(s.reviews) + 1
          /\ (\A i \in 1..Len(s.reviews) : n.reviews[i] = s.reviews[i])
          /\ n.reviews[Len(s.reviews) + 1] = r
        BY <1>1, <2>1, AppendedIs
    <2>4. OfNew("submit", Len(g)) = Len(n.reviews) /\ OfNew("reflect", Len(g)) = Len(n.reflections)
        <3>1. OfNew("reflect", Len(g)) = Of("reflect", Len(h)) + 0
            BY <1>6, <1>11
        <3>2. QED BY <1>6, <1>7, <1>81, <1>11, <2>2, <2>3, <3>1
    <2>5. ASSUME NEW j \in 2..Len(g)
          PROVE  /\ g[j].from = g[j - 1].to
                 /\ \/ g[j].action = "submit" /\ MatchesReview(g[j], n.reviews[OfNew("submit", j)])
                    \/ /\ g[j].action = "reflect"
                       /\ MatchesReflection(g[j], n.reflections[OfNew("reflect", j)], n.plan.steps)
        <3>1. CASE j \in 2..Len(h)
            <4>1. /\ g[j] = h[j] /\ g[j - 1] = h[j - 1]
                  /\ OfNew("submit", j) = Of("submit", j) /\ OfNew("reflect", j) = Of("reflect", j)
                BY <1>1, <1>2, <1>6, <3>1
            <4>2. CASE h[j].action = "submit"
                <5>1. Of("submit", j) \in 1..Len(s.reviews)
                    BY <1>1, <1>7, <1>8, <3>1, <4>2
                <5>2. QED BY <1>9, <2>3, <3>1, <4>1, <4>2, <5>1
            <4>3. CASE h[j].action = "reflect"
                BY <1>9, <2>2, <3>1, <4>1, <4>3
            <4>4. QED BY <1>9, <3>1, <4>2, <4>3
        <3>2. CASE j = Len(h) + 1
            <4>1. g[j] = e /\ g[j - 1] = h[Len(h)]
                BY <1>1, <1>2, <3>2
            <4>2. n.reviews[OfNew("submit", j)] = r
                BY <1>2, <2>3, <2>4, <3>2
            <4>3. QED BY <1>10, <1>11, <2>1, <4>1, <4>2
        <3>3. QED BY <1>1, <1>2, <3>1, <3>2
    <2>6. QED
        BY <1>3, <1>4, <1>5, <2>4, <2>5 DEF HistoryIsLawful, OfNew
<1>12. CASE e.action = "reflect"
    <2>1. PICK r \in Nat : /\ n.reflections = Append(s.reflections, r)
                           /\ MatchesReflection(e, r, s.plan.steps)
        BY <1>12
    <2>2. n.reviews = s.reviews
        BY <1>12
    <2>3. /\ Len(s.reflections) \in Nat /\ Len(n.reflections) = Len(s.reflections) + 1
          /\ (\A i \in 1..Len(s.reflections) : n.reflections[i] = s.reflections[i])
          /\ n.reflections[Len(s.reflections) + 1] = r
        BY <1>1, <2>1, AppendedIs
    <2>4. OfNew("submit", Len(g)) = Len(n.reviews) /\ OfNew("reflect", Len(g)) = Len(n.reflections)
        <3>1. OfNew("submit", Len(g)) = Of("submit", Len(h)) + 0
            BY <1>6, <1>12
        <3>2. QED BY <1>6, <1>7, <1>81, <1>12, <2>2, <2>3, <3>1
    <2>5. ASSUME NEW j \in 2..Len(g)
          PROVE  /\ g[j].from = g[j - 1].to
                 /\ \/ g[j].action = "submit" /\ MatchesReview(g[j], n.reviews[OfNew("submit", j)])
                    \/ /\ g[j].action = "reflect"
                       /\ MatchesReflection(g[j], n.reflections[OfNew("reflect", j)], n.plan.steps)
        <3>1. CASE j \in 2..Len(h)
            <4>1. /\ g[j] = h[j] /\ g[j - 1] = h[j - 1]
                  /\ OfNew("submit", j) = Of("submit", j) /\ OfNew("reflect", j) = Of("reflect", j)
                BY <1>1, <1>2, <1>6, <3>1
            <4>2. CASE h[j].action = "reflect"
                <5>1. Of("reflect", j) \in 1..Len(s.reflections)
                    BY <1>1, <1>7, <1>8, <3>1, <4>2
                <5>2. QED BY <1>9, <2>3, <3>1, <4>1, <4>2, <5>1
            <4>3. CASE h[j].action = "submit"
                BY <1>9, <2>2, <3>1, <4>1, <4>3
            <4>4. QED BY <1>9, <3>1, <4>2, <4>3
        <3>2. CASE j = Len(h) + 1
            <4>1. g[j] = e /\ g[j - 1] = h[Len(h)]
                BY <1>1, <1>2, <3>2
            <4>2. n.reflections[OfNew("reflect", j)] = r
                BY <1>2, <2>3, <2>4, <3>2
            <4>3. QED BY <1>10, <1>12, <2>1, <4>1, <4>2
        <3>3. QED BY <1>1, <1>2, <3>1, <3>2
    <2>6. QED
        BY <1>3, <1>4, <1>5, <2>4, <2>5 DEF HistoryIsLawful, OfNew
<1>13. QED
    BY <1>11, <1>12

\* The latest review of a step is not changed by a review of another step, and a
\* new one takes its place.
LEMMA LatestAppended ==
    ASSUME NEW s \in Sessions, NEW n \in Sessions, NEW r \in Reviews,
           n.reviews = Append(s.reviews, r)
    PROVE  /\ \A i : i # r.step => ReviewsOf(n, i) = ReviewsOf(s, i) /\ Latest(n, i) = Latest(s, i)
           /\ ReviewsOf(n, r.step) = ReviewsOf(s, r.step) \cup {Len(s.reviews) + 1}
           /\ Latest(n, r.step) = {r}
<1>1. /\ s.reviews \in Seq(Reviews) /\ Len(s.reviews) \in Nat
      /\ DOMAIN s.reviews = 1..Len(s.reviews) /\ DOMAIN n.reviews = 1..(Len(s.reviews) + 1)
      /\ \A i \in 1..Len(s.reviews) : n.reviews[i] = s.reviews[i]
      /\ n.reviews[Len(s.reviews) + 1] = r
    <2>1. s.reviews \in Seq(Reviews)
        BY DEF Sessions
    <2>2. QED BY <2>1, AppendedIs
<1>2. ASSUME NEW i, i # r.step
      PROVE  ReviewsOf(n, i) = ReviewsOf(s, i) /\ Latest(n, i) = Latest(s, i)
    <2>1. ReviewsOf(n, i) = ReviewsOf(s, i)
        BY <1>1, <1>2 DEF ReviewsOf
    <2>2. \A k \in ReviewsOf(s, i) : n.reviews[k] = s.reviews[k]
        BY <1>1 DEF ReviewsOf
    <2>3. QED
        BY <2>1, <2>2 DEF Latest
<1>3. ReviewsOf(n, r.step) = ReviewsOf(s, r.step) \cup {Len(s.reviews) + 1}
    BY <1>1 DEF ReviewsOf
<1>4. {k \in ReviewsOf(n, r.step) : \A l \in ReviewsOf(n, r.step) : l <= k} = {Len(s.reviews) + 1}
    <2>1. \A k \in ReviewsOf(s, r.step) : k \in Nat /\ k < Len(s.reviews) + 1
        BY <1>1 DEF ReviewsOf
    <2>2. QED BY <1>1, <1>3, <2>1
<1>5. Latest(n, r.step) = {r}
    BY <1>1, <1>4 DEF Latest
<1>6. QED
    BY <1>2, <1>3, <1>5

\* apply_review_to_session makes of a session that its model accepts, and that
\* waits for a submission, another one.
LEMMA ReviewedIsValid ==
    ASSUME NEW s \in Sessions, Valid(s), AwaitsSubmission(s),
           NEW source \in {"precheck", "model"}, NEW passed \in BOOLEAN,
           source = "precheck" => ~passed
    PROVE  Valid(Reviewed(s, source, passed))
<1> DEFINE n == Reviewed(s, source, passed)
           record == [step |-> s.index, attempt |-> Attempt(s), source |-> source,
                      passed |-> passed]
<1>1. /\ n \in Sessions /\ record \in Reviews
      /\ n.plan = s.plan /\ n.index = s.index
      /\ n.phase = IF passed THEN "awaiting_reflection" ELSE "needs_revision"
      /\ n.reviews = Append(s.reviews, record)
      /\ n.reflections = s.reflections
      /\ \E e \in Events :
            /\ n.history = Append(s.history, e)
            /\ e.action = "submit" /\ e.turn = Len(s.history) + 1
            /\ e.from = s.phase /\ e.to = n.phase /\ e.step = s.index
            /\ e.outcome = IF source = "precheck" THEN "insufficient_submission" ELSE n.phase
    BY ReviewedIs
<1>2. PICK e \in Events :
        /\ n.history = Append(s.history, e)
        /\ e.action = "submit" /\ e.turn = Len(s.history) + 1
        /\ e.from = s.phase /\ e.to = n.phase /\ e.step = s.index
        /\ e.outcome = IF source = "precheck" THEN "insufficient_submission" ELSE n.phase
    BY <1>1
<1>3. /\ record.step = s.index /\ record.attempt = Attempt(s) /\ record.source = source
      /\ record.passed = passed
    OBVIOUS
<1> HIDE DEF n, record
<1>4. /\ s.reviews \in Seq(Reviews) /\ Len(s.reviews) \in Nat
      /\ DOMAIN s.reviews = 1..Len(s.reviews) /\ DOMAIN n.reviews = 1..(Len(s.reviews) + 1)
      /\ \A i \in 1..Len(s.reviews) : n.reviews[i] = s.reviews[i]
      /\ n.reviews[Len(s.reviews) + 1] = record
    <2>1. s.reviews \in Seq(Reviews)
        BY DEF Sessions
    <2>2. QED BY <1>1, <2>1, AppendedIs
<1>5. /\ \A i : i # s.index => ReviewsOf(n, i) = ReviewsOf(s, i) /\ Latest(n, i) = Latest(s, i)
      /\ ReviewsOf(n, s.index) = ReviewsOf(s, s.index) \cup {Len(s.reviews) + 1}
      /\ Latest(n, s.index) = {record}
    <2>1. /\ \A i : i # record.step =>
                ReviewsOf(n, i) = ReviewsOf(s, i) /\ Latest(n, i) = Latest(s, i)
          /\ ReviewsOf(n, record.step) = ReviewsOf(s, record.step) \cup {Len(s.reviews) + 1}
          /\ Latest(n, record.step) = {record}
        BY <1>1, LatestAppended
    <2>2. QED BY <1>3, <2>1
<1>6. s.index \in 1..s.plan.steps /\ s.plan.steps \in Nat /\ s.index \in Nat
    BY SizesAssumption DEF Valid, Sessions
<1>7. ReviewsAreLawful(n)
    <2>1. \A j \in 1..Len(s.reviews) : s.reviews[j].step \in 1..s.index
        BY <1>4 DEF Valid, ReviewsAreLawful
    <2> DEFINE Before(j) == {i \in ReviewsOf(n, n.reviews[j].step) : i < j}
               Lawful(j) ==
                 /\ n.reviews[j].step \in 1..n.index
                 /\ \A i \in 1..(j - 1) : n.reviews[i].step <= n.reviews[j].step
                 /\ n.reviews[j].attempt = Cardinality(Before(j)) + 1
                 /\ \A i \in Before(j) : ~n.reviews[i].passed
                 /\ n.reviews[j].source = "precheck" => ~n.reviews[j].passed
    <2>2. ASSUME NEW j \in 1..Len(s.reviews) PROVE Lawful(j)
        <3> DEFINE r == s.reviews[j]
                   before == {i \in ReviewsOf(s, r.step) : i < j}
        <3>1. n.reviews[j] = r /\ \A i \in 1..(j - 1) : n.reviews[i] = s.reviews[i]
            BY <1>4
        <3>2. {i \in ReviewsOf(n, r.step) : i < j} = before
            BY <1>4, <1>5
        <3>3. \A i \in before : n.reviews[i] = s.reviews[i]
            BY <1>4 DEF ReviewsOf
        <3>4. /\ r.step \in 1..s.index
              /\ \A i \in 1..(j - 1) : s.reviews[i].step <= r.step
              /\ r.attempt = Cardinality(before) + 1
              /\ \A i \in before : ~s.reviews[i].passed
              /\ r.source = "precheck" => ~r.passed
            BY <1>4 DEF Valid, ReviewsAreLawful
        <3> HIDE DEF r, before
        <3>5. QED
            BY <1>1, <3>1, <3>2, <3>3, <3>4
    <2>3. Lawful(Len(s.reviews) + 1)
        <3>1. {i \in ReviewsOf(n, s.index) : i < Len(s.reviews) + 1} = ReviewsOf(s, s.index)
            BY <1>4, <1>5 DEF ReviewsOf
        <3>2. \A i \in ReviewsOf(s, s.index) : ~n.reviews[i].passed
            <4>1. \A i \in ReviewsOf(s, s.index) : n.reviews[i] = s.reviews[i]
                BY <1>4 DEF ReviewsOf
            <4>2. QED BY <4>1, NonePassed
        <3>3. \A i \in 1..Len(s.reviews) : n.reviews[i].step <= s.index
            BY <1>4, <1>6, <2>1
        <3>4. Before(Len(s.reviews) + 1) = ReviewsOf(s, s.index)
            BY <1>3, <1>4, <3>1
        <3>5. (Len(s.reviews) + 1) - 1 = Len(s.reviews)
            BY <1>4
        <3>6. n.reviews[Len(s.reviews) + 1] = record /\ n.index = s.index
            BY <1>1, <1>4
        <3>7. record.attempt = Cardinality(Before(Len(s.reviews) + 1)) + 1
            BY <1>3, <3>4 DEF Attempt
        <3>8. \A i \in Before(Len(s.reviews) + 1) : ~n.reviews[i].passed
            BY <3>2, <3>4
        <3>9. record.step \in 1..s.index /\ (record.source = "precheck" => ~record.passed)
            BY <1>3, <1>6
        <3>10. \A i \in 1..((Len(s.reviews) + 1) - 1) : n.reviews[i].step <= record.step
            BY <1>3, <3>3, <3>5
        <3> HIDE DEF Before
        <3>11. QED
            BY <3>6, <3>7, <3>8, <3>9, <3>10
    <2>4. \A j \in DOMAIN n.reviews : Lawful(j)
        <3> HIDE DEF Lawful
        <3> QED BY <1>4, <2>2, <2>3
    <2>5. QED
        BY <2>4 DEF ReviewsAreLawful
<1>8. PhaseIsLawful(n)
    <2>1. \A i : i # s.index => (Passed(n, i) <=> Passed(s, i))
        BY <1>5 DEF Passed
    <2>2. Passed(n, s.index) <=> passed
        BY <1>3, <1>5 DEF Passed
    <2>3. Unfinished(s) /\ Unfinished(n)
        BY <1>1 DEF AwaitsSubmission, Unfinished
    <2>4. Len(s.reflections) = s.index - 1
        BY <2>3 DEF Valid, PhaseIsLawful
    <2>5. ReviewsOf(n, n.index) # {}
        BY <1>1, <1>5
    <2>6. \A i \in 1..(n.index - 1) : Passed(n, i) /\ i <= Len(n.reflections)
        BY <1>1, <1>6, <2>1 DEF Valid, PhaseIsLawful
    <2>7. /\ n.reflections = [i \in 1..Len(n.reflections) |-> i]
          /\ Len(n.reflections) <= n.plan.steps
        BY <1>1 DEF Valid, PhaseIsLawful
    <2>8. QED
        BY <1>1, <2>2, <2>3, <2>4, <2>5, <2>6, <2>7 DEF PhaseIsLawful
<1>9. HistoryIsLawful(n)
    <2>1. MatchesReview(e, record)
        BY <1>1, <1>2, <1>3 DEF MatchesReview, AwaitsSubmission
    <2>2. QED
        BY <1>1, <1>2, <2>1, HistoryGoesOn
<1>10. QED
    BY <1>1, <1>6, <1>7, <1>8, <1>9 DEF Valid, n

\* The reflection that ends a step makes of a session that its model accepts
\* another one.
LEMMA ReflectedIsValid ==
    ASSUME NEW s \in Sessions, Valid(s), s.phase = "awaiting_reflection", NEW answer \in Nat
    PROVE  Valid(Reflected(s, answer))
<1> DEFINE n == Reflected(s, answer)
           last == s.index = s.plan.steps
           to == IF last THEN "completed" ELSE "awaiting_submission"
           outcome == IF last THEN "completed" ELSE "advanced"
           e == Event(s, "reflect", to, outcome)
<1>1. /\ n \in Sessions /\ n.plan = s.plan /\ n.index = IF last THEN s.index ELSE s.index + 1
      /\ n.phase = to /\ n.reviews = s.reviews
      /\ n.reflections = Append(s.reflections, s.index)
      /\ n.history = Append(s.history, e)
    BY ReflectedType DEF Reflected, Sessions
<1>2. /\ e \in Events /\ e.action = "reflect" /\ e.turn = Len(s.history) + 1
      /\ e.from = s.phase /\ e.to = to /\ e.step = s.index /\ e.outcome = outcome
    <2>1. to \in Phases /\ outcome \in Outcomes BY DEF Phases, Outcomes
    <2>2. e \in Events BY <2>1, EventType
    <2>3. QED BY <2>2 DEF Event
<1>3. s.index \in 1..s.plan.steps /\ s.plan.steps \in Nat /\ s.index \in Nat
    BY SizesAssumption DEF Valid, Sessions
<1>4. MatchesReflection(e, s.index, s.plan.steps)
    BY <1>2 DEF MatchesReflection
<1> HIDE DEF n, e
<1>5. HistoryIsLawful(n)
    BY <1>1, <1>2, <1>3, <1>4, HistoryGoesOn
<1>6. (\A i : ReviewsOf(n, i) = ReviewsOf(s, i)) /\ (\A i : Latest(n, i) = Latest(s, i))
    BY <1>1 DEF ReviewsOf, Latest
<1>7. n.index \in 1..n.plan.steps /\ \A i \in 1..s.index : i \in 1..n.index
    BY <1>1, <1>3
<1>8. ReviewsAreLawful(n)
    <2>1. \A j \in DOMAIN s.reviews :
            /\ s.reviews[j].step \in 1..s.index
            /\ \A i \in 1..(j - 1) : s.reviews[i].step <= s.reviews[j].step
            /\ s.reviews[j].attempt =
                Cardinality({i \in ReviewsOf(s, s.reviews[j].step) : i < j}) + 1
            /\ \A i \in {i \in ReviewsOf(s, s.reviews[j].step) : i < j} : ~s.reviews[i].passed
            /\ s.reviews[j].source = "precheck" => ~s.reviews[j].passed
        BY DEF Valid, ReviewsAreLawful
    <2>2. n.reviews = s.reviews
        BY <1>1
    <2>3. \A j \in DOMAIN s.reviews : ReviewsOf(n, s.reviews[j].step) = ReviewsOf(s, s.reviews[j].step)
        BY <1>6
    <2>4. QED
        BY <1>7, <2>1, <2>2, <2>3 DEF ReviewsAreLawful
<1>9. PhaseIsLawful(n)
    <2>1. /\ s.reflections \in Seq(Nat) /\ Len(s.reflections) = s.index - 1
          /\ s.reflections = [i \in 1..Len(s.reflections) |-> i]
          /\ \A i \in 1..(s.index - 1) : Passed(s, i)
          /\ Passed(s, s.index)
        BY DEF Valid, PhaseIsLawful, Unfinished, Sessions
    <2>2. /\ Len(n.reflections) = s.index
          /\ n.reflections \in Seq(Nat)
          /\ \A i \in 1..s.index : n.reflections[i] = i
        <3>1. /\ Len(n.reflections) = Len(s.reflections) + 1
              /\ n.reflections \in Seq(Nat)
              /\ \A i \in 1..Len(s.reflections) : n.reflections[i] = s.reflections[i]
              /\ n.reflections[Len(s.reflections) + 1] = s.index
            BY <1>1, <1>3, <2>1, AppendedIs
        <3>2. \A i \in 1..(s.index - 1) : s.reflections[i] = i
            BY <2>1
        <3>3. Len(s.reflections) + 1 = s.index
            BY <1>3, <2>1
        <3>4. \A i \in 1..(s.index - 1) : n.reflections[i] = i
            BY <2>1, <3>1, <3>2
        <3>5. \A i \in 1..s.index : i = s.index \/ i \in 1..(s.index - 1)
            BY <1>3
        <3>6. n.reflections[s.index] = s.index
            BY <3>1, <3>3
        <3>7. QED
            BY <3>1, <3>3, <3>4, <3>5, <3>6
    <2>3. n.reflections = [i \in 1..Len(n.reflections) |-> i]
        BY <2>2
    <2>4. \A i : Passed(n, i) <=> Passed(s, i)
        BY <1>6 DEF Passed
    <2>5. \A i \in 1..s.index : Passed(n, i)
        BY <1>3, <2>1, <2>4
    <2>6. CASE last
        <3>1. n.index = s.plan.steps /\ n.index = s.index /\ n.phase = "completed" /\ n.plan = s.plan
            BY <1>1, <2>6
        <3>2. \A i \in 1..(n.index - 1) : Passed(n, i) /\ i <= Len(n.reflections)
            BY <1>3, <2>2, <2>5, <3>1
        <3>3. Len(n.reflections) = n.plan.steps /\ Len(n.reflections) <= n.plan.steps
            <4>1. n.plan.steps = s.index
                BY <3>1
            <4>2. Len(n.reflections) = s.index
                BY <2>2
            <4>3. QED BY <1>3, <4>1, <4>2
        <3>4. \A i \in 1..n.plan.steps : Passed(n, i)
            BY <2>5, <3>1
        <3>5. QED
            BY <2>3, <3>1, <3>2, <3>3, <3>4 DEF PhaseIsLawful, Unfinished
    <2>7. CASE ~last
        <3>1. n.index = s.index + 1 /\ n.phase = "awaiting_submission" /\ n.plan = s.plan
            BY <1>1, <2>7
        <3>2. \A i \in 1..(n.index - 1) : Passed(n, i) /\ i <= Len(n.reflections)
            BY <1>3, <2>2, <2>5, <3>1
        <3>3. ReviewsOf(n, n.index) = {}
            <4>1. \A j \in DOMAIN s.reviews : s.reviews[j].step \in 1..s.index
                BY DEF Valid, ReviewsAreLawful
            <4>2. QED BY <1>1, <1>3, <3>1, <4>1 DEF ReviewsOf
        <3>4. Len(n.reflections) <= n.plan.steps /\ Len(n.reflections) = n.index - 1
            BY <1>3, <2>2, <3>1
        <3>5. QED
            BY <2>3, <3>1, <3>2, <3>3, <3>4 DEF PhaseIsLawful, Unfinished
    <2>8. QED
        BY <2>6, <2>7
<1>10. QED
    BY <1>5, <1>7, <1>8, <1>9 DEF Valid, n

\* The model accepts the session that a plan starts with.
LEMMA StartedIsValid ==
    ASSUME NEW plan \in Plans
    PROVE  Valid(Started(plan))
<1> DEFINE n == Started(plan)
           e == [turn |-> 1, action |-> "start", from |-> None,
                 to |-> "awaiting_submission", step |-> 1, outcome |-> "started"]
<1>1. /\ n.plan = plan /\ n.index = 1 /\ n.phase = "awaiting_submission" /\ n.reviews = <<>>
      /\ n.reflections = <<>> /\ n.history = <<e>>
    BY DEF Started
<1>2. plan.steps \in Nat \ {0}
    BY SizesAssumption
<1>3. e.action = "start" /\ e.turn = 1 /\ e.to = "awaiting_submission"
    OBVIOUS
<1> HIDE DEF n
<1>4. \A i : ReviewsOf(n, i) = {}
    BY <1>1 DEF ReviewsOf
<1>5. ReviewsAreLawful(n)
    BY <1>1 DEF ReviewsAreLawful
<1>6. PhaseIsLawful(n)
    <2>1. n.reflections = [i \in 1..Len(n.reflections) |-> i]
        BY <1>1
    <2>2. QED
        BY <1>1, <1>2, <1>4, <2>1 DEF PhaseIsLawful, Unfinished
<1>7. HistoryIsLawful(n)
    <2>1. \A action \in {"submit", "reflect"} : CountOf(<<e>>, action, 1) = 0
        <3> TAKE action \in {"submit", "reflect"}
        <3>1. {i \in 1..1 : <<e>>[i].action = action} = {}
            OBVIOUS
        <3>2. QED BY <3>1, FS_EmptySet DEF CountOf
    <2>2. Len(<<e>>) = 1 /\ <<e>>[1] = e /\ <<e>> # <<>> /\ DOMAIN <<e>> = 1..1
        OBVIOUS
    <2>3. Len(n.reviews) = 0 /\ Len(n.reflections) = 0
        BY <1>1
    <2> HIDE DEF e
    <2>4. CountOf(<<e>>, "submit", 1) = 0 /\ CountOf(<<e>>, "reflect", 1) = 0
        BY <2>1
    <2>5. Last(<<e>>) = e
        BY <2>2 DEF Last
    <2>6. \A j \in DOMAIN <<e>> : <<e>>[j].turn = j
        BY <1>3, <2>2
    <2>7. QED
        BY <1>1, <1>3, <2>2, <2>3, <2>4, <2>5, <2>6 DEF HistoryIsLawful, e
<1>8. QED
    BY <1>1, <1>2, <1>5, <1>6, <1>7 DEF Valid, n
----
\* A failure never is refused, and says what it says.
LEMMA FailIs ==
    ASSUME NEW s, NEW code, Fail(s, code)
    PROVE  /\ result' = Failure(s, code) /\ result'.code = code /\ result'.session = s
           /\ at' = "reply" /\ UNCHANGED <<key, request, held>>
<1>1. ResultIsLawful(Failure(s, code))
    BY DEF ResultIsLawful, Failure
<1>2. QED
    BY <1>1 DEF Fail, Finish, Failure

\* What the handlers issue: a lawful session with the result that belongs to it.
\* The page gets it, or learns that it would have been too long.
LEMMA IssueIs ==
    ASSUME key \in Nat, NEW s \in Sessions, Valid(s), NEW review, Issue(s, review),
           Last(s.history).action = request.action,
           \/ /\ s.phase \in {"needs_revision", "awaiting_reflection"}
              /\ review # None /\ review \in Latest(s, s.index)
              /\ review.passed <=> s.phase = "awaiting_reflection"
           \/ /\ s.phase \notin {"needs_revision", "awaiting_reflection"}
              /\ review = None
    PROVE  /\ at' = "reply" /\ UNCHANGED <<key, request, held>>
           /\ \/ /\ result'.code = None /\ result'.session = Signed(s)
              \/ /\ result'.code = "session_error" /\ result'.session = request.session
                 /\ ~Fits(s)
<1> DEFINE n == Signed(s)
           r == Success(n, review)
<1>1. /\ n \in Sessions
      /\ n.history = s.history /\ n.phase = s.phase /\ n.reviews = s.reviews /\ n.index = s.index
    BY DEF Signed, Sessions
<1>2. Latest(n, n.index) = Latest(s, s.index)
    BY <1>1 DEF Latest, ReviewsOf
<1>3. /\ r.status = "success" /\ r.action = request.action /\ r.session = n
      /\ r.next = NextAction(n) /\ r.review = review
      /\ r.feedback = (review # None /\ ~review.passed) /\ r.code = None
    BY DEF Success
<1> HIDE DEF n, r
<1>4. ResultIsLawful(r)
    <2>1. CASE s.phase \in {"needs_revision", "awaiting_reflection"}
        <3>1. r.review \in Latest(n, n.index)
            BY <1>2, <1>3, <2>1
        <3>2. r.feedback = (s.phase = "needs_revision")
            BY <1>3, <2>1
        <3>3. QED
            BY <1>1, <1>3, <2>1, <3>1, <3>2 DEF ResultIsLawful
    <2>2. CASE s.phase \notin {"needs_revision", "awaiting_reflection"}
        BY <1>1, <1>3, <2>2 DEF ResultIsLawful
    <2>3. QED
        BY <2>1, <2>2
<1>5. CASE Fits(s)
    <2>1. Finish(r)
        BY <1>5 DEF Issue, Issuable, r, n
    <2>2. QED
        BY <1>3, <1>4, <2>1 DEF Finish, n
<1>6. CASE ~Fits(s)
    <2>1. Fail(request.session, "session_error")
        BY <1>6 DEF Issue, Issuable
    <2>2. QED
        BY <1>6, <2>1, FailIs
<1>7. QED
    BY <1>5, <1>6

\* A session goes on by one event, and forgets nothing.
LEMMA GoesOn ==
    ASSUME NEW s \in Sessions
    PROVE  /\ \A source \in {"precheck", "model"}, passed \in BOOLEAN :
                Extends(Signed(Reviewed(s, source, passed)), s)
           /\ \A answer \in Nat : Extends(Signed(Reflected(s, answer)), s)
<1>1. ASSUME NEW source \in {"precheck", "model"}, NEW passed \in BOOLEAN
      PROVE  Extends(Signed(Reviewed(s, source, passed)), s)
    <2> DEFINE n == Reviewed(s, source, passed)
               record == [step |-> s.index, attempt |-> Attempt(s), source |-> source,
                          passed |-> passed]
    <2>1. /\ n \in Sessions /\ record \in Reviews /\ n.plan = s.plan
          /\ n.reviews = Append(s.reviews, record) /\ n.reflections = s.reflections
          /\ \E e \in Events : n.history = Append(s.history, e)
        BY ReviewedIs
    <2>2. PICK e \in Events : n.history = Append(s.history, e)
        BY <2>1
    <2> HIDE DEF n, record
    <2>3. /\ Signed(n).plan = n.plan /\ Signed(n).history = n.history
          /\ Signed(n).reviews = n.reviews /\ Signed(n).reflections = n.reflections
        BY <2>1 DEF Signed, Sessions
    <2>4. /\ s.reviews \in Seq(Reviews) /\ s.history \in Seq(Events) /\ s.reflections \in Seq(Nat)
        BY DEF Sessions
    <2>5. IsPrefix(s.reviews, n.reviews)
        BY <2>1, <2>4, AppendedIs
    <2>6. IsPrefix(s.history, n.history) /\ Len(n.history) = Len(s.history) + 1
        BY <2>2, <2>4, AppendedIs
    <2>7. IsPrefix(s.reflections, n.reflections)
        BY <2>1, <2>4, AppendedIs
    <2>8. QED
        BY <2>1, <2>3, <2>5, <2>6, <2>7 DEF Extends, n
<1>2. ASSUME NEW answer \in Nat
      PROVE  Extends(Signed(Reflected(s, answer)), s)
    <2> DEFINE n == Reflected(s, answer)
    <2>1. n \in Sessions
        BY ReflectedType
    <2>2. PICK e \in Events : n.history = Append(s.history, e)
        <3> DEFINE last == s.index = s.plan.steps
                   to == IF last THEN "completed" ELSE "awaiting_submission"
                   outcome == IF last THEN "completed" ELSE "advanced"
        <3>1. to \in Phases /\ outcome \in Outcomes
            BY DEF Phases, Outcomes
        <3>2. Event(s, "reflect", to, outcome) \in Events
            BY <3>1, EventType
        <3>3. n.history = Append(s.history, Event(s, "reflect", to, outcome))
            BY DEF Reflected, Sessions
        <3>4. QED
            BY <3>2, <3>3
    <2>3. n.plan = s.plan /\ n.reviews = s.reviews /\ n.reflections = Append(s.reflections, s.index)
        BY DEF Reflected, Sessions
    <2> HIDE DEF n
    <2>4. /\ Signed(n).plan = n.plan /\ Signed(n).history = n.history
          /\ Signed(n).reviews = n.reviews /\ Signed(n).reflections = n.reflections
        BY <2>1 DEF Signed, Sessions
    <2>5. /\ s.reviews \in Seq(Reviews) /\ s.history \in Seq(Events) /\ s.reflections \in Seq(Nat)
          /\ s.index \in Nat
        BY DEF Sessions
    <2>6. IsPrefix(s.reviews, n.reviews)
        BY <2>3, <2>5 DEF IsPrefix
    <2>7. IsPrefix(s.history, n.history) /\ Len(n.history) = Len(s.history) + 1
        BY <2>2, <2>5, AppendedIs
    <2>8. IsPrefix(s.reflections, n.reflections)
        BY <2>3, <2>5, AppendedIs
    <2>9. QED
        BY <2>3, <2>4, <2>6, <2>7, <2>8 DEF Extends, n
<1>3. QED
    BY <1>1, <1>2
----
\* A session that carries the key of the server is one that its model accepts.
Genuine(s) == s # None => s.key <= key /\ (s.key = key => Valid(s))

\* All sessions there are: with the page, in its request, and in the answer.
Trusted ==
    /\ Genuine(held)
    /\ Genuine(request.session)
    /\ at = "reply" => Genuine(result.session)

\* The request works on the session of the page, and a handler on one that has
\* the key of the server, in the phase its action is for.
Handled ==
    /\ request.action = "start" => request.session = None
    /\ at # "page" => request.form = "altered" \/ request.session = held
    /\ at \notin {"page", "admit", "reply"} /\ request.session # None => Verified(request.session)
    /\ at \in {"collect", "analyze"} => request.action = "start"
    /\ at \in {"submission", "review", "apply"} =>
        request.action = "submit" /\ AwaitsSubmission(request.session)
    /\ at = "reflection" =>
        request.action = "reflect" /\ request.session.phase = "awaiting_reflection"

\* What the answer brings the page, unless the page has spoiled its own session.
Kept(s) == s \in {None, held} \/ Extends(s, held)
Answered ==
    at = "reply" /\ held # None /\ held.key = key /\ request.form \notin {"broken", "altered"} =>
        result.code # "invalid_session" /\ Kept(result.session)

VInv == Trusted /\ Handled /\ Answered
----
\* The signature is no matter of the model.
LEMMA SignedIsValid ==
    ASSUME NEW s \in Sessions, Valid(s), NEW k
    PROVE  Valid([s EXCEPT !.key = k])
<1> DEFINE n == [s EXCEPT !.key = k]
<1>1. /\ n.plan = s.plan /\ n.index = s.index /\ n.phase = s.phase /\ n.reviews = s.reviews
      /\ n.reflections = s.reflections /\ n.history = s.history
    BY DEF Sessions
<1> HIDE DEF n
<1>2. (\A i : ReviewsOf(n, i) = ReviewsOf(s, i)) /\ (\A i : Passed(n, i) <=> Passed(s, i))
    BY <1>1 DEF ReviewsOf, Latest, Passed
<1>3. ReviewsAreLawful(n)
    <2>1. \A j \in DOMAIN s.reviews :
            ReviewsOf(n, s.reviews[j].step) = ReviewsOf(s, s.reviews[j].step)
        BY <1>2
    <2>2. ReviewsAreLawful(s)
        BY DEF Valid
    <2>3. QED BY <1>1, <2>1, <2>2 DEF ReviewsAreLawful
<1>4. PhaseIsLawful(n)
    <2>1. PhaseIsLawful(s)
        BY DEF Valid
    <2>2. QED BY <1>1, <1>2, <2>1 DEF PhaseIsLawful, Unfinished
<1>5. HistoryIsLawful(n)
    <2>1. HistoryIsLawful(s)
        BY DEF Valid
    <2>2. QED BY <1>1, <2>1 DEF HistoryIsLawful
<1>6. QED
    BY <1>1, <1>3, <1>4, <1>5 DEF Valid, n

\* An answer that says what went wrong keeps what is with the page.
LEMMA FailKeepsTrust ==
    ASSUME LInv, VInv, at \notin {"page", "reply"}, NEW s \in {None, request.session}, NEW code,
           Fail(s, code),
           code = "invalid_session" /\ held # None /\ held.key = key =>
                request.form \in {"broken", "altered"}
    PROVE  VInv' /\ at' = "reply" /\ result'.code = code
<1>1. /\ result'.code = code /\ result'.session = s /\ at' = "reply"
      /\ UNCHANGED <<key, request, held>>
    BY FailIs
<1>2. Genuine(s)
    BY DEF VInv, Trusted, Genuine
<1>3. Trusted'
    BY <1>1, <1>2 DEF VInv, Trusted, Genuine
<1>4. Handled'
    BY <1>1 DEF VInv, Handled
<1>5. Answered'
    <2> SUFFICES ASSUME held # None, held.key = key, request.form \notin {"broken", "altered"}
                 PROVE  code # "invalid_session" /\ Kept(s)
        BY <1>1 DEF Answered, Kept
    <2>1. request.session = held
        BY DEF VInv, Handled
    <2>2. QED
        BY <2>1 DEF Kept
<1>6. QED
    BY <1>1, <1>3, <1>4, <1>5 DEF VInv

\* So does one with the next session, and it fails only for its length.
LEMMA IssueKeepsTrust ==
    ASSUME LInv, VInv, at \notin {"page", "reply"}, NEW s \in Sessions, Valid(s),
           NEW review, Issue(s, review),
           Last(s.history).action = request.action,
           \/ /\ s.phase \in {"needs_revision", "awaiting_reflection"}
              /\ review # None /\ review \in Latest(s, s.index)
              /\ review.passed <=> s.phase = "awaiting_reflection"
           \/ /\ s.phase \notin {"needs_revision", "awaiting_reflection"}
              /\ review = None,
           request.session # None => Extends(Signed(s), request.session)
    PROVE  VInv' /\ at' = "reply" /\ (result'.code = "session_error" => ~Fits(s))
<1>1. key \in Nat
    BY SizesAssumption DEF LInv, TypeOK
<1>2. /\ at' = "reply" /\ UNCHANGED <<key, request, held>>
      /\ \/ /\ result'.code = None /\ result'.session = Signed(s)
         \/ /\ result'.code = "session_error" /\ result'.session = request.session
            /\ ~Fits(s)
    BY <1>1, IssueIs
<1>3. Genuine(Signed(s)) /\ Genuine(request.session)
    <2>1. Signed(s).key = key
        BY DEF Signed, Sessions
    <2>2. Valid(Signed(s))
        BY SignedIsValid DEF Signed
    <2>3. QED
        BY <1>1, <2>1, <2>2 DEF Genuine, VInv, Trusted
<1>4. Trusted'
    BY <1>2, <1>3 DEF VInv, Trusted, Genuine
<1>5. Handled'
    BY <1>2 DEF VInv, Handled
<1>6. Answered'
    <2> SUFFICES ASSUME held # None, request.form \notin {"broken", "altered"}
                 PROVE  result'.code # "invalid_session" /\ Kept(result'.session)
        BY <1>2 DEF Answered, Kept
    <2>1. request.session = held
        BY DEF VInv, Handled
    <2>2. result'.code # "invalid_session"
        BY <1>2, NoneAssumption DEF Codes
    <2>3. QED
        BY <1>2, <2>1, <2>2 DEF Kept
<1>7. QED
    BY <1>2, <1>4, <1>5, <1>6, NoneAssumption DEF VInv, Codes

\* A review is recorded and issued, or would make the session too long.
LEMMA ReviewIsIssued ==
    ASSUME LInv, VInv, at \in {"submission", "apply"},
           NEW source \in {"precheck", "model"}, NEW passed \in BOOLEAN,
           source = "precheck" => ~passed,
           Issue(Reviewed(request.session, source, passed),
                 Last(Reviewed(request.session, source, passed).reviews))
    PROVE  /\ VInv' /\ at' = "reply"
           /\ result'.code = "session_error" => ~Fits(Reviewed(request.session, source, passed))
<1> DEFINE s == request.session
           n == Reviewed(s, source, passed)
           record == [step |-> s.index, attempt |-> Attempt(s), source |-> source,
                      passed |-> passed]
<1>1. /\ s \in Sessions /\ s # None /\ s.key = key /\ request.action = "submit"
      /\ AwaitsSubmission(s)
    BY NoneAssumption DEF LInv, Routed, VInv, Handled, Verified
<1>2. Valid(s)
    BY <1>1 DEF VInv, Trusted, Genuine
<1>3. Valid(n)
    BY <1>1, <1>2, ReviewedIsValid
<1>4. /\ n \in Sessions /\ record \in Reviews
      /\ n.index = s.index
      /\ n.phase = IF passed THEN "awaiting_reflection" ELSE "needs_revision"
      /\ n.reviews = Append(s.reviews, record)
      /\ \E e \in Events : n.history = Append(s.history, e) /\ e.action = "submit"
    BY <1>1, ReviewedIs
<1>5. PICK e \in Events : n.history = Append(s.history, e) /\ e.action = "submit"
    BY <1>4
<1>6. record.step = s.index /\ record.passed = passed
    OBVIOUS
<1>7. Extends(Signed(n), s)
    BY <1>1, GoesOn
<1> HIDE DEF n, record
<1>8. Last(n.history) = e /\ Last(n.reviews) = record
    <2>1. s.history \in Seq(Events) /\ s.reviews \in Seq(Reviews)
        BY <1>1 DEF Sessions
    <2>2. QED BY <1>4, <1>5, <2>1, AppendedIs
<1>9. Latest(n, record.step) = {record}
    BY <1>1, <1>4, LatestAppended
<1>10. record # None
    BY <1>4, NoneAssumption
<1>11. Issue(n, record)
    BY <1>8 DEF n
<1>12. VInv' /\ at' = "reply" /\ (result'.code = "session_error" => ~Fits(n))
    <2>1. at \notin {"page", "reply"}
        OBVIOUS
    <2>2. Last(n.history).action = request.action
        BY <1>1, <1>5, <1>8
    <2>3. /\ n.phase \in {"needs_revision", "awaiting_reflection"}
          /\ record # None /\ record \in Latest(n, n.index)
          /\ record.passed <=> n.phase = "awaiting_reflection"
        BY <1>4, <1>6, <1>9, <1>10
    <2>4. QED
        BY <1>3, <1>4, <1>7, <1>11, <2>1, <2>2, <2>3, IssueKeepsTrust
<1>13. QED
    BY <1>12 DEF n

\* A reflection is recorded and issued, or would make the session too long.
LEMMA ReflectionIsIssued ==
    ASSUME LInv, VInv, at = "reflection", Issue(Reflected(request.session, request.text), None)
    PROVE  /\ VInv' /\ at' = "reply"
           /\ result'.code = "session_error" => ~Fits(Reflected(request.session, request.text))
<1> DEFINE s == request.session
           n == Reflected(s, request.text)
<1>1. /\ s \in Sessions /\ s # None /\ s.key = key /\ request.action = "reflect"
      /\ s.phase = "awaiting_reflection" /\ request.text \in Nat
    BY NoneAssumption DEF LInv, Routed, VInv, Handled, Verified, TypeOK, Requests
<1>2. Valid(s)
    BY <1>1 DEF VInv, Trusted, Genuine
<1>3. Valid(n) /\ n \in Sessions /\ Extends(Signed(n), s)
    BY <1>1, <1>2, ReflectedIsValid, ReflectedType, GoesOn
<1>4. n.phase \in {"completed", "awaiting_submission"} /\ Last(n.history).action = "reflect"
    <2> DEFINE last == s.index = s.plan.steps
               to == IF last THEN "completed" ELSE "awaiting_submission"
               outcome == IF last THEN "completed" ELSE "advanced"
               e == Event(s, "reflect", to, outcome)
    <2>1. n.phase = to /\ n.history = Append(s.history, e)
        BY <1>1 DEF Reflected, Sessions
    <2>2. e \in Events /\ e.action = "reflect"
        <3>1. to \in Phases /\ outcome \in Outcomes BY DEF Phases, Outcomes
        <3>2. e \in Events BY <1>1, <3>1, EventType
        <3>3. QED BY <3>2 DEF Event
    <2>3. s.history \in Seq(Events)
        BY <1>1 DEF Sessions
    <2>4. to \in {"completed", "awaiting_submission"}
        OBVIOUS
    <2> HIDE DEF e, n, to
    <2>5. Last(n.history) = e
        BY <2>1, <2>2, <2>3, AppendedIs
    <2>6. QED
        BY <2>1, <2>2, <2>4, <2>5
<1> HIDE DEF n
<1>5. Issue(n, None)
    BY DEF n
<1>6. VInv' /\ at' = "reply" /\ (result'.code = "session_error" => ~Fits(n))
    <2>1. at \notin {"page", "reply"}
        OBVIOUS
    <2>2. n.phase \notin {"needs_revision", "awaiting_reflection"}
        BY <1>4
    <2>3. QED
        BY <1>1, <1>3, <1>4, <1>5, <2>1, <2>2, IssueKeepsTrust
<1>7. QED
    BY <1>6 DEF n

\* So is the session a plan starts with.
LEMMA StartIsIssued ==
    ASSUME LInv, VInv, at = "analyze", NEW plan \in Plans, Issue(Started(plan), None)
    PROVE  /\ VInv' /\ at' = "reply"
           /\ result'.code = "session_error" => ~Fits(Started(plan))
<1>1. request.action = "start" /\ request.session = None
    BY DEF VInv, Handled
<1>2. Valid(Started(plan)) /\ Started(plan) \in Sessions
    BY StartedIsValid, StartedType
<1>3. /\ Started(plan).phase = "awaiting_submission"
      /\ Last(Started(plan).history).action = "start"
    BY DEF Started, Last
<1>4. at \notin {"page", "reply"}
    OBVIOUS
<1>5. Started(plan).phase \notin {"needs_revision", "awaiting_reflection"}
    BY <1>3
<1>6. QED
    BY <1>1, <1>2, <1>3, <1>4, <1>5, IssueKeepsTrust

\* A handler that passes the request on changes nothing it is trusted for.
LEMMA GoToKeepsTrust ==
    ASSUME LInv, VInv, at # "page", NEW place \in Places \ {"page", "admit", "reply"}, GoTo(place),
           request.session # None => Verified(request.session),
           place \in {"collect", "analyze"} => request.action = "start",
           place \in {"submission", "review", "apply"} =>
                request.action = "submit" /\ AwaitsSubmission(request.session),
           place = "reflection" =>
                request.action = "reflect" /\ request.session.phase = "awaiting_reflection"
    PROVE  VInv' /\ at' # "reply"
<1>1. at' = place /\ UNCHANGED <<key, request, verdict, result, held, next>>
    BY DEF GoTo
<1>2. Trusted'
    BY <1>1 DEF VInv, Trusted, Genuine
<1>3. Handled'
    BY <1>1 DEF VInv, Handled, Verified, AwaitsSubmission
<1>4. Answered'
    BY <1>1 DEF Answered
<1>5. QED
    BY <1>1, <1>2, <1>3, <1>4 DEF VInv

\* Each handler keeps the invariant and what is with the page, and speaks of a
\* session_error only for a session that would be too long.
LEMMA ServerKeepsTrust ==
    ASSUME LInv, VInv,
           \/ Refuse \/ Admit \/ Dispatch \/ Mismatch \/ CollectEvidence \/ StartSession
           \/ Precheck \/ ReviewSubmission \/ ApplyReview \/ ApplyReflection
    PROVE  /\ VInv'
           /\ at' = "reply" /\ result'.code = "session_error" =>
                \E s \in Candidates : ~Fits(s)
<1>1. CASE Refuse
    <2>1. PICK s \in {None, request.session}, code \in {"invalid_request", "invalid_session"} :
            /\ Fail(s, code)
            /\ code = "invalid_session" =>
                /\ request.session # None
                /\ request.form = "broken" \/ request.session.key # key
        BY <1>1 DEF Refuse, Verified
    <2>2. at \notin {"page", "reply"}
        BY <1>1 DEF Refuse
    <2>3. code = "invalid_session" /\ held # None /\ held.key = key =>
            request.form \in {"broken", "altered"}
        BY <2>1, <2>2 DEF VInv, Handled
    <2>4. QED
        BY <2>1, <2>2, <2>3, FailKeepsTrust
<1>2. CASE Admit
    BY <1>2, GoToKeepsTrust DEF Admit, Places
<1>3. CASE Dispatch
    <2>1. at = "dispatch" /\ (request.session # None => Verified(request.session))
        BY <1>3 DEF Dispatch, VInv, Handled
    <2>2. CASE request.action = "start" /\ GoTo("collect")
        BY <2>1, <2>2, GoToKeepsTrust DEF Places
    <2>3. CASE request.action = "submit" /\ AwaitsSubmission(request.session) /\ GoTo("submission")
        BY <2>1, <2>3, GoToKeepsTrust DEF Places
    <2>4. CASE /\ request.action = "reflect"
               /\ request.session.phase = "awaiting_reflection" /\ GoTo("reflection")
        BY <2>1, <2>4, GoToKeepsTrust DEF Places
    <2>5. QED
        BY <1>3, <2>2, <2>3, <2>4 DEF Dispatch
<1>4. CASE Mismatch
    BY <1>4, FailKeepsTrust DEF Mismatch
<1>5. CASE CollectEvidence
    <2>1. at = "collect" /\ request.action = "start" /\ request.session = None
        BY <1>5 DEF CollectEvidence, VInv, Handled
    <2>2. CASE GoTo("analyze")
        BY <2>1, <2>2, GoToKeepsTrust DEF Places
    <2>3. CASE Fail(None, "planning_failed")
        BY <2>1, <2>3, FailKeepsTrust
    <2>4. QED
        BY <1>5, <2>2, <2>3 DEF CollectEvidence
<1>6. CASE StartSession
    <2>1. at = "analyze"
        BY <1>6 DEF StartSession
    <2>2. CASE Fail(None, "planning_failed")
        BY <2>1, <2>2, FailKeepsTrust
    <2>3. ASSUME NEW plan \in Plans, Issue(Started(plan), None)
          PROVE  /\ VInv'
                 /\ at' = "reply" /\ result'.code = "session_error" =>
                        \E s \in Candidates : ~Fits(s)
        <3>1. Started(plan) \in Candidates
            BY <2>1 DEF Candidates
        <3>2. QED
            BY <2>1, <2>3, <3>1, StartIsIssued
    <2>4. QED
        BY <1>6, <2>2, <2>3 DEF StartSession, Analyzed
<1>7. CASE Precheck
    <2>1. at = "submission"
        BY <1>7 DEF Precheck
    <2>2. CASE request.text # 0
        <3>1. GoTo("review")
            BY <1>7, <2>2 DEF Precheck
        <3>2. QED
            BY <2>1, <3>1, GoToKeepsTrust DEF Places, VInv, Handled
    <2>3. CASE request.text = 0
        <3>1. Issue(Reviewed(request.session, "precheck", FALSE),
                    Last(Reviewed(request.session, "precheck", FALSE).reviews))
            BY <1>7, <2>3 DEF Precheck
        <3>2. Reviewed(request.session, "precheck", FALSE) \in Candidates
            BY <2>1 DEF Candidates
        <3>3. QED
            BY <2>1, <3>1, <3>2, ReviewIsIssued
    <2>4. QED
        BY <2>2, <2>3
<1>8. CASE ReviewSubmission
    <2>1. at = "review"
        BY <1>8 DEF ReviewSubmission
    <2>2. CASE at' = "apply" /\ UNCHANGED <<key, request, result, held, next>>
        <3>1. Trusted'
            BY <2>2 DEF VInv, Trusted, Genuine
        <3>2. Handled'
            BY <2>1, <2>2 DEF VInv, Handled, Verified, AwaitsSubmission
        <3>3. Answered'
            BY <2>2 DEF Answered
        <3>4. QED
            BY <2>2, <3>1, <3>2, <3>3 DEF VInv
    <2>3. ASSUME NEW code \in {"model_error", "invalid_model_output"},
                 Fail(request.session, code)
          PROVE  VInv' /\ result'.code # "session_error"
        BY <2>1, <2>3, FailKeepsTrust
    <2>4. QED
        BY <1>8, <2>2, <2>3 DEF ReviewSubmission
<1>9. CASE ApplyReview
    <2>1. at = "apply" /\ verdict \in BOOLEAN
        BY <1>9 DEF ApplyReview, LInv, Routed
    <2>2. Issue(Reviewed(request.session, "model", verdict),
                Last(Reviewed(request.session, "model", verdict).reviews))
        BY <1>9 DEF ApplyReview
    <2>3. Reviewed(request.session, "model", verdict) \in Candidates
        BY <2>1 DEF Candidates
    <2>4. QED
        BY <2>1, <2>2, <2>3, ReviewIsIssued
<1>10. CASE ApplyReflection
    <2>1. at = "reflection"
        BY <1>10 DEF ApplyReflection
    <2>2. CASE Fail(request.session, "invalid_request")
        BY <2>1, <2>2, FailKeepsTrust
    <2>3. CASE Issue(Reflected(request.session, request.text), None)
        <3>1. Reflected(request.session, request.text) \in Candidates
            BY <2>1 DEF Candidates
        <3>2. QED
            BY <2>1, <2>3, <3>1, ReflectionIsIssued
    <2>4. QED
        BY <1>10, <2>2, <2>3 DEF ApplyReflection
<1>11. QED
    BY <1>1, <1>2, <1>3, <1>4, <1>5, <1>6, <1>7, <1>8, <1>9, <1>10

\* The page keeps a session it may have, under the key of a living or a new server.
LEMMA ToPageKeepsTrust ==
    ASSUME LInv, VInv, NEW s \in Sessions \cup {None}, NEW action, ToPage(s, action), Genuine(s),
           key' \in Nat, key' = key \/ s.key < key' \/ s = None
    PROVE  VInv'
<1>1. at' = "page" /\ request' = NoRequest /\ held' = s
    BY DEF ToPage
<1>2. key \in Nat
    BY SizesAssumption DEF LInv, TypeOK
<1>3. Genuine(held)'
    <2>1. CASE s = None
        BY <1>1, <2>1 DEF Genuine
    <2>2. CASE key' = key
        BY <1>1, <2>2 DEF Genuine
    <2>3. CASE s # None /\ s.key < key'
        <3>1. s.key \in Nat /\ s.key <= key' /\ s.key # key'
            BY <2>3 DEF Sessions
        <3>2. QED BY <1>1, <3>1 DEF Genuine
    <2>4. QED
        BY <2>1, <2>2, <2>3
<1>4. Trusted'
    BY <1>1, <1>3 DEF Trusted, Genuine, NoRequest
<1>5. Handled'
    BY <1>1, NoneAssumption DEF Handled, NoRequest
<1>6. Answered'
    BY <1>1 DEF Answered
<1>7. QED
    BY <1>4, <1>5, <1>6 DEF VInv

\* The page takes what the answer brings, or keeps what it has.
LEMMA PageKeepsTrust ==
    ASSUME LInv, VInv, Receive \/ Disconnect \/ Restart \/ Refresh
    PROVE  VInv'
<1>1. key \in Nat /\ Genuine(held) /\ Genuine(None) /\ held \in Sessions \cup {None}
    BY SizesAssumption DEF LInv, TypeOK, VInv, Trusted, Genuine
<1>2. CASE Receive
    <2>1. /\ key' = key /\ key' \in Nat /\ Genuine(result.session)
          /\ result.session \in Sessions \cup {None}
        BY <1>1, <1>2 DEF Receive, VInv, Trusted, LInv, Routed, Results
    <2>2. CASE ToPage(None, "start")
        BY <1>1, <2>1, <2>2, ToPageKeepsTrust
    <2>3. CASE ToPage(result.session, result.next)
        BY <2>1, <2>3, ToPageKeepsTrust
    <2>4. CASE ToPage(held, IF held = None THEN "start" ELSE next)
        BY <1>1, <2>1, <2>4, ToPageKeepsTrust
    <2>5. QED
        BY <1>2, <2>2, <2>3, <2>4 DEF Receive
<1>3. CASE Disconnect
    BY <1>1, <1>3, ToPageKeepsTrust DEF Disconnect
<1>4. CASE Restart
    <2>1. key' = key + 1 /\ key' \in Nat /\ ToPage(held, next)
        BY <1>1, <1>4 DEF Restart
    <2>2. held # None => held.key \in Nat /\ held.key <= key
        BY <1>1 DEF Genuine, Sessions
    <2>3. held # None => held.key < key'
        BY <1>1, <2>1, <2>2
    <2>4. QED
        BY <1>1, <2>1, <2>3, ToPageKeepsTrust
<1>5. CASE Refresh
    BY <1>1, <1>5, ToPageKeepsTrust DEF Refresh
<1>6. QED
    BY <1>2, <1>3, <1>4, <1>5

\* What the page sends is what it has, or under a signature that no server makes.
LEMMA SendKeepsTrust ==
    ASSUME LInv, VInv, Send
    PROVE  VInv'
<1>1. PICK action \in Actions, form \in {"fine", "malformed", "huge", "broken", "altered"},
           text \in Nat :
        /\ action = "start" <=> held = None
        /\ form = "altered" => held # None
        /\ request' = [action |-> action, form |-> form, text |-> text,
                       session |-> IF form = "altered" THEN [held EXCEPT !.key = 0]
                                   ELSE held]
    BY SizesAssumption DEF Send, Actions
<1>2. at' = "admit" /\ UNCHANGED <<key, verdict, result, held, next>>
    BY DEF Send
<1>3. key \in Nat \ {0} /\ Genuine(held) /\ held \in Sessions \cup {None}
    BY SizesAssumption DEF LInv, TypeOK, VInv, Trusted
<1>4. Genuine(request'.session)
    <2>1. CASE form = "altered"
        <3>1. request'.session.key = 0
            BY <1>1, <1>3, <2>1 DEF Sessions
        <3>2. QED BY <1>3, <3>1 DEF Genuine
    <2>2. CASE form # "altered"
        BY <1>1, <1>3, <2>2
    <2>3. QED BY <2>1, <2>2
<1>5. Trusted'
    BY <1>2, <1>3, <1>4 DEF Trusted, Genuine
<1>6. Handled'
    BY <1>1, <1>2 DEF Handled
<1>7. Answered'
    BY <1>2 DEF Answered
<1>8. QED
    BY <1>5, <1>6, <1>7 DEF VInv

\* Every session that carries the key of the server is lawful, whatever was lost,
\* sent again, spoiled or restarted.
THEOREM TrustIsKept == Spec => []VInv
<1>1. Init => VInv
    BY NoneAssumption DEF Init, VInv, Trusted, Handled, Answered, Genuine, NoRequest
<1>2. LInv /\ VInv /\ [Next]_vars => VInv'
    <2> SUFFICES ASSUME LInv, VInv, [Next]_vars PROVE VInv'
        OBVIOUS
    <2>1. CASE Send
        BY <2>1, SendKeepsTrust
    <2>2. CASE \/ Refuse \/ Admit \/ Dispatch \/ Mismatch \/ CollectEvidence \/ StartSession
               \/ Precheck \/ ReviewSubmission \/ ApplyReview \/ ApplyReflection
        BY <2>2, ServerKeepsTrust
    <2>3. CASE Receive \/ Disconnect \/ Restart \/ Refresh
        BY <2>3, PageKeepsTrust
    <2>4. CASE UNCHANGED vars
        BY <2>4 DEF vars, VInv, Trusted, Handled, Answered, Genuine, Kept, Extends, Verified,
            AwaitsSubmission
    <2>5. QED
        BY <2>1, <2>2, <2>3, <2>4 DEF Next
<1>3. QED
    BY <1>1, <1>2, Invariance, PTL DEF Spec

\* session_error is about length only: validate_session_state and
\* validate_result_state accept whatever the handlers make of a session that the
\* server has signed.
THEOREM OnlyLengthIsAnError == Spec => ErrorsAreAboutLength
<1> DEFINE AboutLength ==
        at' = "reply" /\ result'.code = "session_error" => \E s \in Candidates : ~Fits(s)
<1>1. LInv /\ VInv /\ Next => AboutLength
    <2> SUFFICES ASSUME LInv, VInv, Next PROVE AboutLength
        OBVIOUS
    <2>1. CASE Send \/ Receive \/ Disconnect \/ Restart \/ Refresh
        BY <2>1 DEF Send, Receive, Disconnect, Restart, Refresh, ToPage
    <2>2. CASE \/ Refuse \/ Admit \/ Dispatch \/ Mismatch \/ CollectEvidence \/ StartSession
               \/ Precheck \/ ReviewSubmission \/ ApplyReview \/ ApplyReflection
        BY <2>2, ServerKeepsTrust
    <2>3. QED
        BY <2>1, <2>2 DEF Next
<1>2. Spec => [][AboutLength]_vars
    BY <1>1, Invariance, TrustIsKept, PTL DEF Spec
<1>3. QED
    BY <1>2 DEF ErrorsAreAboutLength

\* While the server lives, an answer, an error or a broken connection leaves the
\* page its session, or brings one that goes on from it.
THEOREM ProgressIsNeverLost == Spec => ProgressIsKept
<1> DEFINE NothingLost ==
        held # None /\ held.key = key /\ held' # held =>
            \/ held' # None /\ Extends(held', held)
            \/ at = "page"
            \/ request.form \in {"broken", "altered"}
<1>1. LInv /\ VInv /\ Next => NothingLost
    <2> SUFFICES ASSUME LInv, VInv, Next PROVE NothingLost
        OBVIOUS
    <2>1. CASE Receive
        <3>1. at = "reply"
            BY <2>1 DEF Receive
        <3>2. ASSUME held # None, held.key = key, held' # held,
                     request.form \notin {"broken", "altered"}
              PROVE  held' # None /\ Extends(held', held)
            <4>1. result.code # "invalid_session" /\ Kept(result.session)
                BY <3>1, <3>2 DEF VInv, Answered
            <4>2. held' = result.session /\ result.session # None
                BY <2>1, <3>2, <4>1 DEF Receive, ToPage
            <4>3. QED
                BY <3>2, <4>1, <4>2 DEF Kept
        <3>3. QED
            BY <3>2
    <2>2. CASE Refresh
        BY <2>2 DEF Refresh
    <2>3. CASE Disconnect \/ Restart \/ Send
        BY <2>3 DEF Disconnect, Restart, Send, ToPage
    <2>4. CASE \/ Refuse \/ Admit \/ Dispatch \/ Mismatch \/ CollectEvidence \/ StartSession
               \/ Precheck \/ ReviewSubmission \/ ApplyReview \/ ApplyReflection
        <3>1. held' = held
            BY <2>4 DEF Refuse, Admit, Dispatch, Mismatch, CollectEvidence, StartSession,
                Precheck, ReviewSubmission, ApplyReview, ApplyReflection, Issue, Fail, Finish, GoTo
        <3>2. QED BY <3>1
    <2>5. QED
        BY <2>1, <2>2, <2>3, <2>4 DEF Next
<1>2. Spec => [][NothingLost]_vars
    BY <1>1, Invariance, TrustIsKept, PTL DEF Spec
<1>3. QED
    BY <1>2 DEF ProgressIsKept
====
