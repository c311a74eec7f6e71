---------------------------- MODULE BrowserPage ----------------------------
(***************************************************************************)
(* The page that frontend.py serves (the script of build_index_html): its  *)
(* two views, the requests it sends, the buttons it shows and the chats it *)
(* keeps in the sessionStorage of its tab.  What a request does is the     *)
(* server's (modules ApprovalFlow, WriteExecution and LearningSession);    *)
(* here it is answered at some time, well or badly.  Every request may     *)
(* overlap with whatever the user does meanwhile.                          *)
(***************************************************************************)
EXTENDS Naturals, Sequences, FiniteSets

CONSTANTS
    None,
    Repos,        \* what the user may type as the repository
    MaxIds,       \* bound: chat ids and approval handles of the page
    MaxQuestions  \* bound: questions asked

VARIABLES
    mode,          \* appMode: "auto" or "learning"
    repo,          \* the repository field
    chats,         \* chatSessions: the chat id of each repository
    stored,        \* sessionStorage: the chats and the repository field
    flight,        \* the request the page waits for (requestInFlight), or None
    runDisabled, modeDisabled,
    shown,         \* the output: whose it is, and the buttons in it
    learning,      \* learningNextAction; "start" without a session
    lesson,        \* learningLastResult has something to show
    ids,           \* how many chat ids and handles there are
    clicked,       \* the handles that were sent
    questions,     \* the questions sent: repository, talk and chat id
    talks          \* how often a new chat was begun for each repository; whether
                   \* the browser refused to store the latest; whether the tab
                   \* was reloaded after that

vars == <<mode, repo, chats, stored, flight, runDisabled, modeDisabled, shown,
          learning, lesson, ids, clicked, questions, talks>>

Blank == [by |-> None, handle |-> None, undo |-> FALSE]

Init ==
    /\ mode \in {"auto", "learning"}
    /\ repo \in Repos
    /\ chats = [r \in Repos |-> None]
    /\ stored = [chats |-> chats, repo |-> repo]
    /\ flight = None
    /\ runDisabled = FALSE /\ modeDisabled = FALSE
    /\ shown = Blank
    /\ learning = "start" /\ lesson = FALSE
    /\ ids = 0
    /\ clicked = {}
    /\ questions = {}
    /\ talks = [now |-> [r \in Repos |-> 0], refused |-> FALSE, lost |-> FALSE]

\* The id of the repository's chat, a new one if there is none or it is to be
\* replaced.  Storing may raise before or after the chats are written.
ChatSessionId(reset) ==
    /\ IF reset \/ chats[repo] = None
       THEN ids < MaxIds /\ ids' = ids + 1 /\ chats' = [chats EXCEPT ![repo] = ids']
       ELSE UNCHANGED <<ids, chats>>
    /\ LET talk == IF reset THEN [talks EXCEPT !.now[repo] = @ + 1] ELSE talks
       IN  \/ /\ stored' \in {[chats |-> chats', repo |-> repo], [stored EXCEPT !.chats = chats']}
              /\ talks' = [talk EXCEPT !.refused = FALSE]
           \/ /\ UNCHANGED stored
              /\ talks' = [talk EXCEPT !.refused = @ \/ chats' # chats]

\* syncLearningControls, once "requestInFlight" is as given.
LearningDisabled(waiting, next) == waiting \/ next = "none"
-----------------------------------------------------------------------------
\* The field is never disabled.
TypeRepo(r) ==
    /\ repo' = r
    /\ UNCHANGED <<mode, chats, stored, flight, runDisabled, modeDisabled, shown, learning,
                   lesson, ids, clicked, questions, talks>>

\* updateMode: the output of the other view goes, with its buttons.
SelectMode ==
    /\ ~modeDisabled
    /\ mode' = IF mode = "auto" THEN "learning" ELSE "auto"
    /\ shown' = [Blank EXCEPT !.by = IF mode' = "learning" /\ lesson THEN "learning" ELSE None]
    /\ runDisabled' = (flight # None \/ (mode' = "learning" /\ learning = "none"))
    /\ UNCHANGED <<repo, chats, stored, flight, modeDisabled, learning, lesson, ids, clicked,
                   questions, talks>>

NewConversation ==
    /\ mode = "auto" /\ flight = None
    /\ ChatSessionId(TRUE)
    /\ shown' = Blank
    /\ UNCHANGED <<mode, repo, flight, runDisabled, modeDisabled, learning, lesson, clicked,
                   questions>>

\* runUnifiedTask, by the button or by Ctrl+Enter, which no disabled button stops.
Run ==
    /\ mode = "auto" /\ flight = None
    /\ Cardinality(questions) < MaxQuestions
    /\ flight' = [kind |-> "run"]
    /\ ChatSessionId(FALSE)
    /\ questions' = questions \cup {[repo |-> repo, talk |-> talks.now[repo], chat |-> chats'[repo]]}
    /\ runDisabled' = TRUE /\ modeDisabled' = TRUE
    /\ shown' = Blank
    /\ UNCHANGED <<mode, repo, learning, lesson, clicked>>

\* renderRun: the answer, a button if it waits for an approval and the server
\* allows writes, and a button for each write that has been executed.
Render ==
    \/ UNCHANGED ids /\ shown' \in {[by |-> "auto", handle |-> None, undo |-> u] : u \in BOOLEAN}
    \/ /\ ids < MaxIds /\ ids' = ids + 1
       /\ shown' \in {[by |-> "auto", handle |-> ids', undo |-> u] : u \in BOOLEAN}

Failure == UNCHANGED ids /\ shown' = [Blank EXCEPT !.by = "auto"]

RunReturns ==
    /\ flight # None /\ flight.kind = "run"
    /\ flight' = None
    /\ IF mode = "auto" THEN Render \/ Failure ELSE UNCHANGED <<ids, shown>>
    /\ modeDisabled' = FALSE
    /\ runDisabled' = (mode = "learning" /\ LearningDisabled(FALSE, learning))
    /\ UNCHANGED <<mode, repo, chats, stored, learning, lesson, clicked, questions, talks>>

ApproveWrite ==
    /\ shown.handle # None /\ flight = None
    /\ flight' = [kind |-> "approve"]
    /\ clicked' = clicked \cup {shown.handle}
    /\ runDisabled' = TRUE
    /\ UNCHANGED <<mode, repo, chats, stored, modeDisabled, shown, learning, lesson, ids,
                   questions, talks>>

\* Whatever the view is by now.
ApproveReturns ==
    /\ flight # None /\ flight.kind = "approve"
    /\ flight' = None
    /\ Render \/ Failure
    /\ runDisabled' = FALSE
    /\ UNCHANGED <<mode, repo, chats, stored, modeDisabled, learning, lesson, clicked,
                   questions, talks>>

RollbackWrite ==
    /\ shown.undo /\ flight = None
    /\ flight' = [kind |-> "rollback"]
    /\ UNCHANGED <<mode, repo, chats, stored, runDisabled, modeDisabled, shown, learning, lesson,
                   ids, clicked, questions, talks>>

\* A line is put before the output, which stays with its buttons.
RollbackReturns ==
    /\ flight # None /\ flight.kind = "rollback"
    /\ flight' = None
    /\ UNCHANGED <<mode, repo, chats, stored, runDisabled, modeDisabled, shown, learning, lesson,
                   ids, clicked, questions, talks>>

\* runLearningTask; the goal takes Ctrl+Enter while there is no session.
RunLearning ==
    /\ mode = "learning" /\ flight = None
    /\ learning # "none" /\ (~runDisabled \/ learning = "start")
    /\ flight' = [kind |-> "learning"]
    /\ runDisabled' = LearningDisabled(TRUE, learning) /\ modeDisabled' = TRUE
    /\ shown' = Blank
    /\ UNCHANGED <<mode, repo, chats, stored, learning, lesson, ids, clicked, questions, talks>>

\* A session, with the next action; none, when the session is invalid or
\* there was none; or the request fails.
LearningReturns ==
    /\ flight # None /\ flight.kind = "learning"
    /\ flight' = None
    /\ \/ learning' \in {"start", "submit", "none"} /\ lesson' = TRUE
       \/ UNCHANGED <<learning, lesson>>
    /\ shown' = IF mode = "learning" THEN [Blank EXCEPT !.by = "learning"] ELSE shown
    /\ modeDisabled' = FALSE
    /\ runDisabled' = IF mode = "learning" THEN LearningDisabled(FALSE, learning') ELSE runDisabled
    /\ UNCHANGED <<mode, repo, chats, stored, ids, clicked, questions, talks>>

\* The tab is reloaded; a browser may restore what was selected.
Reload ==
    /\ mode' \in {"auto", "learning"}
    /\ repo' = stored.repo
    /\ chats' = stored.chats
    /\ flight' = None
    /\ runDisabled' = FALSE /\ modeDisabled' = FALSE
    /\ shown' = Blank
    /\ learning' = "start" /\ lesson' = FALSE
    /\ talks' = [talks EXCEPT !.lost = @ \/ talks.refused, !.refused = FALSE]
    /\ UNCHANGED <<stored, ids, clicked, questions>>

Next ==
    \/ \E r \in Repos : TypeRepo(r)
    \/ SelectMode \/ NewConversation
    \/ Run \/ RunReturns \/ ApproveWrite \/ ApproveReturns \/ RollbackWrite \/ RollbackReturns
    \/ RunLearning \/ LearningReturns \/ Reload

Spec == Init /\ [][Next]_vars
-----------------------------------------------------------------------------
\* README "多轮对话": two questions of a tab go to one chat exactly when they
\* are about one repository and no new chat was begun for it in between,
\* through changes of the field, reloads and lost answers, unless the browser
\* refused to store the chats and the tab was reloaded.
ChatsAreSeparate ==
    talks.lost \/
        \A p, q \in questions :
            p.chat = q.chat <=> p.repo = q.repo /\ p.talk = q.talk

\* Once an approval has been sent, its button is gone when the answer is
\* there, whatever the answer was and whichever view it came back to.
ButtonsAreFresh == flight = None => shown.handle \notin clicked

\* A question and a lesson come back to the view that sent them, and leave the
\* choice of the view to the user.
ViewsAreKept ==
    /\ flight = None => ~modeDisabled
    /\ flight # None =>
        /\ flight.kind = "run" => mode = "auto"
        /\ flight.kind = "learning" => mode = "learning"

PageIsHonest == ChatsAreSeparate /\ ButtonsAreFresh /\ ViewsAreKept
-----------------------------------------------------------------------------
Chats == [Repos -> 1 .. ids \cup {None}]

TypeOK ==
    /\ mode \in {"auto", "learning"} /\ repo \in Repos /\ ids \in Nat
    /\ chats \in Chats /\ stored \in [chats : Chats, repo : Repos]
    /\ flight \in [kind : {"run", "approve", "rollback", "learning"}] \cup {None}
    /\ modeDisabled \in BOOLEAN
    /\ shown \in [by : {"auto", "learning", None}, handle : 1 .. ids \cup {None}, undo : BOOLEAN]
    /\ clicked \subseteq 1 .. ids
    /\ questions \subseteq [repo : Repos, talk : Nat, chat : 1 .. ids]
    /\ talks \in [now : [Repos -> Nat], refused : BOOLEAN, lost : BOOLEAN]

\* A chat belongs to one repository; a question of its current talk, and no
\* other, was sent to the chat that is in use.
ChatsAreTold ==
    /\ ~talks.refused => stored.chats = chats
    /\ \A r, s \in Repos : chats[r] = chats[s] /\ chats[r] # None => r = s
    /\ \A q \in questions :
         /\ q.talk <= talks.now[q.repo]
         /\ q.talk = talks.now[q.repo] => chats[q.repo] = q.chat
         /\ \A r \in Repos : chats[r] = q.chat => q.repo = r /\ q.talk = talks.now[r]

\* What carries the properties.
PageInv ==
    /\ TypeOK
    /\ ChatsAreSeparate /\ (talks.lost \/ ChatsAreTold)
    /\ shown.handle \in clicked => flight = [kind |-> "approve"]
    /\ modeDisabled <=> flight \in {[kind |-> "run"], [kind |-> "learning"]}
    /\ flight = [kind |-> "run"] => mode = "auto"
    /\ flight = [kind |-> "learning"] => mode = "learning"
=============================================================================
