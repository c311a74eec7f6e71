----------------------------- MODULE LlmClient -----------------------------
(***************************************************************************)
(* OpenAICompatibleChatClient and the model node that uses it.  Several    *)
(* threads share one client.  A logical call makes up to MaxAttempts HTTP  *)
(* attempts; whatever happens, the `finally` of complete leaves ONE        *)
(* observation in a slot of the calling thread, and the model node takes   *)
(* it from there into its trace event.                                     *)
(*                                                                         *)
(* `sent` and the field `sent` of an event are the auxiliary record of     *)
(* what really went over the wire; no action of the code reads them.       *)
(***************************************************************************)
EXTENDS Naturals, Sequences, FiniteSets, Functions

CONSTANTS
  Threads,      \* threads that share the client
  MaxAttempts,  \* LLMRetryPolicy.max_attempts, 1 to 5
  Limit,        \* observation_limit, the length of the shared deque, at least 1
  Replies,      \* what the environment may answer an attempt with, of AllReplies
  MaxCalls,     \* bound: logical calls of each thread
  None          \* no class, no observation

TransientStatus == {"http_408", "http_425", "http_429", "http_500", "http_502",
                    "http_503", "http_504"}
TransientReasons == {"timeout", "connection_reset", "connection_aborted", "broken_pipe"}

\* Replies of the endpoint, by the branch of _request_once or of
\* extract_message_content that deals with them.  "incompleteread" stands
\* for an exception that no branch translates.
Rejections == TransientStatus \cup {"http_400", "http_401", "http_404"}
Unreachable == TransientReasons \cup {"connectionrefusederror", "url_error"}
Malformed == {"not_json", "not_object", "no_choices", "bad_message"}
AllReplies == Rejections \cup Unreachable \cup Malformed
                \cup {"content", "incompleteread"}

VARIABLES
  pc,         \* per thread: where it is in model_node and complete
  calls,      \* per thread: logical calls begun
  attempts,   \* per thread: local `attempts` of complete
  outcome,    \* per thread: local `outcome`
  errorClass, \* per thread: local `error_class`
  pending,    \* per thread: threading.local().pending
  log,        \* the shared deque of observations
  events,     \* per thread: the model_decision events it recorded
  sent        \* per thread: replies to the attempts of the current call

vars == <<pc, calls, attempts, outcome, errorClass, pending, log, events, sent>>

Observation == [attempts : 1 .. 5, outcome : {"success", "error"},
                class : AllReplies \cup {"invalid_json", "invalid_response", None}]

TypeOK ==
  /\ pc \in [Threads -> {"idle", "sending", "backoff", "finally", "take"}]
  /\ calls \in [Threads -> 0 .. MaxCalls]
  /\ attempts \in [Threads -> 0 .. MaxAttempts]
  /\ outcome \in [Threads -> {"success", "error"}]
  /\ pending \in [Threads -> Observation \cup {None}]
  /\ Len(log) <= Limit

\* The class _request_once and extract_message_content give a failure.
ClassOf(reply) ==
  CASE reply = "not_json"                                     -> "invalid_json"
    [] reply \in {"not_object", "no_choices", "bad_message"}  -> "invalid_response"
    [] OTHER                                                  -> reply

IsTransient(reply) == reply \in TransientStatus \cup TransientReasons

\* The exception of this reply is an LLMRequestError.
IsTranslated(reply) == reply # "incompleteread"

\* normalize_llm_call_observation on what the client itself builds; the
\* labels and the latency, which it also checks, are abstracted.
Normalize(o) ==
  IF o # None /\ o.attempts \in 1 .. 5 /\ (o.outcome = "success") = (o.class = None)
  THEN o ELSE None

Init ==
  /\ pc = [t \in Threads |-> "idle"]
  /\ calls = [t \in Threads |-> 0]
  /\ attempts = [t \in Threads |-> 0]
  /\ outcome = [t \in Threads |-> "error"]
  /\ errorClass = [t \in Threads |-> None]
  /\ pending = [t \in Threads |-> None]
  /\ log = <<>>
  /\ events = [t \in Threads |-> <<>>]
  /\ sent = [t \in Threads |-> <<>>]

\* model_node clears what an earlier call of this thread left, and complete begins.
Call(t) ==
  /\ pc[t] = "idle" /\ calls[t] < MaxCalls
  /\ calls' = [calls EXCEPT ![t] = @ + 1]
  /\ pending' = [pending EXCEPT ![t] = None]
  /\ attempts' = [attempts EXCEPT ![t] = 0]
  /\ outcome' = [outcome EXCEPT ![t] = "error"]
  /\ errorClass' = [errorClass EXCEPT ![t] = None]
  /\ sent' = [sent EXCEPT ![t] = <<>>]
  /\ pc' = [pc EXCEPT ![t] = "sending"]
  /\ UNCHANGED <<log, events>>

\* One turn of the retry loop.  A class set by an earlier attempt is kept
\* when the exception is not an LLMRequestError.
Attempt(t, reply) ==
  /\ pc[t] = "sending"
  /\ attempts' = [attempts EXCEPT ![t] = @ + 1]
  /\ sent' = [sent EXCEPT ![t] = Append(@, reply)]
  /\ \/ /\ reply = "content"
        /\ outcome' = [outcome EXCEPT ![t] = "success"]
        /\ errorClass' = [errorClass EXCEPT ![t] = None]
        /\ pc' = [pc EXCEPT ![t] = "finally"]
     \/ /\ reply # "content"
        /\ errorClass' = [errorClass EXCEPT ![t] =
             IF IsTranslated(reply) \/ @ = None THEN ClassOf(reply) ELSE @]
        /\ pc' = [pc EXCEPT ![t] =
             IF IsTransient(reply) /\ attempts'[t] < MaxAttempts
             THEN "backoff" ELSE "finally"]
        /\ UNCHANGED outcome
  /\ UNCHANGED <<calls, pending, log, events>>

\* The sleep between two attempts is over.
Retry(t) ==
  /\ pc[t] = "backoff"
  /\ pc' = [pc EXCEPT ![t] = "sending"]
  /\ UNCHANGED <<calls, attempts, outcome, errorClass, pending, log, events, sent>>

X_RecordShared(t) ==
  LET o == [attempts |-> attempts[t], outcome |-> outcome[t], class |-> errorClass[t]]
  IN /\ pc[t] = "finally"
     /\ pending' = [u \in Threads |-> o]
     /\ log' = IF Len(log) < Limit THEN Append(log, o) ELSE Append(Tail(log), o)
     /\ pc' = [pc EXCEPT ![t] = "take"]
     /\ UNCHANGED <<calls, attempts, outcome, errorClass, events, sent>>

\* _record_observation, in the `finally` of complete.
Record(t) ==
  LET o == [attempts |-> attempts[t], outcome |-> outcome[t], class |-> errorClass[t]]
  IN /\ pc[t] = "finally"
     /\ pending' = [pending EXCEPT ![t] = o]
     /\ log' = IF Len(log) < Limit THEN Append(log, o) ELSE Append(Tail(log), o)
     /\ pc' = [pc EXCEPT ![t] = "take"]
     /\ UNCHANGED <<calls, attempts, outcome, errorClass, events, sent>>

\* A KeyboardInterrupt in the sleep: the `finally` records what the locals
\* say, and the exception ends the run before the node takes the record.
Interrupt(t) ==
  /\ pc[t] = "backoff"
  /\ pending' = [pending EXCEPT ![t] =
       [attempts |-> attempts[t], outcome |-> "error", class |-> errorClass[t]]]
  /\ log' = IF Len(log) < Limit THEN Append(log, pending'[t])
            ELSE Append(Tail(log), pending'[t])
  /\ pc' = [pc EXCEPT ![t] = "idle"]
  /\ UNCHANGED <<calls, attempts, outcome, errorClass, events, sent>>

\* take_call_observation, and the event model_node builds with it.
Take(t) ==
  /\ pc[t] = "take"
  /\ events' = [events EXCEPT ![t] =
       Append(@, [call |-> Normalize(pending[t]), sent |-> sent[t]])]
  /\ pending' = [pending EXCEPT ![t] = None]
  /\ pc' = [pc EXCEPT ![t] = "idle"]
  /\ UNCHANGED <<calls, attempts, outcome, errorClass, log, sent>>

Next == \E t \in Threads :
  \/ Call(t) \/ Retry(t) \/ Record(t) \/ Interrupt(t) \/ Take(t)
  \/ \E reply \in Replies : Attempt(t, reply)

Spec == Init /\ [][Next]_vars

-----------------------------------------------------------------------------
LastOf(wire) == wire[Len(wire)]

\* The calls of a run that left a usable observation.
Seen(run) == {i \in DOMAIN run : run[i].call # None}

\* finish_unified_run: the part of the summary that is about model calls.
Summary(run) ==
  [observed |-> Cardinality(Seen(run)),
   attempts |-> SumFunction([i \in Seen(run) |-> run[i].call.attempts]),
   retries |-> SumFunction([i \in Seen(run) |-> run[i].call.attempts - 1]),
   succeeded |-> Cardinality({i \in Seen(run) : run[i].call.outcome = "success"})]

\* Only transient failures were retried, and the class of a failed call is that
\* of one of its attempts.
Classes(wire) == {ClassOf(wire[k]) : k \in DOMAIN wire}
Lawful(wire, class) ==
  /\ \A k \in 1 .. Len(wire) - 1 : IsTransient(wire[k])
  /\ class \in Classes(wire) \cup {None}

\* README "统一 LangGraph 会把可用观测绑定到对应的 model_decision": the summary
\* of a thread's run counts what its own calls sent over the wire, however
\* the calls of other threads interleave with them; only transient failures
\* were retried; and the class of a failed call is that of one of its attempts.
SummaryMatchesWire == \A t \in Threads :
  LET run == events[t]
      s == Summary(run)
  IN /\ s.observed = Len(run)
     /\ s.attempts = SumFunction([i \in DOMAIN run |-> Len(run[i].sent)])
     /\ s.retries = SumFunction([i \in DOMAIN run |-> Len(run[i].sent) - 1])
     /\ s.succeeded = Cardinality({i \in DOMAIN run : LastOf(run[i].sent) = "content"})
     /\ \A i \in DOMAIN run : Lawful(run[i].sent, run[i].call.class)

-----------------------------------------------------------------------------
\* Up to here a call has sent these, and each of them was worth a retry.
MayRetry(wire) == \A k \in DOMAIN wire : IsTransient(wire[k])

\* What an observation says is what its call has sent.
Tells(call, wire) ==
  /\ wire \in Seq(AllReplies) /\ Len(wire) \in 1 .. MaxAttempts
  /\ call \in Observation /\ call.attempts = Len(wire)
  /\ call.outcome = IF LastOf(wire) = "content" THEN "success" ELSE "error"
  /\ call.class = None <=> LastOf(wire) = "content"
  /\ Lawful(wire, call.class)

\* Where a thread is tells what its call has sent and noted.
CallIsKnown(t) ==
  LET noted == [attempts |-> attempts[t], outcome |-> outcome[t], class |-> errorClass[t]]
  IN /\ pc[t] \in {"sending", "backoff"} =>
          /\ sent[t] \in Seq(AllReplies) /\ attempts[t] = Len(sent[t])
          /\ attempts[t] < MaxAttempts /\ MayRetry(sent[t])
          /\ outcome[t] = "error"
          /\ IF sent[t] = <<>> THEN errorClass[t] = None
             ELSE errorClass[t] \in Classes(sent[t]) \ {None}
     /\ pc[t] = "backoff" => sent[t] # <<>>
     /\ pc[t] \in {"finally", "take"} => Tells(noted, sent[t])
     /\ pc[t] = "take" => pending[t] = noted

\* The inductive invariant that carries SummaryMatchesWire.
WireInv ==
  /\ DOMAIN pc = Threads /\ DOMAIN attempts = Threads /\ DOMAIN outcome = Threads
  /\ DOMAIN errorClass = Threads /\ DOMAIN pending = Threads /\ DOMAIN sent = Threads
  /\ events \in [Threads -> Seq([call : Observation, sent : Seq(AllReplies)])]
  /\ \A t \in Threads :
       /\ CallIsKnown(t)
       /\ \A i \in DOMAIN events[t] : Tells(events[t][i].call, events[t][i].sent)
=============================================================================
