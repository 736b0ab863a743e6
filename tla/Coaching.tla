------------------------------ MODULE Coaching ------------------------------
(***************************************************************************)
(* The query coachingInsights from the rate limit to its answer: the read  *)
(* model is built in one transaction, then the language model is asked,    *)
(* under a timer, and whatever goes wrong with it the answer is the        *)
(* rule-based insight that was derived before.  The calls are what the     *)
(* limit is there for: "bounds OpenRouter spend".                          *)
(***************************************************************************)
EXTENDS RateLimiter

CONSTANT ApiKeySet   \* OPENROUTER_API_KEY is configured

ASSUME CoachingAssumption == ApiKeySet \in BOOLEAN

VARIABLE query   \* what each request is at behind the guard

coachingVars == <<limiterVars, query>>

\* asked: the language model was called.
Query == [at : {"guard", "fetching", "body", "answered"},
          answer : {"none", "insight", "fallback", "error"}, asked : BOOLEAN]

CoachingTypeOK == LimiterTypeOK /\ query \in [Requests -> Query]

CoachingInit ==
  /\ LimiterInit
  /\ query = [r \in Requests |-> [at |-> "guard", answer |-> "none", asked |-> FALSE]]

admitted(r) == check[r].decision \in {"allowed", "failedOpen"}

answerWith(r, answer) ==
  /\ query' = [query EXCEPT ![r].at = "answered", ![r].answer = answer]
  /\ UNCHANGED limiterVars

-----------------------------------------------------------------------------
\* The caller is no ACTIVE member, or the transaction fails.
RefuseCaller(r) ==
  /\ admitted(r) /\ query[r].at = "guard"
  /\ answerWith(r, "error")

\* The read model is there: the timer is set and the call goes out, if it can.
ReadModel(r) ==
  /\ admitted(r) /\ query[r].at = "guard"
  /\ IF ApiKeySet
     THEN /\ query' = [query EXCEPT ![r].at = "fetching", ![r].asked = TRUE]
          /\ UNCHANGED limiterVars
     ELSE answerWith(r, "fallback")

\* Status and headers are there, the body is not.
RespondOk(r) ==
  /\ query[r].at = "fetching"
  /\ query' = [query EXCEPT ![r].at = "body"]
  /\ UNCHANGED limiterVars

\* A status that is not OK, or no connection.
RespondNotOk(r) ==
  /\ query[r].at = "fetching"
  /\ answerWith(r, "fallback")

\* The body is a well-formed insight, or it is not.
ParseInsight(r) ==
  /\ query[r].at = "body"
  /\ \E answer \in {"insight", "fallback"} : answerWith(r, answer)

\* Faulty: the timer is cleared as soon as the call has returned.
AbortOfCall(r) ==
  /\ query[r].at = "fetching"
  /\ answerWith(r, "fallback")

\* The timer covers the call and the body.
Abort(r) ==
  /\ query[r].at \in {"fetching", "body"}
  /\ answerWith(r, "fallback")

CoachingNext ==
  \/ LimiterNext /\ UNCHANGED query
  \/ \E r \in Requests :
       \/ RefuseCaller(r) \/ ReadModel(r)
       \/ RespondOk(r) \/ RespondNotOk(r) \/ ParseInsight(r) \/ Abort(r)

CoachingSpec == CoachingInit /\ [][CoachingNext]_coachingVars

\* Timers fire and the database answers; Redis and the language model owe nothing.
CoachingFairness ==
  /\ WF_coachingVars(Pass /\ (\E r \in Requests : undecided(r)) /\ UNCHANGED query)
  /\ \A r \in Requests :
       /\ WF_coachingVars(TimeOut(r) /\ UNCHANGED query)
       /\ WF_coachingVars(ReadModel(r))
       /\ WF_coachingVars(Abort(r))

-----------------------------------------------------------------------------
(* Properties. *)

\* "The coachingInsights query counts against the tighter coaching bucket, which
\* is what bounds OpenRouter spend" (rate-limit.guard.ts:6-7): apart from checks
\* that failed open, the requests of a window make no more calls than its limit, in
\* whatever order and however late the counter is incremented and expires.
SpendIsBounded ==
  \A w \in Window :
    Cardinality({r \in Requests :
      query[r].asked /\ check[r].window = w /\ check[r].decision # "failedOpen"}) <= Limit

\* "Always resolves (never throws)" (openrouter.client.ts:31), and the guard
\* "must never take the API down": with Redis silent, and the language model
\* silent at any point, every query is answered or rejected.
CoachingAnswers ==
  \A r \in Requests :
    (check[r].cmd # "none") ~>
      (query[r].at = "answered" \/ check[r].decision \in {"rejected", "died"})

=============================================================================
