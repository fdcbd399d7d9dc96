----------------------------- MODULE HttpRetry -----------------------------
(***************************************************************************)
(* One download from MusicBrainz, the Cover Art Archive or Discogs:        *)
(* http_get_bytes_with_retry (src/src/cdrip/http_retry.h), with its         *)
(* attempts, its redirections and its pauses.  Times are in milliseconds,  *)
(* and only the pauses take any.                                           *)
(***************************************************************************)
EXTENDS Integers

CONSTANTS
  MaxAttempts, MaxRedirects, RetryDelay,   \* the HttpRetryPolicy
  Statuses,    \* HTTP statuses a server may answer with
  Afters       \* the numbers of seconds a Retry-After header may carry

NoHeader == 0   \* no such header, or one that is not a number
Hour == 3600000

ASSUME HttpRetryAssumption ==
  /\ MaxAttempts \in Nat \ {0} /\ MaxRedirects \in Nat /\ RetryDelay \in Nat
  /\ Statuses \subseteq 100..599
  /\ Afters \subseteq Int

(* What comes back from soup_session_send_and_read: gerr is the class of    *)
(* the GError, and there is a body only without one.  Status 0 stands for   *)
(* no answer at all, which has no headers either.                           *)
Response ==
  {r \in [status: Statuses \cup {0}, gerr: {"none", "transient", "hard"}, body: {"none", "empty", "some"},
          location: {"given", "none"}, after: Afters \cup {NoHeader}] :
     /\ r.gerr = "none" <=> r.body # "none"
     /\ r.status = 0 => r.gerr # "none" /\ r.location = "none" /\ r.after = NoHeader}

VARIABLES
  pc,         \* "start", "send", "pause", "done"
  attempt,    \* attempts used up before this one
  redirects,  \* redirections followed
  delay,      \* delay_ms of the pause
  ok,         \* what the call returns
  err,        \* the class of the error message, or "none"
  last,       \* history: the last response, or <<>>
  clock,      \* history: milliseconds paused since that response
  requests,   \* history: requests sent, counted up to Cap
  failures    \* history: responses that were worth a retry, counted up to Cap

(* Bound: one request more than there ought to be. *)
Cap == MaxAttempts + MaxRedirects + 1

history == <<last, clock, requests, failures>>
vars == <<pc, attempt, redirects, delay, ok, err, history>>

Init ==
  /\ pc = "start"
  /\ attempt = 0 /\ redirects = 0 /\ delay = 0
  /\ ok = FALSE /\ err = "none"
  /\ last = <<>> /\ clock = 0 /\ requests = 0 /\ failures = 0

IsRedirection(status) == status \in 300..399
IsSuccessful(status) == status \in 200..299

(* http_status_is_retryable *)
StatusIsRetryable(status) == status \in {0, 408, 429} \cup 500..599

(* gerror_is_retryable *)
GErrorIsRetryable(gerr) == gerr = "transient"

EmptySuccess(r) == IsSuccessful(r.status) /\ r.body # "some"

WorthARetry(r) == StatusIsRetryable(r.status) \/ GErrorIsRetryable(r.gerr) \/ EmptySuccess(r)

(* parse_retry_after_ms: at most an hour; -1 if there is nothing to respect. *)
RetryAfter(after) ==
  IF after <= 0 THEN -1 ELSE IF 1000 * after > Hour THEN Hour ELSE 1000 * after

(* Mutant: the header counts only if it asks for less than the policy. *)
RetryDelayIgnoring(r) ==
  IF RetryAfter(r.after) > 0 /\ RetryAfter(r.after) < RetryDelay THEN RetryAfter(r.after) ELSE RetryDelay

(* compute_retry_delay_ms *)
ComputedDelay(r) == IF RetryAfter(r.after) > 0 THEN RetryAfter(r.after) ELSE RetryDelay

-----------------------------------------------------------------------------

Fail(e) == pc' = "done" /\ ok' = FALSE /\ err' = e

(* The session is made; without one there is no request. *)
Start ==
  /\ pc = "start"
  /\ \/ pc' = "send" /\ UNCHANGED <<ok, err>>
     \/ Fail("session")
  /\ UNCHANGED <<attempt, redirects, delay, history>>

(* A URL that is new, the first one or the Location of a redirection, may   *)
(* not make a message; a relative Location never does.                      *)
NoMessage ==
  /\ pc = "send"
  /\ last # <<>> => last.location = "given" /\ IsRedirection(last.status)
  /\ Fail("message")
  /\ UNCHANGED <<attempt, redirects, delay, history>>

Followed(r) == IsRedirection(r.status) /\ r.location = "given" /\ redirects < MaxRedirects

Accepted(r) == IsSuccessful(r.status) /\ r.body = "some"

CountUp(n) == IF n < Cap THEN n + 1 ELSE n

(* Every answer is noted. *)
Note(r) ==
  /\ last' = r /\ clock' = 0
  /\ requests' = CountUp(requests)
  /\ failures' = IF ~Followed(r) /\ WorthARetry(r) THEN CountUp(failures) ELSE failures

(* Mutant: a redirection consumes an attempt. *)
FollowCounting(r) ==
  /\ Followed(r)
  /\ redirects' = redirects + 1
  /\ attempt' = attempt + 1
  /\ UNCHANGED <<pc, delay, ok, err>>

(* Mutant: redirections are not counted. *)
FollowUncounted(r) ==
  /\ Followed(r)
  /\ UNCHANGED <<pc, attempt, redirects, delay, ok, err>>

(* A redirection consumes no attempt. *)
Follow(r) ==
  /\ Followed(r)
  /\ redirects' = redirects + 1
  /\ UNCHANGED <<pc, attempt, delay, ok, err>>

Accept(r) ==
  /\ Accepted(r)
  /\ pc' = "done" /\ ok' = TRUE
  /\ UNCHANGED <<attempt, redirects, delay, err>>

(* should_retry *)
MayRetry(r) == attempt + 1 < MaxAttempts /\ WorthARetry(r)

Retry(r) ==
  /\ ~Followed(r) /\ ~Accepted(r) /\ MayRetry(r)
  /\ delay' = ComputedDelay(r)
  /\ pc' = "pause"
  /\ UNCHANGED <<attempt, redirects, ok, err>>

(* Mutant: an empty body leaves the loop without a word. *)
GiveUpSilently(r) ==
  /\ ~Followed(r) /\ ~Accepted(r) /\ ~MayRetry(r)
  /\ Fail(IF IsSuccessful(r.status) THEN "none" ELSE "status")
  /\ UNCHANGED <<attempt, redirects, delay>>

GiveUp(r) ==
  /\ ~Followed(r) /\ ~Accepted(r) /\ ~MayRetry(r)
  /\ Fail(IF IsSuccessful(r.status) THEN "empty" ELSE "status")
  /\ UNCHANGED <<attempt, redirects, delay>>

(* One request and what is made of its response. *)
Send ==
  /\ pc = "send"
  /\ \E r \in Response : Note(r) /\ (Follow(r) \/ Accept(r) \/ Retry(r) \/ GiveUp(r))

(* Mutant: the loop counter is not advanced. *)
PauseForever ==
  /\ pc = "pause"
  /\ clock' = clock + delay
  /\ pc' = "send"
  /\ UNCHANGED <<attempt, redirects, delay, ok, err, last, requests, failures>>

(* The pause, and the next round of the loop. *)
Pause ==
  /\ pc = "pause"
  /\ clock' = clock + delay
  /\ attempt' = attempt + 1
  /\ pc' = "send"
  /\ UNCHANGED <<redirects, delay, ok, err, last, requests, failures>>

Next == Start \/ NoMessage \/ Send \/ Pause

Spec == Init /\ [][Next]_vars

(* Every request is answered or times out; a pause ends. *)
FairSpec == Spec /\ WF_vars(Next)

-----------------------------------------------------------------------------

TypeOK ==
  /\ pc \in {"start", "send", "pause", "done"}
  /\ attempt \in 0..(MaxAttempts - 1)
  /\ redirects \in 0..MaxRedirects
  /\ delay \in 0..Hour \/ delay = RetryDelay
  /\ ok \in BOOLEAN
  /\ err \in {"none", "session", "message", "empty", "status"}
  /\ last \in Response \cup {<<>>}
  /\ clock \in Nat /\ requests \in 0..Cap /\ failures \in 0..Cap

(* However the server answers, one download is never more requests than the *)
(* attempts and the redirections that are allowed together.                 *)
RequestsBounded == requests <= MaxAttempts + MaxRedirects

(* A call that fails says why, and one that succeeds has a body from the    *)
(* last response and no message left over from an earlier attempt.          *)
OutcomeIsExplained ==
  pc = "done" =>
    /\ ok <=> err = "none"
    /\ ok => requests > 0 /\ IsSuccessful(last.status) /\ last.body = "some"

(* A download is given up for a failure that may pass only after all its    *)
(* attempts failed that way; redirections in between take none away.        *)
GivesUpOnlyWhenExhausted ==
  pc = "done" /\ err \in {"empty", "status"} /\ WorthARetry(last) => failures = MaxAttempts

(* A server that is busy and says for how long is left alone for that long, *)
(* up to an hour.                                                           *)
ServerIsGivenTime ==
  [][requests > 0 /\ requests' # requests /\ ~IsRedirection(last.status) /\ last.after > 0
       => clock >= 1000 * last.after \/ clock >= Hour]_vars

(* Every call returns. *)
CallReturns == <>(pc = "done")
=============================================================================
