-------------------------- MODULE HttpRetryProofs --------------------------
(***************************************************************************)
(* The safety of HttpRetry for every policy, every status and every value  *)
(* of Retry-After.                                                         *)
(*                                                                         *)
(* The inductive invariant IInv counts: between two requests, every        *)
(* request was an attempt that failed in a way worth a retry, or a         *)
(* redirection.                                                            *)
(***************************************************************************)
EXTENDS HttpRetry, TLAPS

(* What the counters are at each place of the loop. *)
CountInv ==
  /\ pc = "start" => attempt = 0 /\ redirects = 0 /\ requests = 0 /\ failures = 0
  /\ pc = "send" => requests = attempt + redirects /\ failures = attempt
  /\ pc = "pause" => /\ requests = attempt + redirects + 1 /\ failures = attempt + 1
                     /\ attempt + 1 < MaxAttempts
  /\ pc = "done" => requests <= attempt + redirects + 1

(* What is known of the last response. *)
LastInv ==
  /\ requests > 0 => last \in Response
  /\ pc \in {"send", "pause"} => err = "none" /\ ~ok
  /\ pc = "start" => err = "none" /\ ~ok

(* How long a server has been left alone. *)
WaitInv ==
  /\ pc = "pause" => delay = ComputedDelay(last) /\ clock = 0
  /\ pc = "send" /\ requests > 0 /\ ~IsRedirection(last.status) => clock >= ComputedDelay(last)

IInv ==
  /\ TypeOK /\ CountInv /\ LastInv /\ WaitInv
  /\ OutcomeIsExplained /\ GivesUpOnlyWhenExhausted

(* The numbers of the policy. *)
LEMMA PolicyFacts == MaxAttempts \in Nat /\ MaxAttempts > 0 /\ MaxRedirects \in Nat /\ RetryDelay \in Nat
  BY HttpRetryAssumption

(* An hour is a number of milliseconds. *)
LEMMA HourIsNat == Hour \in Nat
  BY SMT DEF Hour

(* What a Retry-After header can say. *)
LEMMA AfterIsInt == \A r \in Response : r.after \in Int
  <1>1. \A a \in Afters \cup {NoHeader} : a \in Int
    BY HttpRetryAssumption DEF NoHeader
  <1>2. \A r \in Response : r.after \in Afters \cup {NoHeader}
    BY DEF Response
  <1> QED
    BY <1>1, <1>2, Zenon

(* The delay as a function of the number in the header. *)
DelayFor(after) == IF RetryAfter(after) > 0 THEN RetryAfter(after) ELSE RetryDelay

(* A pause is at most an hour, unless the policy itself is longer. *)
LEMMA DelayBounded ==
  ASSUME NEW r \in Response
  PROVE  /\ ComputedDelay(r) \in 0..Hour \/ ComputedDelay(r) = RetryDelay
         /\ ComputedDelay(r) \in Nat
         /\ r.after > 0 => ComputedDelay(r) >= 1000 * r.after \/ ComputedDelay(r) >= Hour
  <1>1. \A a \in Int :
          /\ DelayFor(a) \in 0..Hour \/ DelayFor(a) = RetryDelay
          /\ DelayFor(a) \in Nat
          /\ a > 0 => DelayFor(a) >= 1000 * a \/ DelayFor(a) >= Hour
    <2> SUFFICES ASSUME NEW a \in Int
                 PROVE  /\ DelayFor(a) \in 0..Hour \/ DelayFor(a) = RetryDelay
                        /\ DelayFor(a) \in Nat
                        /\ a > 0 => DelayFor(a) >= 1000 * a \/ DelayFor(a) >= Hour
      OBVIOUS
    <2>1. RetryDelay \in Nat
      BY HttpRetryAssumption
    <2>2. CASE a <= 0
      BY <2>1, <2>2, SMT DEF DelayFor, RetryAfter
    <2>3. CASE a > 0
      <3>1. RetryAfter(a) = (IF 1000 * a > Hour THEN Hour ELSE 1000 * a)
        BY <2>3, SMT DEF RetryAfter
      <3>2. RetryAfter(a) \in Nat /\ RetryAfter(a) > 0 /\ RetryAfter(a) <= Hour
        BY <2>3, <3>1, SMT DEF Hour
      <3>3. DelayFor(a) = RetryAfter(a)
        BY <3>2 DEF DelayFor
      <3> QED
        BY <2>3, <3>1, <3>2, <3>3, HourIsNat, SMT
    <2> QED
      BY <2>2, <2>3, SMT
  <1>2. ComputedDelay(r) = DelayFor(r.after)
    BY DEF ComputedDelay, DelayFor
  <1> QED
    BY <1>1, <1>2, AfterIsInt, Zenon

(* The invariant holds before the first request. *)
LEMMA InitIInv == Init => IInv
  <1> SUFFICES ASSUME Init PROVE IInv
    OBVIOUS
  <1>1. TypeOK
    <2>1. attempt \in 0..(MaxAttempts - 1)
      BY PolicyFacts DEF Init
    <2>2. redirects \in 0..MaxRedirects
      BY PolicyFacts DEF Init
    <2>3. delay \in 0..Hour
      BY HourIsNat DEF Init
    <2>4. last \in Response \cup {<<>>}
      BY Zenon DEF Init
    <2>5. clock \in Nat /\ requests \in 0..Cap /\ failures \in 0..Cap
      BY PolicyFacts DEF Init, Cap
    <2>6. ok \in BOOLEAN
      BY DEF Init
    <2> QED
      BY <2>1, <2>2, <2>3, <2>4, <2>5, <2>6, Zenon DEF Init, TypeOK
  <1>2. CountInv /\ LastInv /\ WaitInv
    BY DEF Init, CountInv, LastInv, WaitInv
  <1>3. OutcomeIsExplained /\ GivesUpOnlyWhenExhausted
    BY DEF Init, OutcomeIsExplained, GivesUpOnlyWhenExhausted
  <1> QED
    BY <1>1, <1>2, <1>3 DEF IInv

(* The steps that are not requests. *)
LEMMA QuietStep ==
  ASSUME IInv, Start \/ NoMessage \/ Pause
  PROVE  IInv'
  <1> USE PolicyFacts, HourIsNat DEF IInv, TypeOK, Cap, history
  <1>1. CASE Start
    <2>1. TypeOK'
      BY <1>1 DEF Start, Fail
    <2>2. CountInv'
      BY <1>1 DEF Start, Fail, CountInv
    <2>3. LastInv' /\ WaitInv'
      BY <1>1 DEF Start, Fail, CountInv, LastInv, WaitInv
    <2>4. OutcomeIsExplained' /\ GivesUpOnlyWhenExhausted'
      BY <1>1 DEF Start, Fail, LastInv, OutcomeIsExplained, GivesUpOnlyWhenExhausted
    <2> QED
      BY <2>1, <2>2, <2>3, <2>4
  <1>2. CASE NoMessage
    <2>1. TypeOK'
      BY <1>2 DEF NoMessage, Fail
    <2>2. CountInv'
      BY <1>2 DEF NoMessage, Fail, CountInv
    <2>3. LastInv' /\ WaitInv'
      BY <1>2 DEF NoMessage, Fail, CountInv, LastInv, WaitInv
    <2>4. OutcomeIsExplained' /\ GivesUpOnlyWhenExhausted'
      BY <1>2 DEF NoMessage, Fail, LastInv, OutcomeIsExplained, GivesUpOnlyWhenExhausted
    <2> QED
      BY <2>1, <2>2, <2>3, <2>4
  <1>3. CASE Pause
    <2>1. last \in Response /\ delay \in Nat
      BY <1>3, DelayBounded DEF Pause, CountInv, LastInv
    <2>2. TypeOK' /\ CountInv' /\ LastInv'
      BY <1>3, <2>1 DEF Pause, CountInv, LastInv
    <2>3. WaitInv'
      BY <1>3, <2>1, DelayBounded DEF Pause, WaitInv, ComputedDelay
    <2> QED
      BY <1>3, <2>2, <2>3 DEF Pause, OutcomeIsExplained, GivesUpOnlyWhenExhausted
  <1> QED
    BY <1>1, <1>2, <1>3

(* The types after a request, from what was counted. *)
LEMMA TypeAfterSend ==
  ASSUME TypeOK, NEW r \in Response,
         requests' = attempt + redirects + 1, failures' \in {attempt, attempt + 1},
         last' = r, clock' = 0,
         pc' \in {"send", "pause", "done"}, ok' \in BOOLEAN, err' \in {"none", "empty", "status"},
         attempt' = attempt, redirects' \in 0..MaxRedirects,
         delay' \in 0..Hour \/ delay' = RetryDelay
  PROVE  TypeOK'
  <1>1. attempt' \in 0..(MaxAttempts - 1)
    BY DEF TypeOK
  <1>2. requests' \in 0..Cap /\ failures' \in 0..Cap
    BY PolicyFacts DEF TypeOK, Cap
  <1>3. clock' \in Nat
    OBVIOUS
  <1>4. pc' \in {"start", "send", "pause", "done"} /\ err' \in {"none", "session", "message", "empty", "status"}
    OBVIOUS
  <1>5. last' \in Response \cup {<<>>}
    BY Zenon
  <1> QED
    BY <1>1, <1>2, <1>3, <1>4, <1>5, Zenon DEF TypeOK

(* A request, whatever its response. *)
LEMMA SendStep ==
  ASSUME IInv, Send
  PROVE  IInv'
  <1> USE PolicyFacts, HourIsNat DEF IInv, TypeOK, Cap
  <1>1. PICK r \in Response : Note(r) /\ (Follow(r) \/ Accept(r) \/ Retry(r) \/ GiveUp(r))
    BY DEF Send
  <1>2. /\ pc = "send" /\ requests = attempt + redirects /\ failures = attempt
        /\ err = "none" /\ ok = FALSE
    BY DEF Send, CountInv, LastInv
  <1>3. /\ last' = r /\ clock' = 0
        /\ requests' = attempt + redirects + 1
        /\ failures' = IF ~Followed(r) /\ WorthARetry(r) THEN attempt + 1 ELSE attempt
        /\ failures' \in {attempt, attempt + 1}
    BY <1>1, <1>2 DEF Note, CountUp
  <1>4. CASE Follow(r)
    <2>1. Followed(r) /\ redirects < MaxRedirects /\ IsRedirection(r.status)
      BY <1>4 DEF Follow, Followed
    <2>2. /\ pc' = "send" /\ ok' = FALSE /\ err' = "none"
          /\ attempt' = attempt /\ redirects' = redirects + 1 /\ delay' = delay
      BY <1>2, <1>4 DEF Follow
    <2>3. TypeOK'
      <3>1. redirects' \in 0..MaxRedirects
        BY <2>1, <2>2
      <3>2. delay' \in 0..Hour \/ delay' = RetryDelay
        BY <2>2, Zenon
      <3> QED
        BY <1>3, <2>2, <3>1, <3>2, TypeAfterSend
    <2>4. CountInv' /\ LastInv'
      BY <1>2, <1>3, <2>1, <2>2 DEF CountInv, LastInv
    <2>5. WaitInv'
      BY <1>3, <2>1, <2>2 DEF WaitInv
    <2>6. OutcomeIsExplained' /\ GivesUpOnlyWhenExhausted'
      BY <2>2 DEF OutcomeIsExplained, GivesUpOnlyWhenExhausted
    <2> QED
      BY <2>3, <2>4, <2>5, <2>6
  <1>5. CASE Accept(r)
    <2>1. IsSuccessful(r.status) /\ r.body = "some"
      BY <1>5 DEF Accept, Accepted
    <2>2. /\ pc' = "done" /\ ok' = TRUE /\ err' = "none"
          /\ attempt' = attempt /\ redirects' = redirects /\ delay' = delay
      BY <1>2, <1>5 DEF Accept
    <2>3. TypeOK'
      <3>1. delay' \in 0..Hour \/ delay' = RetryDelay
        BY <2>2, Zenon
      <3>2. err' \in {"none", "empty", "status"}
        BY <2>2
      <3> QED
        BY <1>3, <2>2, <3>1, <3>2, TypeAfterSend
    <2>4. CountInv' /\ LastInv' /\ WaitInv'
      BY <1>2, <1>3, <2>2 DEF CountInv, LastInv, WaitInv
    <2>5. OutcomeIsExplained' /\ GivesUpOnlyWhenExhausted'
      BY <1>2, <1>3, <2>1, <2>2 DEF OutcomeIsExplained, GivesUpOnlyWhenExhausted
    <2> QED
      BY <2>3, <2>4, <2>5
  <1>6. CASE Retry(r)
    <2>1. ~Followed(r) /\ WorthARetry(r) /\ attempt + 1 < MaxAttempts
      BY <1>6 DEF Retry, MayRetry
    <2>2. TypeOK'
      <3>1. /\ pc' = "pause" /\ ok' = FALSE /\ err' = "none"
            /\ attempt' = attempt /\ redirects' = redirects
        BY <1>2, <1>6 DEF Retry
      <3>2. delay' \in 0..Hour \/ delay' = RetryDelay
        BY <1>6, DelayBounded, Zenon DEF Retry
      <3> QED
        BY <1>2, <1>3, <3>1, <3>2, TypeAfterSend
    <2>3. CountInv' /\ LastInv'
      BY <1>2, <1>3, <1>6, <2>1 DEF Retry, CountInv, LastInv
    <2>4. delay' = ComputedDelay(r) /\ pc' = "pause"
      BY <1>6 DEF Retry
    <2>5. WaitInv'
      BY <1>3, <2>4 DEF WaitInv, ComputedDelay
    <2>6. OutcomeIsExplained' /\ GivesUpOnlyWhenExhausted'
      BY <2>4 DEF OutcomeIsExplained, GivesUpOnlyWhenExhausted
    <2> QED
      BY <2>2, <2>3, <2>5, <2>6
  <1>7. CASE GiveUp(r)
    <2>1. ~Followed(r) /\ (WorthARetry(r) => attempt + 1 = MaxAttempts)
      BY <1>7 DEF GiveUp, MayRetry
    <2>2. /\ pc' = "done" /\ ok' = FALSE
          /\ err' = IF IsSuccessful(r.status) THEN "empty" ELSE "status"
          /\ attempt' = attempt /\ redirects' = redirects /\ delay' = delay
      BY <1>7 DEF GiveUp, Fail
    <2>3. TypeOK'
      <3>1. delay' \in 0..Hour \/ delay' = RetryDelay
        BY <2>2, Zenon
      <3>2. err' \in {"none", "empty", "status"}
        BY <2>2
      <3> QED
        BY <1>3, <2>2, <3>1, <3>2, TypeAfterSend
    <2>4. CountInv' /\ LastInv' /\ WaitInv'
      BY <1>2, <1>3, <2>2 DEF CountInv, LastInv, WaitInv
    <2>5. OutcomeIsExplained'
      BY <2>2 DEF OutcomeIsExplained
    <2>6. GivesUpOnlyWhenExhausted'
      BY <1>3, <2>1 DEF GivesUpOnlyWhenExhausted
    <2> QED
      BY <2>3, <2>4, <2>5, <2>6
  <1> QED
    BY <1>1, <1>4, <1>5, <1>6, <1>7

(* The inductive invariant holds in every reachable state. *)
THEOREM Invariance == Spec => []IInv
  <1>1. IInv /\ UNCHANGED vars => IInv'
    BY DEF vars, history, IInv, TypeOK, CountInv, LastInv, WaitInv, ComputedDelay,
           OutcomeIsExplained, GivesUpOnlyWhenExhausted
  <1>2. IInv /\ [Next]_vars => IInv'
    BY <1>1, QuietStep, SendStep DEF Next
  <1> QED
    BY InitIInv, <1>2, PTL DEF Spec

-----------------------------------------------------------------------------

(* Every variable keeps its type; the loop counter stays below the limit. *)
THEOREM TypeCorrect == Spec => []TypeOK
  <1>1. IInv => TypeOK
    BY DEF IInv
  <1> QED
    BY Invariance, <1>1, PTL

(* No server is ever sent more requests than attempts and redirections.     *)
THEOREM BoundCorrect == Spec => []RequestsBounded
  <1>1. IInv => RequestsBounded
    BY HttpRetryAssumption DEF IInv, TypeOK, CountInv, RequestsBounded
  <1> QED
    BY Invariance, <1>1, PTL

(* A failure has a message, a success a body. *)
THEOREM OutcomeCorrect == Spec => []OutcomeIsExplained
  <1>1. IInv => OutcomeIsExplained
    BY DEF IInv
  <1> QED
    BY Invariance, <1>1, PTL

(* A failure that may pass ends the call only when all attempts are used. *)
THEOREM GiveUpCorrect == Spec => []GivesUpOnlyWhenExhausted
  <1>1. IInv => GivesUpOnlyWhenExhausted
    BY DEF IInv
  <1> QED
    BY Invariance, <1>1, PTL

(* A busy server is left alone for as long as it asked, up to an hour. *)
THEOREM WaitCorrect == Spec => ServerIsGivenTime
  <1>1. ASSUME IInv, [Next]_vars, requests > 0, requests' # requests, ~IsRedirection(last.status), last.after > 0
        PROVE  clock >= 1000 * last.after \/ clock >= Hour
    <2>1. pc = "send"
      BY <1>1 DEF Next, vars, history, Start, NoMessage, Send, Pause
    <2>2. last \in Response /\ clock >= ComputedDelay(last)
      BY <1>1, <2>1 DEF IInv, LastInv, WaitInv
    <2>3. clock \in Int /\ Hour \in Int
      BY <1>1, HourIsNat DEF IInv, TypeOK
    <2>4. last.after \in Int
      BY <2>2, AfterIsInt, Zenon
    <2>5. ComputedDelay(last) \in Int
      BY <2>2, DelayBounded
    <2> DEFINE asked == 1000 * last.after
    <2>6. asked \in Int
      BY <2>4, SMT
    <2>7. ComputedDelay(last) >= asked \/ ComputedDelay(last) >= Hour
      BY <1>1, <2>2, DelayBounded
    <2> SUFFICES clock >= asked \/ clock >= Hour
      OBVIOUS
    <2> HIDE DEF asked
    <2>8. \A c, d, h, n \in Int : c >= d /\ (d >= n \/ d >= h) => c >= n \/ c >= h
      BY SMT
    <2> QED
      BY <2>2, <2>3, <2>5, <2>6, <2>7, <2>8, Zenon
  <1> QED
    BY <1>1, Invariance, PTL DEF Spec, ServerIsGivenTime
(* What is left of a call: two steps for every attempt, one for every redirection, and the *)
(* rest of this one.                                                                       *)
PlaceRank == CASE pc = "start" -> 2 [] pc = "send" -> 1 [] OTHER -> 0
StepsLeft == 2 * (MaxAttempts - attempt) + (MaxRedirects - redirects) + PlaceRank

(* A call cannot go on forever, whatever the servers answer: every step leaves fewer, of   *)
(* at most 2 * MaxAttempts + MaxRedirects + 2.  So a call whose steps come returns.        *)
THEOREM CallRunsOut ==
  Spec => [](StepsLeft \in 0..(2 * MaxAttempts + MaxRedirects + 2)) /\ [][StepsLeft' < StepsLeft]_vars
  <1>1. PlaceRank \in 0..2
    BY DEF PlaceRank
  <1>2. IInv => StepsLeft \in 0..(2 * MaxAttempts + MaxRedirects + 2)
    BY <1>1, PolicyFacts DEF IInv, TypeOK, StepsLeft
  <1>3. ASSUME IInv, Next PROVE StepsLeft' < StepsLeft
    <2>1. attempt \in Nat /\ redirects \in Nat /\ PlaceRank' \in 0..2 /\ PlaceRank \in 0..2
      BY <1>1, <1>3, PolicyFacts DEF IInv, TypeOK, PlaceRank
    <2>2. CASE Start \/ NoMessage \/ (Send /\ pc' \in {"pause", "done"})
      <3>1. attempt' = attempt /\ redirects' = redirects /\ PlaceRank' < PlaceRank
        BY <2>2 DEF Start, NoMessage, Send, Fail, Follow, Accept, Retry, GiveUp, PlaceRank
      <3> DEFINE rest == 2 * (MaxAttempts - attempt) + (MaxRedirects - redirects)
      <3>2. rest \in Int
        BY <2>1, PolicyFacts
      <3>3. StepsLeft = rest + PlaceRank /\ StepsLeft' = rest + PlaceRank'
        BY <3>1 DEF StepsLeft
      <3>4. \A m, n \in Nat, k \in Int : m < n => k + m < k + n
        OBVIOUS
      <3>5. PlaceRank \in Nat /\ PlaceRank' \in Nat /\ PlaceRank' < PlaceRank
        BY <2>1, <3>1
      <3> HIDE DEF rest
      <3>6. rest + PlaceRank' < rest + PlaceRank
        BY <3>2, <3>4, <3>5
      <3> QED
        BY <3>3, <3>6
    <2>3. CASE Send /\ ~(pc' \in {"pause", "done"})
      <3>1. PICK r \in Response : Follow(r)
        BY <2>3 DEF Send, Accept, Retry, GiveUp, Fail
      <3>2. attempt' = attempt /\ redirects' = redirects + 1 /\ PlaceRank' = PlaceRank
        BY <3>1 DEF Follow, PlaceRank
      <3> QED
        BY <2>1, <3>2, PolicyFacts DEF StepsLeft
    <2>4. CASE Pause
      <3>1. attempt' = attempt + 1 /\ redirects' = redirects /\ PlaceRank' = PlaceRank + 1
        BY <2>4 DEF Pause, PlaceRank
      <3> QED
        BY <2>1, <3>1, PolicyFacts DEF StepsLeft
    <2> QED
      BY <1>3, <2>2, <2>3, <2>4 DEF Next
  <1>4. IInv /\ [Next]_vars => [StepsLeft' < StepsLeft]_vars
    BY <1>3
  <1> QED
    BY <1>2, <1>4, Invariance, PTL DEF Spec

=============================================================================
