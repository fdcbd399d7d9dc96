------------------------ MODULE MetadataFetchProofs ------------------------
(***************************************************************************)
(* The safety of MetadataFetch for any number of servers, releases, titles *)
(* and spellings.                                                          *)
(*                                                                         *)
(* The inductive invariant IInv says which threads the caller has joined   *)
(* and that it has their answers, that completed is the number of threads  *)
(* and titles that were counted, and which releases were found.            *)
(***************************************************************************)
EXTENDS MetadataFetch, FiniteSetTheorems, SequenceTheorems, WellFoundedInduction, TLAPS

(* A server's answer is its own. *)
AnswerInv == \A s \in Server : \A i \in DOMAIN answer[s].entries : answer[s].entries[i].from = s

(* The futures that were got, in the order of the servers. *)
JoinInv ==
  /\ pc = "launch" => joined = 0
  /\ pc = "join" => joined < S
  /\ pc \in {"plan", "titles", "search", "merge", "returned"} => joined = S
  /\ Len(gathered) = joined
  /\ \A s \in 1..joined : worker[s] = "done" /\ gathered[s] = answer[s]

(* Titles are searched only if they were due. *)
PlanInv ==
  /\ pc \in {"launch", "join", "plan"} => titles = 0 /\ found = <<>> /\ ~titleError
  /\ titles > 0 => ShouldRecrawl
  /\ pc = "titles" => title < titles
  /\ pc = "search" => title >= 1
  /\ pc \in {"merge", "returned"} => title = titles
  /\ found # <<>> => titles > 0

(* What was merged. *)
MergeInv ==
  /\ pc \notin {"merge", "returned"} => merged = 0 /\ list = <<>>
  /\ pc = "returned" => merged = S
  /\ \A i \in DOMAIN list : list[i].from \in 1..merged \/ (list[i].from = Search /\ found # <<>> /\ FirstMusicBrainz <= merged)
  /\ \A i, j \in DOMAIN list : i < j => Rank(list[i]) <= Rank(list[j])
  /\ \A s \in 1..merged : IsPieceOf(list, s, answer[s].entries)
  /\ found # <<>> /\ FirstMusicBrainz <= merged => IsPieceOf(list, Search, found)

(* The error of the servers merged, and of the title search at last. *)
ErrorInv ==
  /\ error \in 1..merged => answer[error].failed
  /\ \A s \in 1..merged : answer[s].failed => error \in 1..s
  /\ error \in 0..merged \/ (error = Search /\ pc = "returned" /\ titleError)

(* The threads and the titles that were counted. *)
Counted == {s \in Server : worker[s] \in {"counted", "done"}}
Searched == IF pc = "search" THEN title - 1 ELSE title
CountInv ==
  /\ completed = Cardinality(Counted) + Searched
  /\ pc \in {"launch", "join", "plan"} => title = 0
  /\ \A s \in Server : report[s] <= Cardinality(Counted)

(* What the observer was shown. *)
ShownInv ==
  /\ shown.completed <= completed
  /\ shown.total \in {S, S + titles}
  /\ shown.total = S => shown.completed <= S
  /\ pc = "returned" => shown = [completed |-> S + titles, total |-> S + titles]

(* The releases found. *)
FoundInv ==
  \A i \in DOMAIN found :
    /\ found[i].from = Search
    /\ found[i].key # NoKey =>
         /\ \A j \in DOMAIN found : found[j].key = found[i].key => j = i
         /\ \A e \in ToSet(gathered[FirstMusicBrainz].entries) : e.key # found[i].key

IInv == TypeOK /\ AnswerInv /\ JoinInv /\ PlanInv /\ MergeInv /\ ErrorInv /\ CountInv /\ ShownInv /\ FoundInv

-----------------------------------------------------------------------------
(* Numbers, answers and sequences. *)

(* The smallest of some numbers is one of them. *)
LEMMA MinIsLeast ==
  ASSUME NEW N \in SUBSET Nat, N # {}
  PROVE  Min(N) \in N /\ \A y \in N : Min(N) <= y
  <1> DEFINE Less == {ss \in Nat \X Nat : ss[1] < ss[2]}
  <1>1. IsWellFoundedOn(Less, Nat)
    BY NatLessThanWellFounded, Zenon DEF OpToRel
  <1>2. PICK x \in N : \A y \in N : ~(<<y, x>> \in Less)
    BY <1>1, WFMin, Zenon
  <1>3. ASSUME NEW y \in N PROVE x <= y
    <2>1. x \in Nat /\ y \in Nat
      OBVIOUS
    <2>2. y < x => <<y, x>> \in Less
      BY <2>1
    <2>3. ~(y < x)
      BY <1>2, <2>2, Zenon
    <2> QED
      BY <2>1, <2>3
  <1> QED
    BY <1>3 DEF Min

(* The elements of two sequences, and where they are. *)
LEMMA ConcatParts ==
  ASSUME NEW T, NEW a \in Seq(T), NEW b \in Seq(T)
  PROVE  /\ a \o b \in Seq(T) /\ Len(a \o b) = Len(a) + Len(b)
         /\ Len(a) \in Nat /\ Len(b) \in Nat
         /\ \A i \in 1..Len(a) : (a \o b)[i] = a[i]
         /\ \A i \in 1..Len(b) : (a \o b)[Len(a) + i] = b[i]
         /\ \A i \in (Len(a) + 1)..(Len(a) + Len(b)) : (a \o b)[i] = b[i - Len(a)] /\ i - Len(a) \in 1..Len(b)
  OBVIOUS

LEMMA ConcatElements ==
  ASSUME NEW T, NEW a \in Seq(T), NEW b \in Seq(T)
  PROVE  ToSet(a \o b) = ToSet(a) \cup ToSet(b)
  <1> DEFINE c == a \o b
  <1>1. /\ DOMAIN a = 1..Len(a) /\ DOMAIN b = 1..Len(b) /\ DOMAIN c = 1..(Len(a) + Len(b))
        /\ Len(a) \in Nat /\ Len(b) \in Nat
    OBVIOUS
  <1>2. /\ \A i \in 1..Len(a) : c[i] = a[i]
        /\ \A i \in 1..Len(b) : c[Len(a) + i] = b[i]
        /\ \A i \in (Len(a) + 1)..(Len(a) + Len(b)) : c[i] = b[i - Len(a)] /\ i - Len(a) \in 1..Len(b)
    BY ConcatParts
  <1> HIDE DEF c
  <1>3. ASSUME NEW x \in ToSet(c) PROVE x \in ToSet(a) \cup ToSet(b)
    <2>1. PICK i \in 1..(Len(a) + Len(b)) : x = c[i]
      BY <1>1, <1>3 DEF ToSet
    <2>2. CASE i \in 1..Len(a)
      BY <1>1, <1>2, <2>1, <2>2 DEF ToSet
    <2>3. CASE i \in (Len(a) + 1)..(Len(a) + Len(b))
      BY <1>1, <1>2, <2>1, <2>3 DEF ToSet
    <2> QED
      BY <1>1, <2>1, <2>2, <2>3
  <1>4. ASSUME NEW x \in ToSet(a) PROVE x \in ToSet(c)
    <2>1. PICK i \in 1..Len(a) : x = a[i]
      BY <1>1, <1>4 DEF ToSet
    <2>2. i \in DOMAIN c /\ c[i] = x
      BY <1>1, <1>2, <2>1
    <2> QED
      BY <2>2 DEF ToSet
  <1>5. ASSUME NEW x \in ToSet(b) PROVE x \in ToSet(c)
    <2>1. PICK i \in 1..Len(b) : x = b[i]
      BY <1>1, <1>5 DEF ToSet
    <2>2. Len(a) + i \in DOMAIN c /\ c[Len(a) + i] = x
      BY <1>1, <1>2, <2>1
    <2> QED
      BY <2>2 DEF ToSet
  <1> QED
    BY <1>3, <1>4, <1>5 DEF c

(* An answer is a list of entries and whether the fetch failed; a failed fetch has none. *)
LEMMA AnswerType ==
  ASSUME NEW s \in Server, NEW a \in MusicBrainzAnswers(s) \cup CddbAnswers(s)
  PROVE  a \in Result /\ \A i \in DOMAIN a.entries : a.entries[i].from = s
  <1>2. CASE a = Failed
    BY <1>2 DEF Failed, Result
  <1>3. CASE a = Answer(<<>>)
    BY <1>3 DEF Answer, Result
  <1>4. CASE \E k \in Keys \cup {NoKey} : a = Answer(<<[from |-> s, key |-> k]>>)
    <2>1. PICK k \in Keys \cup {NoKey} : a = Answer(<<[from |-> s, key |-> k]>>)
      BY <1>4
    <2> DEFINE e == [from |-> s, key |-> k]
    <2>2. e \in Entry /\ e.from = s
      BY DEF Entry
    <2>3. a = [entries |-> <<e>>, failed |-> FALSE]
      BY <2>1 DEF Answer
    <2> HIDE DEF e
    <2>4. <<e>> \in Seq(Entry) /\ \A i \in DOMAIN <<e>> : <<e>>[i].from = s
      BY <2>2
    <2> QED
      BY <2>3, <2>4 DEF Result
  <1>5. CASE a \in MusicBrainzAnswers(s)
    <2>1. a \in {Answer(<<[from |-> s, key |-> k]>>) : k \in Keys \cup {NoKey}}
            => \E k \in Keys \cup {NoKey} : a = Answer(<<[from |-> s, key |-> k]>>)
      OBVIOUS
    <2> QED
      BY <1>2, <1>3, <1>4, <1>5, <2>1, Zenon DEF MusicBrainzAnswers
  <1>6. CASE a \in CddbAnswers(s)
    <2>1. NoKey \in Keys \cup {NoKey}
      OBVIOUS
    <2> QED
      BY <1>2, <1>3, <1>4, <1>6, <2>1, Zenon DEF CddbAnswers
  <1> QED
    BY <1>5, <1>6

(* What is counted is part of the servers. *)
LEMMA CountedType ==
  /\ IsFiniteSet(Server) /\ Cardinality(Server) = S
  /\ IsFiniteSet(Counted) /\ Cardinality(Counted) \in 0..S
  /\ Counted = Server => Cardinality(Counted) = S
  <1>1. S \in Nat
    BY MetadataFetchAssumption
  <1>2. IsFiniteSet(Server) /\ Cardinality(Server) = S
    BY <1>1, FS_Interval DEF Server
  <1>3. Counted \subseteq Server
    BY DEF Counted
  <1>4. IsFiniteSet(Counted) /\ Cardinality(Counted) <= S /\ Cardinality(Counted) \in Nat
    BY <1>2, <1>3, FS_Subset, FS_CardinalityType
  <1> QED
    BY <1>1, <1>2, <1>4

-----------------------------------------------------------------------------
(* The types.  What a step of a thread or of the caller does to them. *)

LEMMA InitType == Init => TypeOK
  <1> SUFFICES ASSUME Init PROVE TypeOK
    OBVIOUS
  <1>1. S \in Nat \ {0} /\ MaxTitles \in Nat /\ MaxVariants \in Nat
    BY MetadataFetchAssumption
  <1>3. answer \in [Server -> Result]
    BY DEF Init, Answer, Result
  <1>4. gathered \in Seq(Result)
    BY DEF Init
  <1>5. completed = 0 /\ shown \in [completed: 0..(S + MaxTitles), total: 0..(S + MaxTitles)]
    BY <1>1 DEF Init
  <1>6. report \in [Server -> 0..S] /\ error \in 0..Search /\ title \in 0..titles /\ titles \in 0..MaxTitles /\ merged \in 0..S
        /\ spellings \in 0..MaxVariants /\ completed \in 0..(S + MaxTitles) /\ joined \in 0..S
    BY <1>1 DEF Init, Search
  <1>7. found \in Seq(Entry) /\ list \in Seq(Entry)
    BY DEF Init
  <1> QED
    BY <1>3, <1>4, <1>5, <1>6, <1>7 DEF Init, TypeOK

(* What the step of a thread leaves alone. *)
LEMMA WorkerStep ==
  ASSUME IInv, NEW s \in Server, Worker(s)
  PROVE  /\ UNCHANGED <<config, pc, joined, gathered, search, output>>
         /\ worker' = [worker EXCEPT ![s] = worker'[s]] /\ worker[s] # "done"
         /\ worker'[s] \in {"starting", "fetching", "fetched", "counted", "done"}
  BY DEF Worker, Start, Report, Fetch, Count, IInv, TypeOK, config, search, output

(* The next count of threads, if it is not that of a thread which counts itself. *)
LEMMA SameCount ==
  ASSUME IInv, NEW s \in Server, Start(s) \/ Report(s, "starting", "fetching", S) \/ Fetch(s) \/ Report(s, "counted", "done", S)
  PROVE  Counted' = Counted
  BY DEF Start, Report, Fetch, Counted, IInv, TypeOK

(* A thread that counts itself was not counted before. *)
LEMMA OneMore ==
  ASSUME IInv, NEW s \in Server, Count(s)
  PROVE  /\ Cardinality(Counted') = Cardinality(Counted) + 1
         /\ Cardinality(Counted') \in 0..S
         /\ report' = [report EXCEPT ![s] = completed'] /\ completed' = Cardinality(Counted')
  <1>1. Counted' = Counted \cup {s} /\ s \notin Counted
    BY DEF Count, Counted, IInv, TypeOK
  <1>2. IsFiniteSet(Counted) /\ Cardinality(Counted) \in 0..S
    BY CountedType
  <1>3. Cardinality(Counted') = Cardinality(Counted) + 1
    BY <1>1, <1>2, FS_AddElement
  <1>4. Counted' \subseteq Server
    BY <1>1 DEF Counted
  <1>5. Cardinality(Counted') \in 0..S
    <2>1. IsFiniteSet(Server) /\ Cardinality(Server) = S
      BY CountedType
    <2>2. Cardinality(Counted') <= S
      BY <1>4, <2>1, FS_Subset
    <2> QED
      BY <1>2, <1>3, <2>2, MetadataFetchAssumption
  <1>6. pc \in {"launch", "join"}
    <2>1. \E t \in Server : worker[t] # "done"
      BY DEF Count, IInv, TypeOK
    <2>2. pc \in {"plan", "titles", "search", "merge", "returned"} => \A t \in Server : worker[t] = "done"
      BY DEF IInv, JoinInv, Server
    <2> QED
      BY <2>1, <2>2 DEF IInv, TypeOK
  <1>7. completed = Cardinality(Counted)
    BY <1>2, <1>6 DEF IInv, CountInv, Searched
  <1> QED
    BY <1>3, <1>5, <1>7 DEF Count

(* A thread keeps the types. *)
LEMMA WorkerType == ASSUME IInv, NEW s \in Server, Worker(s) PROVE TypeOK'
  <1> USE MetadataFetchAssumption
  <1>1. UNCHANGED <<config, pc, joined, gathered, search, output>>
    BY WorkerStep
  <1>2. TypeOK
    BY DEF IInv
  <1>3. completed' \in 0..(S + MaxTitles) /\ report' \in [Server -> 0..S]
    <2>1. CASE Start(s)
      <3>1. completed \in 0..S
        <4>1. pc \in {"launch", "join"}
          <5>1. pc \in {"plan", "titles", "search", "merge", "returned"} => \A t \in Server : worker[t] = "done"
            BY DEF IInv, JoinInv, Server
          <5>2. worker[s] # "done"
            BY <2>1 DEF Start
          <5> QED
            BY <1>2, <5>1, <5>2 DEF TypeOK
        <4> QED
          BY <4>1, CountedType DEF IInv, CountInv, Searched
      <3> QED
        BY <1>2, <2>1, <3>1 DEF TypeOK, Start
    <2>2. CASE Count(s)
      BY <1>2, <2>2, OneMore DEF TypeOK
    <2>3. CASE ~Start(s) /\ ~Count(s)
      BY <1>2, <2>3 DEF TypeOK, Worker, Fetch, Report
    <2> QED
      BY <2>1, <2>2, <2>3
  <1>4. answer' \in [Server -> Result]
    <2>1. CASE Fetch(s)
      <3>1. PICK a \in MusicBrainzAnswers(s) \cup CddbAnswers(s) : answer' = [answer EXCEPT ![s] = a]
        BY <2>1 DEF Fetch
      <3> QED
        BY <1>2, <3>1, AnswerType DEF TypeOK
    <2>2. CASE ~Fetch(s)
      BY <1>2, <2>2 DEF TypeOK, Worker, Start, Report, Count
    <2> QED
      BY <2>1, <2>2
  <1>5. shown' \in [completed: 0..(S + MaxTitles), total: 0..(S + MaxTitles)]
    <2>1. CASE shown' = shown
      BY <1>2, <2>1 DEF TypeOK
    <2>2. CASE shown' = [completed |-> report[s], total |-> S]
      <3>1. report[s] \in 0..S
        BY <1>2 DEF TypeOK
      <3> QED
        BY <2>2, <3>1
    <2> QED
      BY <2>1, <2>2 DEF Worker, Start, Report, Fetch, Count
  <1>6. worker' \in [Server -> {"new", "launched", "starting", "fetching", "fetched", "counted", "done"}]
    BY <1>2, WorkerStep DEF TypeOK
  <1>7. UNCHANGED <<musicbrainz, recrawl, pc, joined, gathered, titles, title, spellings, found, titleError, merged, list, error>>
    BY <1>1 DEF config, search, output
  <1> HIDE MetadataFetchAssumption
  <1> QED
    BY <1>2, <1>3, <1>4, <1>5, <1>6, <1>7 DEF TypeOK

(* What has been found so far, and what one more answer adds. *)
LEMMA FindsType ==
  ASSUME TypeOK, NEW keys \in Finds
  PROVE  /\ keys \in Seq(Keys \cup {NoKey})
         /\ [i \in DOMAIN keys |-> [from |-> Search, key |-> keys[i]]] \in Seq(Entry)
         /\ \A i \in DOMAIN keys : keys[i] \notin SeenKeys
         /\ \A i, j \in DOMAIN keys : keys[i] = keys[j] /\ keys[i] # NoKey => i = j
  <1>1. PICK n \in 0..MaxFinds : keys \in [1..n -> (Keys \cup {NoKey}) \ SeenKeys]
    BY DEF Finds
  <1>2. n \in Nat /\ DOMAIN keys = 1..n
    BY <1>1, MetadataFetchAssumption
  <1>3. \A i \in DOMAIN keys : keys[i] \in Keys \cup {NoKey} /\ keys[i] \notin SeenKeys
    BY <1>1
  <1>4. keys \in Seq(Keys \cup {NoKey})
    BY <1>1, <1>2, <1>3
  <1>5. \A i \in DOMAIN keys : [from |-> Search, key |-> keys[i]] \in Entry
    BY <1>3 DEF Entry
  <1>6. [i \in DOMAIN keys |-> [from |-> Search, key |-> keys[i]]] \in Seq(Entry)
    BY <1>2, <1>5
  <1> QED
    BY <1>3, <1>4, <1>6 DEF Finds

(* What a server is listed with. *)
LEMMA ListedType ==
  ASSUME IInv, pc \in {"plan", "titles", "search", "merge", "returned"}, NEW s \in Server
  PROVE  /\ gathered[s] = answer[s] /\ worker[s] = "done"
         /\ gathered[s].entries \in Seq(Entry) /\ Listed(s) \in Seq(Entry)
         /\ \A i \in DOMAIN gathered[s].entries : gathered[s].entries[i].from = s
  <1>1. gathered[s] = answer[s] /\ worker[s] = "done"
    BY DEF IInv, JoinInv, Server
  <1>2. answer[s] \in Result /\ found \in Seq(Entry)
    BY DEF IInv, TypeOK
  <1>3. answer[s].entries \in Seq(Entry) /\ \A i \in DOMAIN answer[s].entries : answer[s].entries[i].from = s
    BY <1>2 DEF IInv, AnswerInv, Result
  <1> QED
    BY <1>1, <1>2, <1>3 DEF Listed

(* The caller keeps the types. *)
LEMMA CallerType == ASSUME IInv, Caller PROVE TypeOK'
  <1>0. TypeOK /\ S \in Nat \ {0} /\ MaxTitles \in Nat /\ MaxVariants \in Nat
    BY MetadataFetchAssumption DEF IInv
  <1>1. CASE Launch
    BY <1>0, <1>1 DEF TypeOK, Launch, config, search, output
  <1>2. CASE Join
    <2>1. joined + 1 \in Server
      BY <1>0, <1>2 DEF Join, IInv, JoinInv, TypeOK, Server
    <2>2. gathered' \in Seq(Result) /\ joined' \in 0..S
      BY <1>0, <1>2, <2>1 DEF Join, TypeOK, Server
    <2> QED
      BY <1>0, <1>2, <2>2 DEF TypeOK, Join, config, search, output
  <1>3. CASE Plan
    <2>1. titles' \in 0..MaxTitles /\ title = 0
      BY <1>0, <1>3 DEF Plan, CandidateCounts, IInv, CountInv
    <2> QED
      BY <1>0, <1>3, <2>1 DEF TypeOK, Plan, config, output
  <1>4. CASE BeginTitle
    <2>1. title' \in 0..titles /\ spellings' \in 0..MaxVariants
      BY <1>0, <1>4 DEF BeginTitle, SpellingCounts, IInv, PlanInv, TypeOK
    <2>2. shown' \in [completed: 0..(S + MaxTitles), total: 0..(S + MaxTitles)]
      BY <1>0, <1>4 DEF BeginTitle, TypeOK
    <2> QED
      BY <1>0, <1>4, <2>1, <2>2 DEF TypeOK, BeginTitle, config, output
  <1>5. CASE SearchTitle
    <2>0. spellings > 0 /\ spellings' \in {0, spellings - 1} /\ titleError' \in {TRUE, titleError}
      <3>1. CASE titleError' = TRUE /\ spellings' = spellings - 1
        BY <1>5, <3>1 DEF SearchTitle
      <3>2. CASE \E keys \in Finds : spellings' = (IF keys = <<>> THEN spellings - 1 ELSE 0) /\ titleError' = titleError
        BY <1>5, <3>2 DEF SearchTitle
      <3> QED
        BY <1>5, <3>1, <3>2, Zenon DEF SearchTitle
    <2>1. spellings' \in 0..MaxVariants
      BY <1>0, <2>0 DEF TypeOK
    <2>3. titleError' \in BOOLEAN
      BY <1>0, <2>0, Zenon DEF TypeOK
    <2>2. found' \in Seq(Entry)
      <3>1. CASE found' = found
        BY <1>0, <3>1 DEF TypeOK
      <3>2. CASE \E keys \in Finds : found' = found \o [i \in DOMAIN keys |-> [from |-> Search, key |-> keys[i]]]
        BY <1>0, <3>2, FindsType DEF TypeOK
      <3> QED
        BY <1>5, <3>1, <3>2 DEF SearchTitle
    <2> QED
      BY <1>0, <1>5, <2>1, <2>2, <2>3 DEF TypeOK, SearchTitle, config, output
  <1>6. CASE EndTitle
    <2>1. completed' \in 0..(S + MaxTitles)
      BY <1>0, <1>6, CountedType DEF EndTitle, IInv, CountInv, Searched, TypeOK
    <2> QED
      BY <1>0, <1>6, <2>1 DEF TypeOK, EndTitle, config, search, output
  <1>7. CASE MergeServer
    <2>1. merged' \in Server
      BY <1>0, <1>7 DEF MergeServer, TypeOK, Server
    <2>2. list' \in Seq(Entry)
      BY <1>0, <1>7, <2>1, ListedType DEF MergeServer, TypeOK
    <2>3. error' \in 0..Search
      BY <1>0, <1>7, <2>1 DEF MergeServer, SetError, TypeOK, Server, Search
    <2> QED
      BY <1>0, <1>7, <2>1, <2>2, <2>3 DEF TypeOK, MergeServer, config, search, Server
  <1>8. CASE Return
    <2>1. error' \in 0..Search /\ shown' \in [completed: 0..(S + MaxTitles), total: 0..(S + MaxTitles)]
      BY <1>0, <1>8 DEF Return, SetError, TypeOK, Search
    <2> QED
      BY <1>0, <1>8, <2>1 DEF TypeOK, Return, config, search
  <1> QED
    BY <1>1, <1>2, <1>3, <1>4, <1>5, <1>6, <1>7, <1>8 DEF Caller

-----------------------------------------------------------------------------
(* The parts of the invariant, each kept by every step. *)

(* The threads run before the caller has joined them all. *)
LEMMA WorkerIsEarly ==
  ASSUME IInv, NEW s \in Server, worker[s] # "done"
  PROVE  pc \in {"launch", "join"} /\ s \notin 1..joined /\ merged = 0 /\ found = <<>> /\ titles = 0 /\ title = 0
  <1>1. pc \in {"plan", "titles", "search", "merge", "returned"} => \A t \in Server : worker[t] = "done"
    BY DEF IInv, JoinInv, Server
  <1>2. pc \in {"launch", "join"}
    BY <1>1 DEF IInv, TypeOK
  <1> QED
    BY <1>2 DEF IInv, JoinInv, MergeInv, PlanInv, CountInv

LEMMA AnswerStep == ASSUME IInv, Next PROVE AnswerInv'
  <1>1. CASE answer' = answer
    BY <1>1 DEF IInv, AnswerInv
  <1>2. CASE \E s \in Server : Fetch(s)
    <2>1. PICK s \in Server : Fetch(s)
      BY <1>2
    <2>2. PICK a \in MusicBrainzAnswers(s) \cup CddbAnswers(s) : answer' = [answer EXCEPT ![s] = a]
      BY <2>1 DEF Fetch
    <2>3. \A i \in DOMAIN a.entries : a.entries[i].from = s
      BY AnswerType
    <2> QED
      BY <2>2, <2>3 DEF IInv, TypeOK, AnswerInv
  <1> QED
    BY <1>1, <1>2 DEF Next, Caller, Worker, Launch, Join, Plan, BeginTitle, SearchTitle, EndTitle, MergeServer,
       Return, Start, Report, Count

LEMMA JoinStep == ASSUME IInv, Next PROVE JoinInv'
  <1>0. TypeOK /\ JoinInv /\ S \in Nat \ {0}
    BY MetadataFetchAssumption DEF IInv
  <1>1. CASE \E s \in Server : Worker(s)
    <2>1. PICK s \in Server : Worker(s)
      BY <1>1
    <2>2. s \notin 1..joined /\ UNCHANGED <<pc, joined, gathered>>
      BY <2>1, WorkerStep, WorkerIsEarly DEF config, search, output
    <2>3. ASSUME NEW t \in 1..joined PROVE worker'[t] = worker[t] /\ answer'[t] = answer[t]
      <3>1. t \in Server /\ t # s
        BY <1>0, <2>2 DEF TypeOK, Server
      <3>2. worker'[t] = worker[t]
        BY <1>0, <2>1, <3>1, WorkerStep DEF TypeOK
      <3>3. answer'[t] = answer[t]
        BY <1>0, <2>1, <3>1 DEF Worker, Start, Report, Fetch, Count, TypeOK
      <3> QED
        BY <3>2, <3>3
    <2> QED
      BY <1>0, <2>2, <2>3 DEF JoinInv
  <1>2. CASE Launch
    <2>1. PICK s \in Server : worker[s] = "new" /\ worker' = [worker EXCEPT ![s] = "launched"]
                              /\ pc' = IF s = S THEN "join" ELSE "launch"
      BY <1>2 DEF Launch
    <2> QED
      BY <1>0, <1>2, <2>1 DEF Launch, JoinInv
  <1>3. CASE Join
    <2>1. joined' = joined + 1 /\ joined' \in Server /\ worker[joined'] = "done" /\ gathered' = Append(gathered, answer[joined'])
      BY <1>0, <1>3 DEF Join, TypeOK, JoinInv, Server
    <2>2. Len(gathered') = joined' /\ \A s \in 1..joined' : gathered'[s] = answer[s] /\ worker[s] = "done"
      <3>1. joined \in Nat /\ gathered \in Seq(Result) /\ Len(gathered) = joined
        BY <1>0 DEF TypeOK, JoinInv
      <3>2. Len(gathered') = joined' /\ gathered'[joined'] = answer[joined']
            /\ \A s \in 1..joined : gathered'[s] = gathered[s]
        BY <2>1, <3>1
      <3> QED
        BY <1>0, <2>1, <3>1, <3>2 DEF JoinInv
    <2>3. pc' = "join" => joined' < S
      BY <1>0, <1>3, <2>1 DEF Join, Server
    <2> QED
      BY <1>0, <1>3, <2>2, <2>3 DEF Join, JoinInv
  <1>4. CASE Plan \/ BeginTitle \/ SearchTitle \/ EndTitle \/ MergeServer \/ Return
    <2>1. UNCHANGED <<worker, answer, joined, gathered>> /\ joined = S
          /\ pc' \in {"plan", "titles", "search", "merge", "returned"}
      BY <1>0, <1>4 DEF JoinInv, Plan, BeginTitle, SearchTitle, EndTitle, MergeServer, Return
    <2> QED
      BY <1>0, <2>1 DEF JoinInv
  <1> QED
    BY <1>1, <1>2, <1>3, <1>4 DEF Next, Caller

(* A MusicBrainz server that is searched for is one of the servers. *)
LEMMA FirstIsServer ==
  ASSUME TypeOK, ShouldRecrawl
  PROVE  FirstMusicBrainz \in musicbrainz /\ FirstMusicBrainz \in Server
  <1>1. musicbrainz \in SUBSET Nat /\ musicbrainz # {} /\ musicbrainz \subseteq Server
    BY DEF TypeOK, ShouldRecrawl, Server
  <1> QED
    BY <1>1, MinIsLeast DEF FirstMusicBrainz

LEMMA PlanStep == ASSUME IInv, Next PROVE PlanInv'
  <1>0. TypeOK /\ PlanInv /\ CountInv
    BY DEF IInv
  <1>1. CASE \E s \in Server : Worker(s)
    <2>1. UNCHANGED <<musicbrainz, recrawl, pc, gathered, titles, title, found, titleError>>
      BY <1>1, WorkerStep DEF config, search
    <2>2. ShouldRecrawl' = ShouldRecrawl
      BY <2>1 DEF ShouldRecrawl, CddbEntries, MusicBrainzEntries
    <2> QED
      BY <1>0, <2>1, <2>2 DEF PlanInv
  <1>2. CASE Launch
    BY <1>0, <1>2 DEF Launch, PlanInv, ShouldRecrawl, CddbEntries, MusicBrainzEntries, config, search, output
  <1>3. CASE Join
    <2>1. pc = "join" /\ pc' \in {"join", "plan"} /\ UNCHANGED <<titles, found, titleError>>
      BY <1>3 DEF Join, search
    <2> QED
      BY <1>0, <2>1 DEF PlanInv
  <1>4. CASE Plan
    <2>1. titles' \in Nat /\ titles' > 0 => ShouldRecrawl
      BY <1>4 DEF Plan
    <2>2. found' = <<>> /\ titleError' = FALSE /\ title' = 0 /\ pc' = IF titles' = 0 THEN "merge" ELSE "titles"
      BY <1>0, <1>4 DEF Plan, PlanInv, CountInv, TypeOK
    <2>3. ShouldRecrawl' = ShouldRecrawl
      BY <1>4 DEF Plan, ShouldRecrawl, CddbEntries, MusicBrainzEntries, config
    <2>4. titles' \in Nat
      BY <1>4, MetadataFetchAssumption DEF Plan, CandidateCounts
    <2> QED
      BY <2>1, <2>2, <2>3, <2>4 DEF PlanInv
  <1>5. CASE BeginTitle \/ EndTitle
    <2>1. ShouldRecrawl' = ShouldRecrawl /\ UNCHANGED <<titles, found>>
      BY <1>5 DEF BeginTitle, EndTitle, ShouldRecrawl, CddbEntries, MusicBrainzEntries, config, search
    <2>2. title \in 0..titles /\ titles \in Nat
      BY <1>0, MetadataFetchAssumption DEF TypeOK
    <2> QED
      BY <1>0, <1>5, <2>1, <2>2 DEF BeginTitle, EndTitle, PlanInv, search
  <1>6. CASE SearchTitle
    <2>1. ShouldRecrawl' = ShouldRecrawl /\ UNCHANGED <<titles, title, pc>> /\ pc = "search"
      BY <1>6 DEF SearchTitle, ShouldRecrawl, CddbEntries, MusicBrainzEntries, config
    <2>2. title >= 1 /\ title \in 0..titles /\ titles \in Nat
      BY <1>0, <2>1, MetadataFetchAssumption DEF PlanInv, TypeOK
    <2> QED
      BY <1>0, <2>1, <2>2 DEF PlanInv
  <1>7. CASE MergeServer \/ Return
    BY <1>0, <1>7 DEF MergeServer, Return, PlanInv, ShouldRecrawl, CddbEntries, MusicBrainzEntries, config, search
  <1> QED
    BY <1>1, <1>2, <1>3, <1>4, <1>5, <1>6, <1>7 DEF Next, Caller

LEMMA FoundStep == ASSUME IInv, Next PROVE FoundInv'
  <1>0. TypeOK /\ PlanInv /\ FoundInv
    BY DEF IInv
  <1>1. CASE SearchTitle /\ found' # found
    <2>1. PICK keys \in Finds : found' = found \o [i \in DOMAIN keys |-> [from |-> Search, key |-> keys[i]]]
      BY <1>1 DEF SearchTitle
    <2> DEFINE new == [i \in DOMAIN keys |-> [from |-> Search, key |-> keys[i]]]
    <2>2. UNCHANGED <<musicbrainz, gathered>>
      BY <1>1 DEF SearchTitle, config
    <2>3. found \in Seq(Entry) /\ new \in Seq(Entry) /\ keys \in Seq(Keys \cup {NoKey})
      BY <1>0, FindsType DEF TypeOK
    <2>4. Len(new) = Len(keys) /\ \A i \in 1..Len(keys) : new[i].from = Search /\ new[i].key = keys[i]
      BY <2>3
    <2> DEFINE listed == ToSet(gathered[FirstMusicBrainz].entries)
    <2>5. ASSUME NEW i \in 1..Len(keys), keys[i] # NoKey
          PROVE  /\ \A e \in listed : e.key # keys[i]
                 /\ \A j \in 1..Len(found) : found[j].key # keys[i]
                 /\ \A j \in 1..Len(keys) : keys[j] = keys[i] => j = i
      <3>1. keys[i] \notin SeenKeys /\ \A j \in 1..Len(keys) : keys[j] = keys[i] => j = i
        BY <1>0, <2>3, <2>5, FindsType
      <3>2. gathered[FirstMusicBrainz].entries \in Seq(Entry)
        <4>1. ShouldRecrawl /\ pc = "search"
          BY <1>0, <1>1 DEF SearchTitle, PlanInv, TypeOK
        <4>2. FirstMusicBrainz \in Server
          BY <1>0, <4>1, FirstIsServer
        <4> QED
          BY <4>1, <4>2, ListedType
      <3>3. ToSet(gathered[FirstMusicBrainz].entries \o found) = listed \cup ToSet(found)
        BY <2>3, <3>2, ConcatElements
      <3>4. \A j \in 1..Len(found) : found[j] \in ToSet(found)
        BY <2>3 DEF ToSet
      <3> QED
        BY <2>5, <3>1, <3>3, <3>4 DEF SeenKeys
    <2>6. /\ Len(found') = Len(found) + Len(keys)
          /\ \A i \in 1..Len(found) : found'[i] = found[i]
          /\ \A i \in (Len(found) + 1)..(Len(found) + Len(keys)) :
               found'[i].from = Search /\ found'[i].key = keys[i - Len(found)] /\ i - Len(found) \in 1..Len(keys)
      <3>1. found' = found \o new
        BY <2>1
      <3> HIDE DEF new
      <3>2. /\ Len(found') = Len(found) + Len(new)
            /\ \A i \in 1..Len(found) : found'[i] = found[i]
            /\ \A i \in (Len(found) + 1)..(Len(found) + Len(new)) :
                 found'[i] = new[i - Len(found)] /\ i - Len(found) \in 1..Len(new)
        BY <2>3, <3>1, ConcatParts
      <3> QED
        BY <2>4, <3>2
    <2>7. ASSUME NEW i \in DOMAIN found'
          PROVE  /\ found'[i].from = Search
                 /\ found'[i].key # NoKey =>
                      /\ \A j \in DOMAIN found' : found'[j].key = found'[i].key => j = i
                      /\ \A e \in listed : e.key # found'[i].key
      <3>0. DOMAIN found = 1..Len(found) /\ Len(found) \in Nat /\ Len(keys) \in Nat
            /\ DOMAIN found' = 1..(Len(found) + Len(keys))
        BY <2>3, <2>4, <2>6
      <3>1. CASE i \in 1..Len(found)
        <4>1. found[i].from = Search
              /\ (found[i].key # NoKey =>
                   /\ \A j \in DOMAIN found : found[j].key = found[i].key => j = i
                   /\ \A e \in listed : e.key # found[i].key)
          BY <1>0, <3>0, <3>1 DEF FoundInv
        <4>2. ASSUME NEW j \in DOMAIN found', found'[j].key = found'[i].key, found'[i].key # NoKey PROVE j = i
          <5>1. CASE j \in 1..Len(found)
            BY <2>6, <3>0, <3>1, <4>1, <4>2, <5>1
          <5>2. CASE j \in (Len(found) + 1)..(Len(found) + Len(keys))
            BY <2>5, <2>6, <3>0, <3>1, <4>2, <5>2
          <5> QED
            BY <3>0, <5>1, <5>2
        <4> QED
          BY <2>6, <3>1, <4>1, <4>2
      <3>2. CASE i \in (Len(found) + 1)..(Len(found) + Len(keys))
        <4>1. i - Len(found) \in 1..Len(keys) /\ found'[i].key = keys[i - Len(found)] /\ found'[i].from = Search
          BY <2>6, <3>2
        <4>2. ASSUME NEW j \in DOMAIN found', found'[j].key = found'[i].key, found'[i].key # NoKey PROVE j = i
          <5>1. CASE j \in 1..Len(found)
            BY <2>5, <2>6, <4>1, <4>2, <5>1
          <5>2. CASE j \in (Len(found) + 1)..(Len(found) + Len(keys))
            <6>1. j - Len(found) \in 1..Len(keys) /\ found'[j].key = keys[j - Len(found)]
              BY <2>6, <5>2
            <6>2. j - Len(found) = i - Len(found)
              BY <2>5, <4>1, <4>2, <6>1
            <6> QED
              BY <3>0, <3>2, <5>2, <6>2
          <5> QED
            BY <3>0, <5>1, <5>2
        <4> QED
          BY <2>5, <4>1, <4>2
      <3> QED
        BY <3>0, <3>1, <3>2
    <2> QED
      BY <2>2, <2>7 DEF FoundInv, FirstMusicBrainz
  <1>2. CASE found' = found
    <2>1. CASE found = <<>>
      BY <1>2, <2>1 DEF FoundInv
    <2>2. CASE found # <<>>
      <3>1. UNCHANGED <<musicbrainz, gathered>>
        <4>1. titles > 0
          BY <1>0, <2>2 DEF PlanInv
        <4>2. pc \notin {"launch", "join", "plan"}
          BY <1>0, <4>1 DEF PlanInv
        <4> QED
          BY <4>2 DEF Next, Caller, Worker, Launch, Join, Plan, BeginTitle, SearchTitle, EndTitle, MergeServer,
             Return, Start, Report, Fetch, Count, config
      <3> QED
        BY <1>0, <1>2, <3>1 DEF FoundInv, FirstMusicBrainz
    <2> QED
      BY <2>1, <2>2
  <1> QED
    BY <1>1, <1>2 DEF Next, Caller, Worker, Launch, Join, Plan, BeginTitle, EndTitle, MergeServer,
       Return, Start, Report, Fetch, Count, search

LEMMA CountStep == ASSUME IInv, Next PROVE CountInv'
  <1>0. TypeOK /\ CountInv /\ PlanInv
    BY DEF IInv
  <1>c. Cardinality(Counted) \in 0..S /\ S \in Nat
    BY CountedType, MetadataFetchAssumption
  <1>1. CASE \E s \in Server : Worker(s)
    <2>1. PICK s \in Server : Worker(s)
      BY <1>1
    <2>2. UNCHANGED <<pc, title>> /\ title = 0 /\ Searched = 0 /\ Searched' = 0
      <3>1. pc \in {"launch", "join"} /\ title = 0
        BY <2>1, WorkerStep, WorkerIsEarly
      <3> QED
        BY <2>1, <3>1, WorkerStep DEF Searched, search
    <2>3. CASE Count(s)
      <3>1. /\ Cardinality(Counted') = Cardinality(Counted) + 1 /\ completed' = Cardinality(Counted')
            /\ report' = [report EXCEPT ![s] = completed']
        BY <2>3, OneMore
      <3>2. \A t \in Server : report[t] \in 0..S /\ report[t] <= Cardinality(Counted)
        BY <1>0 DEF TypeOK, CountInv
      <3>3. ASSUME NEW t \in Server PROVE report'[t] <= Cardinality(Counted')
        BY <1>0, <1>c, <3>1, <3>2 DEF TypeOK
      <3> QED
        BY <1>c, <2>2, <3>1, <3>3 DEF CountInv
    <2>4. CASE Start(s)
      <3>1. Counted' = Counted
        BY <2>4, SameCount
      <3> QED
        BY <1>0, <1>c, <2>2, <2>4, <3>1 DEF Start, CountInv, TypeOK
    <2>5. CASE Report(s, "starting", "fetching", S) \/ Fetch(s) \/ Report(s, "counted", "done", S)
      <3>1. Counted' = Counted
        BY <2>5, SameCount
      <3>2. UNCHANGED <<completed, report>>
        BY <2>5 DEF Report, Fetch
      <3> QED
        BY <1>0, <2>2, <3>1, <3>2 DEF CountInv
    <2> QED
      BY <2>1, <2>3, <2>4, <2>5 DEF Worker
  <1>2. ASSUME Caller PROVE Counted' = Counted /\ report' = report
    BY <1>0, <1>2 DEF Caller, Launch, Join, Plan, BeginTitle, SearchTitle, EndTitle, MergeServer, Return, Counted, TypeOK
  <1>3. CASE Launch \/ Join
    <2>1. UNCHANGED <<completed, title>> /\ pc \in {"launch", "join"} /\ pc' \in {"launch", "join", "plan"}
      BY <1>3 DEF Launch, Join, search
    <2> QED
      BY <1>0, <1>2, <1>3, <2>1 DEF CountInv, Searched, Caller
  <1>4. CASE Plan
    BY <1>0, <1>2, <1>4 DEF Plan, CountInv, Searched, Caller
  <1>5. CASE BeginTitle
    BY <1>0, <1>2, <1>5 DEF BeginTitle, CountInv, Searched, Caller, TypeOK
  <1>6. CASE SearchTitle
    BY <1>0, <1>2, <1>6 DEF SearchTitle, CountInv, Searched, Caller
  <1>7. CASE EndTitle
    <2>1. title \in Nat
      BY <1>0, MetadataFetchAssumption DEF TypeOK
    <2> QED
      BY <1>0, <1>c, <1>2, <1>7, <2>1 DEF EndTitle, CountInv, Searched, Caller, search
  <1>8. CASE MergeServer \/ Return
    BY <1>0, <1>2, <1>8 DEF MergeServer, Return, CountInv, Searched, Caller, search
  <1> QED
    BY <1>1, <1>3, <1>4, <1>5, <1>6, <1>7, <1>8 DEF Next, Caller

LEMMA ShownStep == ASSUME IInv, Next PROVE ShownInv'
  <1>0. TypeOK /\ ShownInv /\ CountInv /\ PlanInv
    BY DEF IInv
  <1>c. /\ Cardinality(Counted) \in 0..S /\ S \in Nat \ {0} /\ (Counted = Server => Cardinality(Counted) = S)
        /\ title \in Nat /\ titles \in Nat /\ title <= titles
    BY <1>0, CountedType, MetadataFetchAssumption DEF TypeOK
  <1>1. CASE \E s \in Server : Worker(s)
    <2>1. PICK s \in Server : Worker(s)
      BY <1>1
    <2>2. UNCHANGED <<pc, titles, title>> /\ title = 0 /\ pc \in {"launch", "join"} /\ titles = 0
      BY <2>1, WorkerStep, WorkerIsEarly DEF search
    <2>3. completed = Cardinality(Counted)
      BY <1>0, <1>c, <2>2 DEF CountInv, Searched
    <2>4. completed' >= completed
      <3>1. CASE Count(s)
        BY <1>c, <2>3, <3>1 DEF Count
      <3>2. CASE ~Count(s)
        BY <1>c, <2>1, <2>3, <3>2 DEF Worker, Start, Report, Fetch
      <3> QED
        BY <3>1, <3>2
    <2>5. CASE shown' = shown
      <3>1. shown.completed \in 0..(S + MaxTitles) /\ completed \in 0..(S + MaxTitles)
        BY <1>0 DEF TypeOK
      <3>2. completed' \in Nat
        <4>1. TypeOK'
          BY <2>1, WorkerType
        <4> QED
          BY <4>1 DEF TypeOK
      <3>3. shown.completed <= completed'
        BY <1>0, <2>4, <3>1, <3>2 DEF ShownInv
      <3> QED
        BY <1>0, <2>2, <2>5, <3>3 DEF ShownInv
    <2>6. CASE shown' = [completed |-> report[s], total |-> S]
      <3>1. report[s] \in 0..S /\ report[s] <= Cardinality(Counted) /\ completed' \in Nat
        <4>1. report[s] \in 0..S /\ report[s] <= Cardinality(Counted)
          BY <1>0 DEF TypeOK, CountInv
        <4>2. TypeOK'
          BY <2>1, WorkerType
        <4>3. completed' \in 0..(S + MaxTitles)
          BY <4>2 DEF TypeOK
        <4> QED
          BY <4>1, <4>3
      <3> QED
        BY <1>c, <2>2, <2>3, <2>4, <2>6, <3>1 DEF ShownInv
    <2> QED
      BY <2>1, <2>5, <2>6 DEF Worker, Start, Report, Fetch, Count
  <1>2. CASE Launch \/ Join \/ SearchTitle \/ MergeServer
    <2>1. UNCHANGED <<shown, completed, titles>> /\ pc' # "returned"
      BY <1>0, <1>2 DEF Launch, Join, SearchTitle, MergeServer, search, TypeOK
    <2> QED
      BY <1>0, <2>1 DEF ShownInv
  <1>3. CASE Plan
    <2>1. UNCHANGED <<shown, completed>> /\ titles = 0 /\ pc' # "returned"
      BY <1>0, <1>3 DEF Plan, PlanInv
    <2> QED
      BY <1>0, <1>c, <2>1 DEF ShownInv
  <1>4. CASE BeginTitle
    <2>1. pc = "titles" /\ completed \in 0..(S + MaxTitles) /\ title < titles
      BY <1>0, <1>4 DEF BeginTitle, TypeOK, PlanInv
    <2>2. completed <= S + titles
      BY <1>0, <1>c, <2>1 DEF CountInv, Searched
    <2> QED
      BY <1>0, <1>c, <1>4, <2>1, <2>2 DEF BeginTitle, ShownInv
  <1>5. CASE EndTitle
    <2>1. pc = "search" /\ completed \in 0..(S + MaxTitles) /\ title >= 1
      BY <1>0, <1>5 DEF EndTitle, TypeOK, PlanInv
    <2>2. completed + 1 <= S + titles
      BY <1>0, <1>c, <2>1 DEF CountInv, Searched
    <2> QED
      BY <1>0, <1>c, <1>5, <2>1, <2>2 DEF EndTitle, ShownInv, search
  <1>6. CASE Return
    <2>1. pc = "merge" /\ completed \in 0..(S + MaxTitles)
      BY <1>0, <1>6 DEF Return, TypeOK
    <2>2. Counted = Server /\ title = titles
      BY <1>0, <2>1, ListedType DEF PlanInv, Counted
    <2>3. completed = S + titles
      BY <1>0, <1>c, <2>1, <2>2 DEF CountInv, Searched
    <2> QED
      BY <1>c, <1>6, <2>3 DEF Return, ShownInv, search
  <1> QED
    BY <1>1, <1>2, <1>3, <1>4, <1>5, <1>6 DEF Next, Caller

LEMMA ErrorStep == ASSUME IInv, Next PROVE ErrorInv'
  <1>0. TypeOK /\ ErrorInv /\ MergeInv /\ S \in Nat \ {0}
    BY MetadataFetchAssumption DEF IInv
  <1>1. CASE MergeServer
    <2>1. pc = "merge" /\ pc' = "merge" /\ merged' = merged + 1 /\ merged' \in Server /\ merged \in Nat /\ answer' = answer
      BY <1>0, <1>1 DEF MergeServer, TypeOK, Server
    <2>2. error \in 0..merged /\ gathered[merged'] = answer[merged'] /\ gathered[merged'].failed \in BOOLEAN
      BY <1>0, <2>1, ListedType DEF ErrorInv, TypeOK, Result
    <2>3. error' = SetError(error, IF answer[merged'].failed THEN merged' ELSE 0)
      BY <1>1, <2>2 DEF MergeServer
    <2>4. CASE error # 0
      BY <1>0, <2>1, <2>2, <2>3, <2>4 DEF ErrorInv, SetError
    <2>5. CASE error = 0
      <3>1. \A s \in 1..merged : ~answer[s].failed
        BY <1>0, <2>5 DEF ErrorInv
      <3>2. CASE answer[merged'].failed
        <4>1. error' = merged'
          BY <2>3, <2>5, <3>2 DEF SetError
        <4> QED
          BY <2>1, <3>1, <3>2, <4>1 DEF ErrorInv
      <3>3. CASE ~answer[merged'].failed
        <4>1. error' = 0
          BY <2>3, <2>5, <3>3 DEF SetError
        <4> QED
          BY <2>1, <3>1, <3>3, <4>1 DEF ErrorInv
      <3> QED
        BY <3>2, <3>3
    <2> QED
      BY <2>4, <2>5
  <1>2. CASE Return
    <2>1. pc' = "returned" /\ merged = S /\ UNCHANGED <<merged, answer, titleError>> /\ error \in 0..S
      BY <1>0, <1>2 DEF Return, search, ErrorInv
    <2>2. error' = IF error = 0 /\ titleError THEN Search ELSE error
      BY <1>2, <2>1 DEF Return, SetError
    <2>3. CASE error = 0 /\ titleError
      BY <1>0, <2>1, <2>2, <2>3 DEF ErrorInv, Search
    <2>4. CASE ~(error = 0 /\ titleError)
      BY <1>0, <2>1, <2>2, <2>4 DEF ErrorInv
    <2> QED
      BY <2>3, <2>4
  <1>3. CASE ~MergeServer /\ ~Return
    <2>1. UNCHANGED <<merged, error>> /\ pc \notin {"merge", "returned"}
      <3>1. CASE \E s \in Server : Worker(s)
        BY <3>1, WorkerStep, WorkerIsEarly DEF output
      <3>2. CASE Launch \/ Join \/ Plan \/ BeginTitle \/ SearchTitle \/ EndTitle
        BY <3>2 DEF Launch, Join, Plan, BeginTitle, SearchTitle, EndTitle, output
      <3> QED
        BY <1>3, <3>1, <3>2 DEF Next, Caller
    <2>2. merged = 0 /\ error = 0
      BY <1>0, <2>1 DEF MergeInv, ErrorInv
    <2> QED
      BY <2>1, <2>2 DEF ErrorInv
  <1> QED
    BY <1>1, <1>2, <1>3

-----------------------------------------------------------------------------
(* Pieces of a list, and lists that grow. *)

LEMMA PieceKept ==
  ASSUME NEW l \in Seq(Entry), NEW m \in Seq(Entry), NEW s, NEW entries \in Seq(Entry),
         IsPieceOf(l, s, entries), \A i \in DOMAIN m : m[i].from # s
  PROVE  IsPieceOf(l \o m, s, entries)
  <1>1. PICK k \in 0..Len(l) :
          /\ \A i \in DOMAIN l : l[i].from = s <=> i \in (k + 1)..(k + Len(entries))
          /\ \A i \in DOMAIN entries : k + i \in DOMAIN l /\ l[k + i] = entries[i]
    BY DEF IsPieceOf
  <1> DEFINE c == l \o m
  <1>2. /\ DOMAIN l = 1..Len(l) /\ DOMAIN entries = 1..Len(entries) /\ DOMAIN m = 1..Len(m)
        /\ DOMAIN c = 1..(Len(l) + Len(m)) /\ Len(c) = Len(l) + Len(m)
        /\ Len(l) \in Nat /\ Len(m) \in Nat /\ Len(entries) \in Nat /\ k \in 0..Len(c)
    OBVIOUS
  <1>3. /\ \A i \in 1..Len(l) : c[i] = l[i]
        /\ \A i \in (Len(l) + 1)..(Len(l) + Len(m)) : c[i] = m[i - Len(l)] /\ i - Len(l) \in 1..Len(m)
    BY ConcatParts
  <1> HIDE DEF c
  <1>4. ASSUME NEW i \in DOMAIN entries PROVE k + i \in DOMAIN c /\ c[k + i] = entries[i]
    BY <1>1, <1>2, <1>3
  <1>5. k + Len(entries) <= Len(l)
    <2>1. CASE Len(entries) = 0
      BY <1>2, <2>1
    <2>2. CASE Len(entries) # 0
      <3>1. Len(entries) \in DOMAIN entries
        BY <1>2, <2>2
      <3>2. k + Len(entries) \in 1..Len(l)
        BY <1>1, <1>2, <3>1
      <3> QED
        BY <1>2, <3>2
    <2> QED
      BY <2>1, <2>2
  <1>6. ASSUME NEW i \in DOMAIN c PROVE c[i].from = s <=> i \in (k + 1)..(k + Len(entries))
    <2>1. CASE i \in 1..Len(l)
      BY <1>1, <1>2, <1>3, <2>1
    <2>2. CASE i \in (Len(l) + 1)..(Len(l) + Len(m))
      BY <1>2, <1>3, <1>5, <2>2
    <2> QED
      BY <1>2, <2>1, <2>2
  <1>7. IsPieceOf(c, s, entries)
    BY <1>2, <1>4, <1>6 DEF IsPieceOf
  <1> QED
    BY <1>7 DEF c

LEMMA PieceAdded ==
  ASSUME NEW l \in Seq(Entry), NEW m \in Seq(Entry), NEW s,
         \A i \in DOMAIN l : l[i].from # s, \A i \in DOMAIN m : m[i].from = s
  PROVE  IsPieceOf(l \o m, s, m)
  <1> DEFINE c == l \o m
  <1>2. /\ DOMAIN l = 1..Len(l) /\ DOMAIN m = 1..Len(m)
        /\ DOMAIN c = 1..(Len(l) + Len(m)) /\ Len(c) = Len(l) + Len(m)
        /\ Len(l) \in Nat /\ Len(m) \in Nat /\ Len(l) \in 0..Len(c)
    OBVIOUS
  <1>3. /\ \A i \in 1..Len(l) : c[i] = l[i]
        /\ \A i \in 1..Len(m) : c[Len(l) + i] = m[i]
        /\ \A i \in (Len(l) + 1)..(Len(l) + Len(m)) : c[i] = m[i - Len(l)] /\ i - Len(l) \in 1..Len(m)
    BY ConcatParts
  <1> HIDE DEF c
  <1>4. ASSUME NEW i \in DOMAIN c PROVE c[i].from = s <=> i \in (Len(l) + 1)..(Len(l) + Len(m))
    <2>1. CASE i \in 1..Len(l)
      BY <1>2, <1>3, <2>1
    <2>2. CASE i \in (Len(l) + 1)..(Len(l) + Len(m))
      BY <1>2, <1>3, <2>2
    <2> QED
      BY <1>2, <2>1, <2>2
  <1>5. \A i \in DOMAIN m : Len(l) + i \in DOMAIN c /\ c[Len(l) + i] = m[i]
    BY <1>2, <1>3
  <1>6. IsPieceOf(c, s, m)
    BY <1>2, <1>4, <1>5 DEF IsPieceOf
  <1> QED
    BY <1>6 DEF c

(* A list that grows by one server. *)
LEMMA MergedMore == ASSUME IInv, MergeServer PROVE MergeInv'
  <1>0. TypeOK /\ MergeInv /\ PlanInv /\ FoundInv /\ S \in Nat \ {0}
    BY MetadataFetchAssumption DEF IInv
  <1> DEFINE n == merged + 1
             own == answer[n].entries
             new == Listed(n)
  <1>1. pc = "merge" /\ pc' = "merge" /\ merged' = n /\ n \in Server /\ n \in 1..S /\ merged \in Nat /\ list' = list \o new
        /\ UNCHANGED <<answer, found, musicbrainz>>
    BY <1>0 DEF MergeServer, TypeOK, Server, config, search
  <1>2. /\ gathered[n] = answer[n] /\ own \in Seq(Entry) /\ new \in Seq(Entry) /\ list \in Seq(Entry) /\ found \in Seq(Entry)
        /\ \A i \in DOMAIN own : own[i].from = n
    <2>1. /\ gathered[n] = answer[n] /\ gathered[n].entries \in Seq(Entry) /\ new \in Seq(Entry)
          /\ \A i \in DOMAIN gathered[n].entries : gathered[n].entries[i].from = n
      BY <1>1, ListedType
    <2> QED
      BY <1>0, <2>1 DEF TypeOK
  <1>3. found # <<>> => FirstMusicBrainz \in musicbrainz /\ FirstMusicBrainz \in 1..S
    <2>1. found # <<>> => ShouldRecrawl
      BY <1>0, MetadataFetchAssumption DEF PlanInv, TypeOK
    <2> QED
      BY <1>0, <2>1, FirstIsServer DEF Server
  <1>4. new = IF n \in musicbrainz /\ n = FirstMusicBrainz THEN own \o found ELSE own
    BY <1>2 DEF Listed
  <1>5. Search \notin 1..S /\ Search = S + 1
    BY <1>0 DEF Search
  <1>f. \A i \in DOMAIN found : found[i].from = Search
    BY <1>0 DEF FoundInv
  <1>d. n # Search /\ \A t \in 1..merged : t # Search /\ t # n
    BY <1>0, <1>1, <1>5
  <1> HIDE DEF new, own
  <1>6. ASSUME NEW i \in DOMAIN new
        PROVE  new[i].from = n \/ (new[i].from = Search /\ found # <<>> /\ FirstMusicBrainz = n)
    <2>1. CASE new = own
      BY <1>2, <2>1
    <2>2. CASE new = own \o found /\ n = FirstMusicBrainz
      <3>1. /\ DOMAIN new = 1..(Len(own) + Len(found)) /\ Len(own) \in Nat /\ Len(found) \in Nat
            /\ DOMAIN own = 1..Len(own) /\ DOMAIN found = 1..Len(found)
            /\ \A k \in 1..Len(own) : new[k] = own[k]
            /\ \A k \in (Len(own) + 1)..(Len(own) + Len(found)) :
                 new[k] = found[k - Len(own)] /\ k - Len(own) \in 1..Len(found)
        BY <1>2, <2>2, ConcatParts
      <3>2. CASE i \in 1..Len(own)
        BY <1>2, <3>1, <3>2
      <3>3. CASE i \in (Len(own) + 1)..(Len(own) + Len(found))
        <4>1. new[i] = found[i - Len(own)] /\ i - Len(own) \in DOMAIN found
          BY <3>1, <3>3
        <4>2. found # <<>>
          BY <4>1
        <4>3. new[i].from = Search
          BY <1>f, <4>1
        <4> QED
          BY <2>2, <4>2, <4>3
      <3> QED
        BY <3>1, <3>2, <3>3
    <2> QED
      BY <1>4, <2>1, <2>2
  <1>7. \A i \in DOMAIN new : Rank(new[i]) = n
    BY <1>1, <1>5, <1>6 DEF Rank
  <1>8. ASSUME NEW i \in DOMAIN list PROVE Rank(list[i]) \in 1..merged
    <2>1. CASE list[i].from \in 1..merged
      BY <1>0, <1>1, <1>5, <2>1 DEF Rank
    <2>2. CASE list[i].from = Search /\ found # <<>> /\ FirstMusicBrainz <= merged
      BY <1>1, <1>3, <2>2 DEF Rank
    <2> QED
      BY <1>0, <2>1, <2>2 DEF MergeInv
  <1>l. /\ DOMAIN list = 1..Len(list) /\ DOMAIN new = 1..Len(new) /\ DOMAIN list' = 1..(Len(list) + Len(new))
        /\ Len(list) \in Nat /\ Len(new) \in Nat
        /\ \A i \in 1..Len(list) : list'[i] = list[i]
        /\ \A i \in (Len(list) + 1)..(Len(list) + Len(new)) : list'[i] = new[i - Len(list)] /\ i - Len(list) \in DOMAIN new
    BY <1>1, <1>2, ConcatParts
  <1>r. \A e : Rank(e)' = Rank(e)
    BY <1>1 DEF Rank, FirstMusicBrainz
  <1>9. ASSUME NEW i \in DOMAIN list'
        PROVE  list'[i].from \in 1..n \/ (list'[i].from = Search /\ found # <<>> /\ FirstMusicBrainz <= n)
    <2>1. CASE i \in 1..Len(list)
      <3>1. list[i].from \in 1..merged \/ (list[i].from = Search /\ found # <<>> /\ FirstMusicBrainz <= merged)
        BY <1>0, <1>l, <2>1 DEF MergeInv
      <3> QED
        BY <1>1, <1>3, <1>l, <2>1, <3>1
    <2>2. CASE i \in (Len(list) + 1)..(Len(list) + Len(new))
      BY <1>1, <1>6, <1>l, <2>2
    <2> QED
      BY <1>l, <2>1, <2>2
  <1>10. ASSUME NEW i \in DOMAIN list', NEW j \in DOMAIN list', i < j
         PROVE  Rank(list'[i]) <= Rank(list'[j])
    <2>1. CASE j \in 1..Len(list)
      BY <1>0, <1>l, <1>10, <2>1 DEF MergeInv
    <2>2. CASE j \in (Len(list) + 1)..(Len(list) + Len(new)) /\ i \in 1..Len(list)
      <3>1. Rank(list'[j]) = n /\ Rank(list'[i]) \in 1..merged
        BY <1>7, <1>8, <1>l, <2>2
      <3> QED
        BY <1>1, <3>1
    <2>3. CASE j \in (Len(list) + 1)..(Len(list) + Len(new)) /\ i \in (Len(list) + 1)..(Len(list) + Len(new))
      <3>1. Rank(list'[j]) = n /\ Rank(list'[i]) = n
        BY <1>7, <1>l, <2>3
      <3> QED
        BY <1>1, <3>1
    <2> QED
      BY <1>l, <2>1, <2>2, <2>3
  <1>11. ASSUME NEW s \in 1..merged PROVE IsPieceOf(list', s, answer[s].entries)
    <2>1. IsPieceOf(list, s, answer[s].entries) /\ answer[s].entries \in Seq(Entry)
      <3>1. s \in Server
        BY <1>0, <1>1 DEF TypeOK, Server
      <3> QED
        BY <1>0, <3>1 DEF MergeInv, TypeOK, Result
    <2>2. \A i \in DOMAIN new : new[i].from # s
      BY <1>6, <1>d
    <2> QED
      BY <1>1, <1>2, <2>1, <2>2, PieceKept
  <1>12. \A i \in DOMAIN list : list[i].from # n
    BY <1>0, <1>1, <1>5 DEF MergeInv
  <1>13. /\ IsPieceOf(list', n, own)
         /\ found # <<>> /\ FirstMusicBrainz <= n => IsPieceOf(list', Search, found)
    <2>1. IsPieceOf(list \o own, n, own) /\ list \o own \in Seq(Entry)
      BY <1>2, <1>12, PieceAdded
    <2>2. CASE new = own \o found /\ n = FirstMusicBrainz
      <3>1. list' = (list \o own) \o found
        BY <1>1, <1>2, <2>2
      <3>2. IsPieceOf(list', n, own)
        <4>1. \A i \in DOMAIN found : found[i].from # n
          BY <1>d, <1>f
        <4> QED
          BY <1>2, <2>1, <3>1, <4>1, PieceKept
      <3>3. \A i \in DOMAIN list : list[i].from # Search
        BY <1>0, <1>1, <1>5, <2>2 DEF MergeInv
      <3>4. \A i \in DOMAIN (list \o own) : (list \o own)[i].from # Search
        <4>1. /\ DOMAIN (list \o own) = 1..(Len(list) + Len(own)) /\ Len(own) \in Nat /\ Len(list) \in Nat
              /\ DOMAIN own = 1..Len(own)
          BY <1>2
        <4>2. ASSUME NEW i \in 1..(Len(list) + Len(own)) PROVE (list \o own)[i].from # Search
          <5>1. CASE i \in 1..Len(list)
            BY <1>2, <1>l, <3>3, <5>1, ConcatParts
          <5>2. CASE i \in (Len(list) + 1)..(Len(list) + Len(own))
            <6>1. (list \o own)[i] = own[i - Len(list)] /\ i - Len(list) \in DOMAIN own
              BY <1>2, <4>1, <5>2, ConcatParts
            <6> QED
              BY <1>1, <1>2, <1>5, <6>1
          <5> QED
            BY <1>l, <4>1, <5>1, <5>2
        <4> QED
          BY <4>1, <4>2
      <3>5. IsPieceOf(list', Search, found)
        BY <1>2, <1>f, <2>1, <3>1, <3>4, PieceAdded
      <3> QED
        BY <3>2, <3>5
    <2>3. CASE new = own /\ (found # <<>> => n # FirstMusicBrainz)
      <3>1. list' = list \o own
        BY <1>1, <2>3
      <3>2. ASSUME found # <<>>, FirstMusicBrainz <= n PROVE IsPieceOf(list', Search, found)
        <4>1. FirstMusicBrainz <= merged
          BY <1>1, <1>3, <2>3, <3>2
        <4>2. IsPieceOf(list, Search, found)
          BY <1>0, <3>2, <4>1 DEF MergeInv
        <4>3. \A i \in DOMAIN own : own[i].from # Search
          BY <1>1, <1>2, <1>5
        <4> QED
          BY <1>2, <3>1, <4>2, <4>3, PieceKept
      <3> QED
        BY <2>1, <3>1, <3>2
    <2> QED
      BY <1>2, <1>3, <1>4, <2>2, <2>3
  <1>14. \A s \in 1..n : IsPieceOf(list', s, answer[s].entries)
    BY <1>1, <1>11, <1>13 DEF own
  <1> QED
    BY <1>1, <1>9, <1>10, <1>13, <1>14, <1>r DEF MergeInv, FirstMusicBrainz

LEMMA MergeStep == ASSUME IInv, Next PROVE MergeInv'
  <1>0. TypeOK /\ MergeInv /\ PlanInv /\ S \in Nat \ {0}
    BY MetadataFetchAssumption DEF IInv
  <1>1. CASE MergeServer
    BY <1>1, MergedMore
  <1>2. CASE Return
    <2>1. pc = "merge" /\ merged = S /\ UNCHANGED <<merged, list, answer, found, musicbrainz>> /\ pc' = "returned"
      BY <1>2 DEF Return, config, search
    <2> QED
      BY <1>0, <2>1 DEF MergeInv, Rank, FirstMusicBrainz, IsPieceOf
  <1>3. CASE ~MergeServer /\ ~Return
    <2>1. UNCHANGED <<merged, list, musicbrainz>> /\ pc \notin {"merge", "returned"} /\ pc' # "returned"
      <3>1. CASE \E s \in Server : Worker(s)
        BY <3>1, WorkerStep, WorkerIsEarly DEF output, config
      <3>2. CASE Launch \/ Join \/ Plan \/ BeginTitle \/ SearchTitle \/ EndTitle
        BY <3>2 DEF Launch, Join, Plan, BeginTitle, SearchTitle, EndTitle, output, config
      <3> QED
        BY <1>3, <3>1, <3>2 DEF Next, Caller
    <2>2. merged' = 0 /\ list' = <<>>
      BY <1>0, <2>1 DEF MergeInv
    <2>3. found' # <<>> => FirstMusicBrainz' \in 1..S
      <3>1. PlanInv' /\ TypeOK'
        <4>1. TypeOK'
          <5>1. CASE \E s \in Server : Worker(s)
            BY <5>1, WorkerType
          <5>2. CASE Caller
            BY <5>2, CallerType
          <5> QED
            BY <5>1, <5>2 DEF Next
        <4> QED
          BY <4>1, PlanStep
      <3>2. found' # <<>> => ShouldRecrawl'
        BY <3>1, MetadataFetchAssumption DEF PlanInv, TypeOK
      <3>3. found' # <<>> => musicbrainz' # {} /\ musicbrainz' \in SUBSET Nat /\ musicbrainz' \subseteq Server
        BY <3>1, <3>2 DEF ShouldRecrawl, TypeOK, Server
      <3>4. found' # <<>> => Min(musicbrainz') \in musicbrainz'
        BY <3>3, MinIsLeast
      <3> QED
        BY <1>0, <3>3, <3>4 DEF FirstMusicBrainz, Server
    <2>4. found' # <<>> => ~(FirstMusicBrainz' <= 0)
      BY <1>0, <2>3
    <2> QED
      BY <2>1, <2>2, <2>4 DEF MergeInv
  <1> QED
    BY <1>1, <1>2, <1>3

-----------------------------------------------------------------------------
(* The theorems. *)

LEMMA TypeStep == ASSUME IInv, Next PROVE TypeOK'
  <1>1. CASE \E s \in Server : Worker(s)
    BY <1>1, WorkerType
  <1>2. CASE Caller
    BY <1>2, CallerType
  <1> QED
    BY <1>1, <1>2 DEF Next

LEMMA InitInv == Init => IInv
  <1> SUFFICES ASSUME Init PROVE IInv
    OBVIOUS
  <1>1. S \in Nat \ {0}
    BY MetadataFetchAssumption
  <1>2. TypeOK
    BY InitType
  <1>3. AnswerInv
    BY DEF Init, AnswerInv, Answer
  <1>4. JoinInv /\ PlanInv /\ MergeInv /\ ErrorInv /\ FoundInv
    BY <1>1 DEF Init, JoinInv, PlanInv, MergeInv, ErrorInv, FoundInv
  <1>5. Counted = {}
    BY DEF Init, Counted
  <1>6. Cardinality(Counted) = 0
    BY <1>5, FS_EmptySet
  <1>7. CountInv /\ ShownInv
    BY <1>1, <1>6 DEF Init, CountInv, ShownInv, Searched
  <1> QED
    BY <1>2, <1>3, <1>4, <1>7 DEF IInv

LEMMA NextInv == IInv /\ [Next]_vars => IInv'
  <1> SUFFICES ASSUME IInv, [Next]_vars PROVE IInv'
    OBVIOUS
  <1>1. CASE Next
    BY <1>1, TypeStep, AnswerStep, JoinStep, PlanStep, MergeStep, ErrorStep, CountStep, ShownStep, FoundStep DEF IInv
  <1>2. CASE UNCHANGED vars
    <2>1. UNCHANGED <<musicbrainz, recrawl, worker, report, answer, completed, shown, pc, joined, gathered,
                      titles, title, spellings, found, titleError, merged, list, error>>
      BY <1>2 DEF vars, config, search, output
    <2>2. Counted' = Counted /\ Searched' = Searched /\ ShouldRecrawl' = ShouldRecrawl
          /\ FirstMusicBrainz' = FirstMusicBrainz /\ \A e : Rank(e)' = Rank(e)
      BY <2>1 DEF Counted, Searched, ShouldRecrawl, CddbEntries, MusicBrainzEntries, FirstMusicBrainz, Rank
    <2>3. TypeOK' /\ AnswerInv' /\ JoinInv'
      BY <2>1 DEF IInv, TypeOK, AnswerInv, JoinInv
    <2>4. PlanInv' /\ ErrorInv'
      BY <2>1, <2>2 DEF IInv, PlanInv, ErrorInv
    <2>6. MergeInv'
      <3>1. MergeInv
        BY DEF IInv
      <3> QED
        BY <2>1, <3>1 DEF MergeInv, Rank, FirstMusicBrainz, IsPieceOf
    <2>5. CountInv' /\ ShownInv' /\ FoundInv'
      BY <2>1, <2>2 DEF IInv, CountInv, ShownInv, FoundInv
    <2> QED
      BY <2>3, <2>4, <2>5, <2>6 DEF IInv
  <1> QED
    BY <1>1, <1>2

(* Whatever the servers answer and in whatever order the threads run, IInv  *)
(* holds.                                                                   *)
THEOREM Invariance == Spec => []IInv
  BY InitInv, NextInv, PTL DEF Spec

(* The variables have the types that TypeOK gives them. *)
THEOREM TypeCorrect == Spec => []TypeOK
  <1>1. IInv => TypeOK
    BY DEF IInv
  <1> QED
    BY <1>1, Invariance, PTL

(* The list is in the order of the servers, each with all its entries in    *)
(* one piece, whichever thread was first.                                   *)
THEOREM ListedCorrect == Spec => []ListedInServerOrder
  <1>1. IInv => ListedInServerOrder
    <2> SUFFICES ASSUME IInv, pc = "returned"
                 PROVE  /\ \A i, j \in DOMAIN list : i < j => Rank(list[i]) <= Rank(list[j])
                        /\ \A s \in Server \cup {Search} :
                             IsPieceOf(list, s, IF s = Search THEN found ELSE answer[s].entries)
      BY DEF ListedInServerOrder
    <2>0. TypeOK /\ MergeInv /\ PlanInv /\ S \in Nat \ {0}
      BY MetadataFetchAssumption DEF IInv
    <2>1. merged = S
      BY <2>0 DEF MergeInv
    <2>2. ASSUME NEW s \in Server PROVE s # Search /\ IsPieceOf(list, s, answer[s].entries)
      BY <2>0, <2>1 DEF MergeInv, Server, Search
    <2>3. IsPieceOf(list, Search, found)
      <3>1. CASE found # <<>>
        <4>1. ShouldRecrawl
          BY <2>0, <3>1 DEF PlanInv
        <4>2. FirstMusicBrainz <= S
          BY <2>0, <4>1, FirstIsServer DEF Server
        <4> QED
          BY <2>0, <2>1, <3>1, <4>2 DEF MergeInv
      <3>2. CASE found = <<>>
        <4>1. \A i \in DOMAIN list : list[i].from # Search
          BY <2>0, <2>1, <3>2 DEF MergeInv, Search
        <4>2. 0 \in 0..Len(list) /\ Len(found) = 0 /\ DOMAIN found = {}
          BY <2>0, <3>2 DEF TypeOK
        <4> QED
          BY <4>1, <4>2 DEF IsPieceOf
      <3> QED
        BY <3>1, <3>2
    <2> QED
      BY <2>0, <2>2, <2>3 DEF MergeInv
  <1> QED
    BY <1>1, Invariance, PTL

(* The error reported is that of the first server that failed, and the      *)
(* title search's only if none did.                                         *)
THEOREM ErrorCorrect == Spec => []ErrorIsTheFirst
  <1>1. IInv => ErrorIsTheFirst
    <2> SUFFICES ASSUME IInv, pc = "returned"
                 PROVE  /\ error \in Server => answer[error].failed
                        /\ \A s \in Server : answer[s].failed => error \in 1..s
                        /\ error = Search => titleError
      BY DEF ErrorIsTheFirst
    <2>1. ErrorInv /\ merged = S /\ S \in Nat \ {0}
      BY MetadataFetchAssumption DEF IInv, MergeInv
    <2> QED
      BY <2>1 DEF ErrorInv, Server, Search
  <1> QED
    BY <1>1, Invariance, PTL

(* No release is listed twice by the title search.                          *)
THEOREM FoundCorrect == Spec => []NoReleaseFoundTwice
  <1>1. IInv => NoReleaseFoundTwice
    <2> SUFFICES ASSUME IInv, NEW i \in DOMAIN found, found[i].key # NoKey
                 PROVE  /\ \A j \in DOMAIN found : found[j].key = found[i].key => j = i
                        /\ \A e \in ToSet(answer[FirstMusicBrainz].entries) : e.key # found[i].key
      BY DEF NoReleaseFoundTwice
    <2>0. TypeOK /\ PlanInv /\ FoundInv
      BY DEF IInv
    <2>1. titles > 0 /\ ShouldRecrawl
      BY <2>0 DEF PlanInv
    <2>2. pc \in {"plan", "titles", "search", "merge", "returned"}
      BY <2>0, <2>1 DEF PlanInv, TypeOK
    <2>3. gathered[FirstMusicBrainz] = answer[FirstMusicBrainz]
      BY <2>0, <2>1, <2>2, FirstIsServer, ListedType
    <2> QED
      BY <2>0, <2>3 DEF FoundInv
  <1> QED
    BY <1>1, Invariance, PTL

(* Titles are searched only when all servers have answered and their        *)
(* answers call for it.                                                     *)
THEOREM SearchCorrect == Spec => []SearchOnlyWhenDue
  <1>1. IInv => SearchOnlyWhenDue
    <2> SUFFICES ASSUME IInv, pc \in {"titles", "search", "merge", "returned"}
                 PROVE  /\ \A s \in Server : worker[s] = "done"
                        /\ pc \in {"titles", "search"} =>
                             /\ \E s \in Server \ musicbrainz : answer[s].entries # <<>>
                             /\ recrawl = "on" \/ \A s \in musicbrainz : answer[s].entries = <<>>
      BY DEF SearchOnlyWhenDue
    <2>0. TypeOK /\ PlanInv
      BY DEF IInv
    <2>1. \A s \in Server : worker[s] = "done" /\ gathered[s] = answer[s] /\ gathered[s].entries \in Seq(Entry)
      BY ListedType
    <2>2. ASSUME pc \in {"titles", "search"}
          PROVE  /\ \E s \in Server \ musicbrainz : answer[s].entries # <<>>
                 /\ recrawl = "on" \/ \A s \in musicbrainz : answer[s].entries = <<>>
      <3>1. ShouldRecrawl
        <4>1. title \in 0..titles /\ titles \in Nat
          BY <2>0, MetadataFetchAssumption DEF TypeOK
        <4> QED
          BY <2>0, <2>2, <4>1 DEF PlanInv
      <3>2. PICK s \in Server \ musicbrainz : ToSet(gathered[s].entries) # {}
        BY <3>1 DEF ShouldRecrawl, CddbEntries
      <3>3. answer[s].entries # <<>>
        <4>1. gathered[s] = answer[s] /\ gathered[s].entries \in Seq(Entry)
          BY <2>1, <3>2
        <4>2. ToSet(<<>>) = {}
          BY DEF ToSet
        <4> QED
          BY <3>2, <4>1, <4>2
      <3>4. ASSUME recrawl # "on", NEW t \in musicbrainz PROVE answer[t].entries = <<>>
        <4>1. ToSet(gathered[t].entries) = {} /\ t \in Server
          <5>1. t \in Server
            BY <2>0 DEF TypeOK
          <5>2. MusicBrainzEntries = {}
            BY <3>1, <3>4 DEF ShouldRecrawl
          <5> QED
            BY <5>1, <5>2 DEF MusicBrainzEntries
        <4>2. gathered[t].entries \in Seq(Entry) /\ gathered[t] = answer[t]
          BY <2>1, <4>1
        <4>3. ASSUME NEW l \in Seq(Entry), l # <<>> PROVE ToSet(l) # {}
          <5>1. 1 \in DOMAIN l
            BY <4>3
          <5>2. l[1] \in ToSet(l)
            BY <5>1 DEF ToSet
          <5> QED
            BY <5>2
        <4> QED
          BY <4>1, <4>2, <4>3
      <3> QED
        BY <3>2, <3>3, <3>4
    <2> QED
      BY <2>1, <2>2
  <1> QED
    BY <1>1, Invariance, PTL

(* What the observer shows never runs ahead of the work, and ends as all of it. *)
THEOREM ShownCorrect == Spec => []ShownIsHonest
  <1>1. IInv => ShownIsHonest
    <2> SUFFICES ASSUME IInv PROVE ShownIsHonest
      OBVIOUS
    <2>0. TypeOK /\ ShownInv /\ CountInv /\ PlanInv /\ S \in Nat \ {0} /\ MaxTitles \in Nat
      BY MetadataFetchAssumption DEF IInv
    <2>1. Cardinality(Counted) \in 0..S
      BY CountedType
    <2>2. /\ shown.completed \in 0..(S + MaxTitles) /\ completed \in 0..(S + MaxTitles)
          /\ title \in Nat /\ titles \in Nat /\ title <= titles
      BY <2>0 DEF TypeOK
    <2>3. Searched \in {title, title - 1}
      BY DEF Searched
    <2>4. shown.completed <= Cardinality(Counted) + title
      BY <2>0, <2>1, <2>2, <2>3 DEF ShownInv, CountInv
    <2>5. completed <= S + titles
      BY <2>0, <2>1, <2>2, <2>3 DEF CountInv
    <2>6. shown.completed <= shown.total
      BY <2>0, <2>2, <2>5 DEF ShownInv
    <2> QED
      BY <2>0, <2>4, <2>6 DEF ShownIsHonest, ShownInv, Counted
  <1> QED
    BY <1>1, Invariance, PTL

-----------------------------------------------------------------------------
(* A fetch comes to its end: the half of FetchReturns that needs no fairness. *)

(* How far a thread is, and the steps that all threads have yet to take.    *)
Reached(w) ==
  CASE w = "launched" -> 1 [] w = "starting" -> 2 [] w = "fetching" -> 3
    [] w = "fetched" -> 4 [] w = "counted" -> 5 [] w = "done" -> 6 [] OTHER -> 0
Pending == {a \in Server \X (1..6) : a[2] > Reached(worker[a[1]])}

(* The steps the caller has yet to take for the title search, at most.      *)
PerTitle == MaxVariants + 2
SearchLeft ==
  CASE pc \in {"launch", "join", "plan"} -> MaxTitles * PerTitle + 1
    [] pc = "titles" -> (titles - title) * PerTitle
    [] pc = "search" -> (titles - title) * PerTitle + spellings + 1
    [] OTHER -> 0

StepsLeft ==
  Cardinality(Pending) + (S - joined) + SearchLeft + (S - merged) + (IF pc = "returned" THEN 0 ELSE 1)

LEMMA PendingType == IsFiniteSet(Pending) /\ Cardinality(Pending) \in Nat
  <1>1. IsFiniteSet(Server \X (1..6))
    <2>1. IsFiniteSet(Server)
      BY CountedType
    <2>2. 1 \in Int /\ 6 \in Int
      OBVIOUS
    <2>3. IsFiniteSet(1..6)
      BY <2>2, FS_Interval, Zenon
    <2> QED
      BY <2>1, <2>3, FS_Product, Zenon
  <1>2. Pending \subseteq Server \X (1..6)
    BY DEF Pending
  <1> QED
    BY <1>1, <1>2, FS_Subset, FS_CardinalityType

(* A thread that takes one step has one less to take. *)
LEMMA OneLessPending ==
  ASSUME IInv, NEW s \in Server, Reached(worker[s]) + 1 \in 1..6,
         worker' = [worker EXCEPT ![s] = worker'[s]], Reached(worker'[s]) = Reached(worker[s]) + 1
  PROVE  Cardinality(Pending') = Cardinality(Pending) - 1
  <1> DEFINE k == Reached(worker[s]) + 1
  <1>1. Pending' = {a \in Server \X (1..6) : a[2] > Reached(worker'[a[1]])}
    BY DEF Pending
  <1>2. \A t \in Server : t # s => worker'[t] = worker[t]
    BY DEF IInv, TypeOK
  <1>3. ASSUME NEW a \in Server \X (1..6)
        PROVE  a[2] > Reached(worker'[a[1]]) <=> a[2] > Reached(worker[a[1]]) /\ a # <<s, k>>
    <2>1. CASE a[1] = s
      <3>1. a[2] \in 1..6 /\ a = <<s, a[2]>> /\ k \in 1..6 /\ k = Reached(worker[s]) + 1
        BY <2>1
      <3>2. Reached(worker[s]) \in Int
        BY DEF Reached
      <3> QED
        BY <2>1, <3>1, <3>2
    <2>2. CASE a[1] # s
      BY <1>2, <2>2
    <2> QED
      BY <2>1, <2>2
  <1>4. <<s, k>> \in Pending
    <2>1. Reached(worker[s]) \in Int /\ k \in 1..6
      BY DEF Reached
    <2> QED
      BY <2>1 DEF Pending
  <1>5. Pending' = Pending \ {<<s, k>>}
    BY <1>1, <1>3 DEF Pending
  <1> HIDE DEF k
  <1> QED
    BY <1>4, <1>5, PendingType, FS_RemoveElement

LEMMA SearchLeftType == ASSUME IInv PROVE SearchLeft \in Nat /\ PerTitle \in Nat
  <1>1. PerTitle \in Nat /\ MaxTitles \in Nat /\ titles \in Nat /\ title \in 0..titles /\ spellings \in Nat
    BY MetadataFetchAssumption DEF IInv, TypeOK, PerTitle
  <1>2. titles - title \in Nat
    BY <1>1
  <1>3. \A m, n \in Nat : m * n \in Nat
    OBVIOUS
  <1>4. MaxTitles * PerTitle \in Nat /\ (titles - title) * PerTitle \in Nat
    BY <1>1, <1>2, <1>3
  <1> HIDE DEF PerTitle
  <1> QED
    BY <1>1, <1>4 DEF SearchLeft

LEMMA SearchLeftTypeNext == ASSUME IInv' PROVE SearchLeft' \in Nat
  <1>1. /\ MaxTitles \in Nat /\ titles' \in Nat /\ title' \in 0..titles' /\ spellings' \in Nat
        /\ PerTitle \in Nat
    BY MetadataFetchAssumption DEF IInv, TypeOK, PerTitle
  <1>2. \A m, n \in Nat : m * n \in Nat
    OBVIOUS
  <1>3. \A m \in Nat : \A n \in 0..m : m - n \in Nat
    OBVIOUS
  <1>4. MaxTitles * PerTitle \in Nat /\ (titles' - title') * PerTitle \in Nat
    BY <1>1, <1>2, <1>3
  <1>5. \A m, n \in Nat : m + n + 1 \in Nat /\ m + 1 \in Nat
    OBVIOUS
  <1>6. (titles' - title') * PerTitle + spellings' + 1 \in Nat /\ MaxTitles * PerTitle + 1 \in Nat
    <2> DEFINE later == (titles' - title') * PerTitle
               most == MaxTitles * PerTitle
    <2> HIDE DEF later, most
    <2>1. later \in Nat /\ most \in Nat
      BY <1>4 DEF later, most
    <2>2. later + spellings' + 1 \in Nat /\ most + 1 \in Nat
      BY <1>1, <1>5, <2>1
    <2> QED
      BY <2>2 DEF later, most
  <1>7. SearchLeft' \in {MaxTitles * PerTitle + 1, (titles' - title') * PerTitle,
                         (titles' - title') * PerTitle + spellings' + 1, 0}
    BY DEF SearchLeft, PerTitle
  <1> QED
    BY <1>4, <1>6, <1>7

(* Numbers of steps are added and multiplied. *)
LEMMA OneTitleLess ==
  ASSUME NEW m \in Nat, NEW n \in Nat, m > n, NEW c \in Nat
  PROVE  (m - n) * c = (m - (n + 1)) * c + c
  <1>1. \A k \in Nat : (k + 1) * c = k * c + c
    OBVIOUS
  <1>2. m - (n + 1) \in Nat /\ (m - (n + 1)) + 1 = m - n
    OBVIOUS
  <1> QED
    BY <1>1, <1>2

LEMMA FewerTitles ==
  ASSUME NEW m \in Nat, NEW n \in 0..m, NEW c \in Nat
  PROVE  n * c <= m * c
  OBVIOUS

LEMMA LessInSum ==
  \A k, l, m, n \in Nat : m < n => k + m + l < k + n + l
  OBVIOUS

(* The caller and the threads do not go on forever. *)
LEMMA CallerLowers ==
  ASSUME IInv, Plan \/ BeginTitle \/ SearchTitle \/ EndTitle
  PROVE  SearchLeft' < SearchLeft /\ UNCHANGED <<worker, joined, merged>> /\ pc # "returned" /\ pc' # "returned"
  <1>1. /\ MaxTitles \in Nat /\ MaxVariants \in Nat \ {0} /\ titles \in 0..MaxTitles /\ title \in 0..titles
        /\ spellings \in Nat /\ PerTitle \in Nat /\ PerTitle = MaxVariants + 2 /\ SearchLeft \in Nat
    BY SearchLeftType, MetadataFetchAssumption DEF IInv, TypeOK, PerTitle
  <1>2. \A m \in Nat : m * PerTitle \in Nat
    BY <1>1
  <1> HIDE DEF PerTitle
  <1>3. CASE Plan
    <2>1. pc = "plan" /\ title = 0 /\ title' = title /\ UNCHANGED <<worker, joined, merged>>
      BY <1>3 DEF Plan, IInv, CountInv, output
    <2>2. titles' \in 0..MaxTitles /\ titles' \in Nat /\ titles' - title = titles'
      <3>1. titles' \in 0..MaxTitles
        BY <1>1, <1>3 DEF Plan, CandidateCounts
      <3>2. \A n \in 0..MaxTitles : n \in Nat /\ n - 0 = n
        BY <1>1
      <3> QED
        BY <2>1, <3>1, <3>2
    <2>3. SearchLeft = MaxTitles * PerTitle + 1
      BY <2>1 DEF SearchLeft
    <2>4. pc' = "merge" \/ pc' = "titles"
      BY <1>3 DEF Plan
    <2>5. CASE pc' = "merge"
      <3>1. SearchLeft' = 0
        BY <2>5 DEF SearchLeft
      <3> QED
        BY <1>1, <1>2, <2>1, <2>3, <2>5, <3>1
    <2>6. CASE pc' = "titles"
      <3>1. SearchLeft' = (titles' - title') * PerTitle
        BY <2>6 DEF SearchLeft, PerTitle
      <3>2. titles' - title' = titles' /\ titles' \in Nat
        BY <2>1, <2>2, Zenon
      <3>3. titles' * PerTitle <= MaxTitles * PerTitle
        BY <1>1, <2>2, FewerTitles
      <3>4. titles' * PerTitle \in Nat /\ MaxTitles * PerTitle \in Nat
        BY <1>1, <1>2, <3>2
      <3> QED
        BY <2>1, <2>3, <2>6, <3>1, <3>2, <3>3, <3>4
    <2> QED
      BY <2>4, <2>5, <2>6
  <1>4. CASE BeginTitle
    <2>1. /\ pc = "titles" /\ pc' = "search" /\ title' = title + 1 /\ titles' = titles /\ title < titles
          /\ spellings' \in 1..MaxVariants /\ UNCHANGED <<worker, joined, merged>>
      BY <1>4 DEF BeginTitle, IInv, PlanInv, SpellingCounts, output
    <2>0. spellings' \in Nat /\ spellings' <= MaxVariants
      BY <1>1, <2>1
    <2>2. SearchLeft = (titles - title) * PerTitle
      BY <2>1 DEF SearchLeft
    <2>3. SearchLeft' = (titles - (title + 1)) * PerTitle + spellings' + 1
      BY <2>1 DEF SearchLeft, PerTitle
    <2>4. titles \in Nat /\ title \in Nat /\ titles > title
      BY <1>1, <2>1
    <2>5. (titles - title) * PerTitle = (titles - (title + 1)) * PerTitle + PerTitle
      BY <1>1, <2>4, OneTitleLess
    <2>6. (titles - (title + 1)) * PerTitle \in Nat
      BY <1>1, <1>2, <2>4
    <2> DEFINE later == (titles - (title + 1)) * PerTitle
    <2>7. later \in Nat /\ SearchLeft = later + PerTitle /\ SearchLeft' = later + spellings' + 1
      BY <2>2, <2>3, <2>5, <2>6
    <2> HIDE DEF later
    <2>8. later + spellings' + 1 < later + PerTitle
      <3>1. \A m \in Nat : m <= MaxVariants => later + m + 1 < later + PerTitle
        BY <1>1, <2>7
      <3> QED
        BY <2>0, <3>1
    <2>9. SearchLeft' < SearchLeft
      BY <2>7, <2>8
    <2> QED
      BY <2>1, <2>9
  <1>5. CASE SearchTitle
    <2>1. /\ pc = "search" /\ pc' = "search" /\ title' = title /\ titles' = titles
          /\ spellings > 0 /\ spellings' \in {spellings - 1, 0} /\ UNCHANGED <<worker, joined, merged>>
      BY <1>5 DEF SearchTitle, output
    <2>0. spellings' \in Nat /\ spellings' < spellings
      BY <1>1, <2>1
    <2>2. SearchLeft = (titles - title) * PerTitle + spellings + 1
      BY <2>1 DEF SearchLeft
    <2>3. SearchLeft' = (titles - title) * PerTitle + spellings' + 1
      BY <2>1 DEF SearchLeft, PerTitle
    <2>4. (titles - title) * PerTitle \in Nat
      BY <1>1, <1>2
    <2> DEFINE later == (titles - title) * PerTitle
    <2>5. later \in Nat /\ SearchLeft = later + spellings + 1 /\ SearchLeft' = later + spellings' + 1
      BY <2>2, <2>3, <2>4
    <2> HIDE DEF later
    <2>6. later + spellings' + 1 < later + spellings + 1
      <3>1. 1 \in Nat
        OBVIOUS
      <3> QED
        BY <1>1, <2>0, <2>5, <3>1, LessInSum
    <2>7. SearchLeft' < SearchLeft
      BY <2>5, <2>6
    <2> QED
      BY <2>1, <2>7
  <1>6. CASE EndTitle
    <2>1. /\ pc = "search" /\ spellings = 0 /\ title' = title /\ titles' = titles
          /\ pc' \in {"merge", "titles"} /\ UNCHANGED <<worker, joined, merged>>
      BY <1>6 DEF EndTitle, search, output
    <2>2. SearchLeft = (titles - title) * PerTitle + spellings + 1
      BY <2>1 DEF SearchLeft
    <2>3. SearchLeft' \in {(titles - title) * PerTitle, 0}
      BY <2>1 DEF SearchLeft, PerTitle
    <2>4. (titles - title) * PerTitle \in Nat
      BY <1>1, <1>2
    <2> QED
      BY <1>1, <2>1, <2>2, <2>3, <2>4
  <1> QED
    BY <1>3, <1>4, <1>5, <1>6

LEMMA StepLowers ==
  ASSUME IInv, Next
  PROVE  StepsLeft' < StepsLeft
  <1> DEFINE pending == Cardinality(Pending)
             tail == IF pc = "returned" THEN 0 ELSE 1
             others == (S - joined) + (S - merged)
  <1>1. S \in Nat /\ pending \in Nat /\ SearchLeft \in Nat /\ joined \in 0..S /\ merged \in 0..S
    BY PendingType, SearchLeftType, MetadataFetchAssumption DEF IInv, TypeOK
  <1>2. others \in Nat /\ tail \in 0..1
    BY <1>1
  <1>3. StepsLeft = pending + others + SearchLeft + tail
    BY <1>1 DEF StepsLeft
  <1>4. CASE (\E s \in Server : Worker(s)) \/ Launch
    <2>1. PICK s \in Server :
            /\ Reached(worker[s]) + 1 \in 1..6 /\ worker' = [worker EXCEPT ![s] = worker'[s]]
            /\ Reached(worker'[s]) = Reached(worker[s]) + 1
      <3>1. CASE Launch
        <4>1. PICK x \in Server : worker[x] = "new" /\ worker' = [worker EXCEPT ![x] = "launched"]
          BY <3>1 DEF Launch
        <4>2. worker'[x] = "launched"
          BY <4>1 DEF IInv, TypeOK
        <4>3. Reached(worker[x]) = 0 /\ Reached(worker'[x]) = 1
          BY <4>1, <4>2 DEF Reached
        <4> QED
          <5>1. Reached(worker[x]) + 1 \in 1..6 /\ Reached(worker'[x]) = Reached(worker[x]) + 1
            BY <4>3
          <5>2. worker' = [worker EXCEPT ![x] = worker'[x]]
            BY <4>1, <4>2
          <5> QED
            BY <4>1, <5>1, <5>2
      <3>2. CASE \E x \in Server : Worker(x)
        <4>1. PICK x \in Server : Worker(x)
          BY <3>2
        <4>2. worker' = [worker EXCEPT ![x] = worker'[x]]
          BY <4>1, WorkerStep
        <4>3. \/ worker[x] = "launched" /\ worker'[x] = "starting"
              \/ worker[x] = "starting" /\ worker'[x] = "fetching"
              \/ worker[x] = "fetching" /\ worker'[x] = "fetched"
              \/ worker[x] = "fetched" /\ worker'[x] = "counted"
              \/ worker[x] = "counted" /\ worker'[x] = "done"
          BY <4>1 DEF Worker, Start, Report, Fetch, Count, IInv, TypeOK
        <4>4. Reached(worker[x]) + 1 \in 1..6 /\ Reached(worker'[x]) = Reached(worker[x]) + 1
          BY <4>3 DEF Reached
        <4> QED
          BY <4>2, <4>4
      <3> QED
        BY <1>4, <3>1, <3>2
    <2>2. pending' = pending - 1
      BY <2>1, OneLessPending
    <2>3. joined' = joined /\ merged' = merged /\ SearchLeft' = SearchLeft /\ tail' = tail
      <3>1. CASE Launch
        BY <3>1 DEF Launch, SearchLeft, PerTitle, search, output
      <3>2. CASE \E x \in Server : Worker(x)
        BY <3>2, WorkerStep DEF SearchLeft, PerTitle, search, output
      <3> QED
        BY <1>4, <3>1, <3>2
    <2>4. StepsLeft' = pending' + others + SearchLeft + tail
      BY <1>1, <2>2, <2>3 DEF StepsLeft
    <2> HIDE DEF pending, others, tail
    <2> QED
      BY <1>1, <1>2, <1>3, <2>2, <2>4
  <1>5. CASE Join \/ MergeServer \/ Return
    <2>1. worker' = worker /\ pending' = pending
      BY <1>5 DEF Join, MergeServer, Return, Pending
    <2>2. CASE Join
      <3>1. joined' = joined + 1 /\ merged' = merged /\ joined < S /\ pc = "join" /\ pc' \in {"plan", "join"}
        BY <2>2 DEF Join, output, IInv, JoinInv
      <3>2. SearchLeft' = SearchLeft /\ tail' = tail
        BY <2>2, <3>1 DEF Join, SearchLeft, PerTitle, search
      <3>3. others' = others - 1
        BY <1>1, <3>1
      <3>4. StepsLeft' = pending + (others - 1) + SearchLeft + tail
        BY <1>1, <2>1, <3>1, <3>2 DEF StepsLeft
      <3> HIDE DEF pending, others, tail
      <3> QED
        BY <1>1, <1>2, <1>3, <3>4
    <2>3. CASE MergeServer
      <3>1. joined' = joined /\ merged' = merged + 1 /\ merged < S /\ pc' = pc
        BY <2>3 DEF MergeServer
      <3>2. SearchLeft' = SearchLeft /\ tail' = tail
        BY <2>3, <3>1 DEF MergeServer, SearchLeft, PerTitle, search
      <3>3. StepsLeft' = pending + (others - 1) + SearchLeft + tail
        BY <1>1, <2>1, <3>1, <3>2 DEF StepsLeft
      <3> HIDE DEF pending, others, tail
      <3> QED
        BY <1>1, <1>2, <1>3, <3>3
    <2>4. CASE Return
      <3>1. joined' = joined /\ merged' = merged /\ tail = 1 /\ tail' = 0
        BY <2>4 DEF Return
      <3>2. SearchLeft' = SearchLeft
        BY <2>4 DEF Return, SearchLeft
      <3>3. StepsLeft' = pending + others + SearchLeft + 0
        BY <1>1, <2>1, <3>1, <3>2 DEF StepsLeft
      <3> HIDE DEF pending, others, tail
      <3> QED
        BY <1>1, <1>2, <1>3, <3>1, <3>3
    <2> QED
      BY <1>5, <2>2, <2>3, <2>4
  <1>6. CASE Plan \/ BeginTitle \/ SearchTitle \/ EndTitle
    <2>1. SearchLeft' \in Nat
      <3>1. IInv'
        BY <1>6, NextInv DEF Next, Caller
      <3> QED
        BY <3>1, SearchLeftTypeNext
    <2>2. SearchLeft' < SearchLeft /\ UNCHANGED <<worker, joined, merged>> /\ tail' = tail
      BY <1>6, CallerLowers
    <2>3. pending' = pending
      BY <2>2 DEF Pending
    <2>4. StepsLeft' = pending + (S - joined) + SearchLeft' + (S - merged) + tail
      BY <2>2, <2>3 DEF StepsLeft
    <2>5. StepsLeft = pending + (S - joined) + SearchLeft + (S - merged) + tail
      BY DEF StepsLeft
    <2> DEFINE k == pending + (S - joined)
               l == S - merged
    <2>6. k \in Nat /\ l \in Nat
      BY <1>1
    <2> HIDE DEF pending, tail, k, l
    <2>7. k + SearchLeft' + l < k + SearchLeft + l
      BY <1>1, <2>1, <2>2, <2>6, LessInSum
    <2>8. k + SearchLeft' + l \in Nat /\ k + SearchLeft + l \in Nat
      <3>1. \A m \in Nat : k + m + l \in Nat
        BY <2>6
      <3> QED
        BY <1>1, <2>1, <3>1
    <2>9. (k + SearchLeft' + l) + tail < (k + SearchLeft + l) + tail
      <3>1. \A m, n \in Nat : m < n => m + tail < n + tail
        BY <1>2
      <3> QED
        BY <2>7, <2>8, <3>1
    <2> QED
      BY <2>4, <2>5, <2>9 DEF k, l
  <1> QED
    BY <1>4, <1>5, <1>6 DEF Next, Caller

(* However many servers, titles and spellings there are, a fetch has finitely many steps:   *)
(* every one of them, of a thread or of the caller, leaves fewer to take.                   *)
THEOREM FetchRunsOut == Spec => [](StepsLeft \in Nat) /\ [][StepsLeft' < StepsLeft]_vars
  <1>1. ASSUME IInv PROVE StepsLeft \in Nat
    <2>1. Cardinality(Pending) \in Nat /\ SearchLeft \in Nat
      BY <1>1, PendingType, SearchLeftType DEF IInv
    <2>2. S \in Nat /\ joined \in 0..S /\ merged \in 0..S
      BY <1>1, MetadataFetchAssumption DEF IInv, TypeOK
    <2>3. S - joined \in Nat /\ S - merged \in Nat
      BY <2>2
    <2> QED
      BY <2>1, <2>3 DEF StepsLeft
  <1>2. IInv /\ [Next]_vars => [StepsLeft' < StepsLeft]_vars
    BY StepLowers
  <1> QED
    BY <1>1, <1>2, Invariance, PTL DEF Spec

(* The threads that were launched; the last of them ends the launching. *)
LaunchInv ==
  /\ pc = "launch" => worker[S] = "new"
  /\ pc # "launch" => \A s \in Server : worker[s] # "new"

(* Who can go on: a thread that is under way, or the caller, who waits only for a thread   *)
(* that was launched.                                                                      *)
SomeoneCanGoOn ==
  \/ \E s \in Server : worker[s] \in {"launched", "starting", "fetching", "fetched", "counted"}
  \/ pc = "launch" /\ \E s \in Server : worker[s] = "new" /\ \A t \in 1..(s - 1) : worker[t] # "new"
  \/ pc = "join" /\ worker[joined + 1] = "done"
  \/ pc \in {"plan", "titles", "search", "merge"}

(* No thread and no caller waits for another that waits as well: until the fetch returns   *)
(* there is one that can go on.                                                            *)
THEOREM FetchIsNeverStuck == Spec => [](pc = "returned" \/ SomeoneCanGoOn)
  <1>1. S \in Nat \ {0} /\ S \in Server
    BY MetadataFetchAssumption DEF Server
  <1>2. Init => LaunchInv
    BY <1>1 DEF Init, LaunchInv
  <1>3. ASSUME IInv, LaunchInv, [Next]_vars PROVE LaunchInv'
    <2>1. worker \in [Server -> {"new", "launched", "starting", "fetching", "fetched", "counted", "done"}]
      BY <1>3 DEF IInv, TypeOK
    <2>2. CASE Launch
      <3>1. PICK s \in Server :
              /\ \A t \in 1..(s - 1) : worker[t] # "new"
              /\ worker' = [worker EXCEPT ![s] = "launched"]
              /\ pc' = IF s = S THEN "join" ELSE "launch"
        BY <2>2 DEF Launch
      <3>2. pc = "launch" /\ worker[S] = "new"
        BY <1>3, <2>2 DEF Launch, LaunchInv
      <3>3. CASE s = S
        <4>1. \A t \in Server : t = S \/ t \in 1..(S - 1)
          BY <1>1 DEF Server
        <4> QED
          BY <2>1, <3>1, <3>3, <4>1 DEF LaunchInv
      <3>4. CASE s # S
        BY <1>1, <2>1, <3>1, <3>2, <3>4 DEF LaunchInv
      <3> QED
        BY <3>3, <3>4
    <2>3. CASE \E s \in Server : Worker(s)
      <3>1. PICK s \in Server : Worker(s)
        BY <2>3
      <3>2. pc' = pc /\ worker[s] # "new" /\ worker'[s] # "new" /\ worker' = [worker EXCEPT ![s] = worker'[s]]
        BY <1>3, <3>1, WorkerStep DEF Worker, Start, Report, Fetch, Count
      <3> QED
        BY <1>1, <1>3, <2>1, <3>2 DEF LaunchInv
    <2>4. CASE Join \/ Plan \/ BeginTitle \/ SearchTitle \/ EndTitle \/ MergeServer \/ Return
      <3>1. worker' = worker /\ pc # "launch" /\ pc' # "launch"
        BY <2>4 DEF Join, Plan, BeginTitle, SearchTitle, EndTitle, MergeServer, Return
      <3> QED
        BY <1>3, <3>1 DEF LaunchInv
    <2>5. CASE UNCHANGED vars
      BY <1>3, <2>5 DEF vars, LaunchInv
    <2> QED
      BY <1>3, <2>2, <2>3, <2>4, <2>5 DEF Next, Caller
  <1>4. ASSUME IInv, LaunchInv PROVE pc = "returned" \/ SomeoneCanGoOn
    <2>1. /\ worker \in [Server -> {"new", "launched", "starting", "fetching", "fetched", "counted", "done"}]
          /\ pc \in {"launch", "join", "plan", "titles", "search", "merge", "returned"}
          /\ joined \in 0..S /\ merged \in 0..S
      BY <1>4 DEF IInv, TypeOK
    <2>2. CASE pc = "launch"
      <3> DEFINE New == {s \in Server : worker[s] = "new"}
      <3>1. New # {} /\ New \in SUBSET Nat
        BY <1>1, <1>4, <2>2 DEF LaunchInv, Server
      <3>2. Min(New) \in New /\ \A s \in New : Min(New) <= s
        <4> HIDE DEF New
        <4> QED
          BY <3>1, MinIsLeast
      <3>3. ASSUME NEW t \in 1..(Min(New) - 1) PROVE worker[t] # "new"
        <4> DEFINE m == Min(New)
        <4>1. m \in Server /\ m \in 1..S
          BY <3>2 DEF Server
        <4> HIDE DEF m
        <4>2. \A k \in 1..(m - 1) : k \in 1..S /\ ~(m <= k)
          BY <1>1, <4>1
        <4>3. t \in 1..S /\ ~(m <= t)
          BY <4>2 DEF m
        <4> QED
          BY <3>2, <4>3 DEF m, Server
      <3> QED
        BY <2>2, <3>2, <3>3 DEF SomeoneCanGoOn
    <2>3. CASE pc = "join"
      <3>1. joined + 1 \in Server
        BY <1>1, <1>4, <2>1, <2>3 DEF IInv, JoinInv, Server
      <3>2. worker[joined + 1] # "new"
        BY <1>4, <2>3, <3>1 DEF LaunchInv
      <3> QED
        BY <2>1, <2>3, <3>1, <3>2 DEF SomeoneCanGoOn
    <2> QED
      BY <1>1, <2>1, <2>2, <2>3 DEF SomeoneCanGoOn
  <1> QED
    BY <1>2, <1>3, <1>4, Invariance, PTL DEF Spec

=============================================================================
