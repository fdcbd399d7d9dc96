--------------------------- MODULE MetadataFetch ---------------------------
(***************************************************************************)
(* Asking the configured servers for the tags of a disc:                   *)
(* cdrip_fetch_cddb_entries (src/src/cdrip/cddb_entries.cpp) and the       *)
(* activity snapshot its caller shows (ActivitySpinner, src/src/main.cpp). *)
(*                                                                         *)
(* Every server is asked by a thread of its own; the threads count         *)
(* themselves and report to the caller's observer.  The caller joins them  *)
(* in the order of the servers, searches MusicBrainz for the album titles  *)
(* the CDDB servers gave, and merges all answers into one list.            *)
(*                                                                         *)
(* An entry is who found it and the release it stands for.                 *)
(***************************************************************************)
EXTENDS Naturals, Sequences, FiniteSets, FiniteSetsExt, SequencesExt

CONSTANTS
  S,           \* number of servers
  Keys,        \* MusicBrainz releases
  NoKey,       \* the key of an entry without release and medium id
  MaxTitles,   \* bound: album titles extracted from the CDDB entries
  MaxVariants, \* bound: spellings of one title
  MaxFinds     \* bound: new releases in the answer to a spelling

Server == 1..S
Search == S + 1      \* the title search, as the finder of an entry
Entry == [from: Server \cup {Search}, key: Keys \cup {NoKey}]
Switch == {"on", "off"}

ASSUME MetadataFetchAssumption ==
  /\ S \in Nat \ {0} /\ MaxTitles \in Nat /\ MaxVariants \in Nat \ {0} /\ MaxFinds \in Nat
  /\ NoKey \notin Keys

VARIABLES
  musicbrainz,  \* the servers labelled "musicbrainz"
  recrawl,      \* allow_recrawl: -nr turns it off
  worker,       \* where the thread of each server is
  report,       \* the count its next report will carry
  answer,       \* what its fetch returned
  completed,    \* completed_sources
  shown,        \* the observer's snapshot
  pc,           \* where the caller is
  joined,       \* futures the caller has got so far
  gathered,     \* per_server: their results
  titles,       \* candidates: how many titles
  title,        \* the title being searched
  spellings,    \* variants left to try for it
  found,        \* what the title search has appended to the first MusicBrainz server
  titleError,   \* mb_title_err
  merged,       \* servers merged so far
  list,         \* the merged entries
  error         \* the reported error: a finder, or 0

search == <<titles, title, spellings, found, titleError>>
output == <<merged, list, error>>
config == <<musicbrainz, recrawl>>
vars == <<config, worker, report, answer, completed, shown, pc, joined, gathered, search, output>>

Result == [entries: Seq(Entry), failed: BOOLEAN]
Failed == [entries |-> <<>>, failed |-> TRUE]
Answer(entries) == [entries |-> entries, failed |-> FALSE]

(* What a server can answer.  A failed fetch has no entries. *)
MusicBrainzAnswers(s) ==
  {Failed, Answer(<<>>)} \cup {Answer(<<[from |-> s, key |-> k]>>) : k \in Keys \cup {NoKey}}
CddbAnswers(s) ==
  {Failed, Answer(<<>>), Answer(<<[from |-> s, key |-> NoKey]>>)}

Init ==
  /\ musicbrainz \in SUBSET Server
  /\ recrawl \in Switch
  /\ worker = [s \in Server |-> "new"]
  /\ report = [s \in Server |-> 0]
  /\ answer = [s \in Server |-> Answer(<<>>)]
  /\ completed = 0
  /\ shown = [completed |-> 0, total |-> S]
  /\ pc = "launch" /\ joined = 0 /\ gathered = <<>>
  /\ titles = 0 /\ title = 0 /\ spellings = 0 /\ found = <<>> /\ titleError = FALSE
  /\ merged = 0 /\ list = <<>> /\ error = 0

-----------------------------------------------------------------------------
(* The thread of a server. *)

Start(s) ==
  /\ worker[s] = "launched"
  /\ worker' = [worker EXCEPT ![s] = "starting"]
  /\ report' = [report EXCEPT ![s] = completed]
  /\ UNCHANGED <<config, answer, completed, shown, pc, joined, gathered, search, output>>

(* A report is made from a count that was read earlier. *)
Report(s, before, after, total) ==
  /\ worker[s] = before
  /\ worker' = [worker EXCEPT ![s] = after]
  /\ shown' = [completed |-> report[s], total |-> total]
  /\ UNCHANGED <<config, report, answer, completed, pc, joined, gathered, search, output>>

Fetch(s) ==
  /\ worker[s] = "fetching"
  /\ worker' = [worker EXCEPT ![s] = "fetched"]
  /\ \E a \in IF s \in musicbrainz THEN MusicBrainzAnswers(s) ELSE CddbAnswers(s) :
       answer' = [answer EXCEPT ![s] = a]
  /\ UNCHANGED <<config, report, completed, shown, pc, joined, gathered, search, output>>

(* Mutant: the increment is a load and a store. *)
CountStale(s) ==
  /\ worker[s] = "fetched"
  /\ worker' = [worker EXCEPT ![s] = "counted"]
  /\ completed' = report[s] + 1
  /\ report' = [report EXCEPT ![s] = completed']
  /\ UNCHANGED <<config, answer, shown, pc, joined, gathered, search, output>>

(* Mutant: an exception leaves the thread. *)
CountIfFetched(s) ==
  /\ worker[s] = "fetched"
  /\ ~answer[s].failed
  /\ worker' = [worker EXCEPT ![s] = "counted"]
  /\ completed' = completed + 1
  /\ report' = [report EXCEPT ![s] = completed']
  /\ UNCHANGED <<config, answer, shown, pc, joined, gathered, search, output>>

(* fetch_add, whether the fetch went well or not. *)
Count(s) ==
  /\ worker[s] = "fetched"
  /\ worker' = [worker EXCEPT ![s] = "counted"]
  /\ completed' = completed + 1
  /\ report' = [report EXCEPT ![s] = completed']
  /\ UNCHANGED <<config, answer, shown, pc, joined, gathered, search, output>>

Worker(s) ==
  \/ Start(s) \/ Report(s, "starting", "fetching", S)
  \/ Fetch(s) \/ Count(s) \/ Report(s, "counted", "done", S)

-----------------------------------------------------------------------------
(* The caller. *)

Launch ==
  /\ pc = "launch"
  /\ \E s \in Server :
       /\ worker[s] = "new" /\ \A t \in 1..(s - 1) : worker[t] # "new"
       /\ worker' = [worker EXCEPT ![s] = "launched"]
       /\ pc' = IF s = S THEN "join" ELSE "launch"
  /\ UNCHANGED <<config, report, answer, completed, shown, joined, gathered, search, output>>

(* Mutant: whichever thread is done is joined next. *)
JoinAnyOrder ==
  /\ pc = "join"
  /\ \E s \in Server :
       /\ worker[s] = "done"
       /\ worker' = [worker EXCEPT ![s] = "joined"]
       /\ gathered' = Append(gathered, answer[s])
  /\ joined' = joined + 1
  /\ pc' = IF joined' = S THEN "plan" ELSE "join"
  /\ UNCHANGED <<config, report, answer, completed, shown, search, output>>

(* The futures, in the order of the servers. *)
Join ==
  /\ pc = "join"
  /\ worker[joined + 1] = "done"
  /\ joined' = joined + 1
  /\ gathered' = Append(gathered, answer[joined'])
  /\ pc' = IF joined' = S THEN "plan" ELSE "join"
  /\ UNCHANGED <<config, worker, report, answer, completed, shown, search, output>>

FirstMusicBrainz == Min(musicbrainz)
CddbEntries == UNION {ToSet(gathered[s].entries) : s \in Server \ musicbrainz}
MusicBrainzEntries == UNION {ToSet(gathered[s].entries) : s \in musicbrainz}

(* Mutant: -nr is not looked at. *)
ShouldRecrawlAlways == musicbrainz # {} /\ CddbEntries # {}

(* Titles are searched if there are any, and if that is allowed or          *)
(* MusicBrainz, which is among the servers, has nothing.                    *)
ShouldRecrawl ==
  musicbrainz # {} /\ CddbEntries # {} /\ (recrawl = "on" \/ MusicBrainzEntries = {})

(* How many candidates the titles of the CDDB entries can make: similar     *)
(* ones make one, short ones none.                                          *)
CandidateCounts == {n \in 0..MaxTitles : n <= Cardinality(CddbEntries)}

(* How many spellings a candidate has, its own at least. *)
SpellingCounts == 1..MaxVariants

(* Unless the search is due there are no candidates. *)
Plan ==
  /\ pc = "plan"
  /\ titles' \in IF ShouldRecrawl THEN CandidateCounts ELSE {0}
  /\ pc' = IF titles' = 0 THEN "merge" ELSE "titles"
  /\ UNCHANGED <<config, worker, report, answer, completed, shown, joined, gathered,
                 title, spellings, found, titleError, output>>

BeginTitle ==
  /\ pc = "titles"
  /\ title' = title + 1
  /\ spellings' \in SpellingCounts
  /\ shown' = [completed |-> completed, total |-> S + titles]
  /\ pc' = "search"
  /\ UNCHANGED <<config, worker, report, answer, completed, joined, gathered, titles, found, titleError, output>>

(* Mutant: only what the server listed is remembered. *)
SeenKeysOfServer == {e.key : e \in ToSet(gathered[FirstMusicBrainz].entries)} \ {NoKey}

(* seen_mb_keys: the releases the first MusicBrainz server or the search    *)
(* has listed.                                                              *)
SeenKeys == {e.key : e \in ToSet(gathered[FirstMusicBrainz].entries \o found)} \ {NoKey}

(* What an answer of MusicBrainz to a title leaves when the releases seen   *)
(* before, and those it has twice, are dropped.  Without a key an entry is  *)
(* never known to have been seen.                                           *)
Finds ==
  {keys \in UNION {[1..n -> (Keys \cup {NoKey}) \ SeenKeys] : n \in 0..MaxFinds} :
     \A i, j \in DOMAIN keys : keys[i] = keys[j] /\ keys[i] # NoKey => i = j}

(* One spelling is searched; the first that adds something is the last. *)
SearchTitle ==
  /\ pc = "search"
  /\ spellings > 0
  /\ \/ titleError' = TRUE /\ spellings' = spellings - 1 /\ UNCHANGED found
     \/ \E keys \in Finds :
          /\ found' = found \o [i \in DOMAIN keys |-> [from |-> Search, key |-> keys[i]]]
          /\ spellings' = IF keys = <<>> THEN spellings - 1 ELSE 0
          /\ UNCHANGED titleError
  /\ UNCHANGED <<config, worker, report, answer, completed, shown, pc, joined, gathered, titles, title, output>>

EndTitle ==
  /\ pc = "search"
  /\ spellings = 0
  /\ completed' = completed + 1
  /\ shown' = [completed |-> completed', total |-> S + titles]
  /\ pc' = IF title = titles THEN "merge" ELSE "titles"
  /\ UNCHANGED <<config, worker, report, answer, joined, gathered, search, output>>

Listed(s) ==
  IF s \in musicbrainz /\ s = FirstMusicBrainz THEN gathered[s].entries \o found ELSE gathered[s].entries

(* Mutant: the last error wins. *)
SetLastError(old, new) == IF new = 0 THEN old ELSE new

(* set_error keeps what it was given first. *)
SetError(old, new) == IF old = 0 THEN new ELSE old

MergeServer ==
  /\ pc = "merge" /\ merged < S
  /\ merged' = merged + 1
  /\ list' = list \o Listed(merged')
  /\ error' = SetError(error, IF gathered[merged'].failed THEN merged' ELSE 0)
  /\ UNCHANGED <<config, worker, report, answer, completed, shown, pc, joined, gathered, search>>

Return ==
  /\ pc = "merge" /\ merged = S
  /\ error' = SetError(error, IF titleError THEN Search ELSE 0)
  /\ shown' = [completed |-> completed, total |-> completed]
  /\ pc' = "returned"
  /\ UNCHANGED <<config, worker, report, answer, completed, joined, gathered, search, merged, list>>

Caller == Launch \/ Join \/ Plan \/ BeginTitle \/ SearchTitle \/ EndTitle
          \/ MergeServer \/ Return

Next == Caller \/ \E s \in Server : Worker(s)

Spec == Init /\ [][Next]_vars

(* Threads run, and every request is answered or times out. *)
FairSpec == Spec /\ WF_vars(Caller) /\ \A s \in Server : WF_vars(Worker(s))

-----------------------------------------------------------------------------

TypeOK ==
  /\ musicbrainz \subseteq Server /\ recrawl \in Switch
  /\ worker \in [Server -> {"new", "launched", "starting", "fetching", "fetched", "counted", "done"}]
  /\ report \in [Server -> 0..S]
  /\ answer \in [Server -> Result]
  /\ completed \in 0..(S + MaxTitles)
  /\ shown \in [completed: 0..(S + MaxTitles), total: 0..(S + MaxTitles)]
  /\ pc \in {"launch", "join", "plan", "titles", "search", "merge", "returned"}
  /\ joined \in 0..S /\ gathered \in Seq(Result)
  /\ titles \in 0..MaxTitles /\ title \in 0..titles /\ spellings \in 0..MaxVariants
  /\ found \in Seq(Entry) /\ titleError \in BOOLEAN
  /\ merged \in 0..S /\ list \in Seq(Entry) /\ error \in 0..Search

(* Where an entry belongs: at its server, what the search found at the      *)
(* first MusicBrainz server.                                                *)
Rank(e) == IF e.from = Search THEN FirstMusicBrainz ELSE e.from

(* The entries of a finder are one piece of the list. *)
IsPieceOf(l, s, entries) ==
  \E k \in 0..Len(l) :
    /\ \A i \in DOMAIN l : l[i].from = s <=> i \in (k + 1)..(k + Len(entries))
    /\ \A i \in DOMAIN entries : k + i \in DOMAIN l /\ l[k + i] = entries[i]

(* In whatever order the answers came, the list is in the order of the      *)
(* servers, has all their entries, and the user's choice by number means    *)
(* the same every time.                                                     *)
ListedInServerOrder ==
  pc = "returned" =>
    /\ \A i, j \in DOMAIN list : i < j => Rank(list[i]) <= Rank(list[j])
    /\ \A s \in Server \cup {Search} : IsPieceOf(list, s, IF s = Search THEN found ELSE answer[s].entries)

(* The reported error is that of the first failing server, of the title     *)
(* search only if no server failed, and there is one only if something      *)
(* failed.                                                                  *)
ErrorIsTheFirst ==
  pc = "returned" =>
    /\ error \in Server => answer[error].failed
    /\ \A s \in Server : answer[s].failed => error \in 1..s
    /\ error = Search => titleError

(* The title search lists no release that the first MusicBrainz server or   *)
(* an earlier title has already listed.                                     *)
NoReleaseFoundTwice ==
  \A i \in DOMAIN found :
    found[i].key # NoKey =>
      /\ \A j \in DOMAIN found : found[j].key = found[i].key => j = i
      /\ \A e \in ToSet(answer[FirstMusicBrainz].entries) : e.key # found[i].key

(* Titles are searched only for a disc that CDDB knows, and with -nr only   *)
(* if no MusicBrainz server, however late, has an entry.  By then no thread *)
(* is left that could answer, or report to an observer of a caller that has *)
(* gone.                                                                    *)
SearchOnlyWhenDue ==
  /\ pc \in {"titles", "search", "merge", "returned"} => \A s \in Server : worker[s] = "done"
  /\ pc \in {"titles", "search"} =>
       /\ \E s \in Server \ musicbrainz : answer[s].entries # <<>>
       /\ recrawl = "on" \/ \A s \in musicbrainz : answer[s].entries = <<>>

(* What the user sees never runs ahead of the work, and ends as all of it. *)
ShownIsHonest ==
  /\ shown.completed <= shown.total
  /\ shown.completed <= Cardinality({s \in Server : worker[s] \in {"counted", "done"}}) + title
  /\ pc = "returned" => shown = [completed |-> S + titles, total |-> S + titles]

(* Every fetch returns. *)
FetchReturns == <>(pc = "returned")
=============================================================================
