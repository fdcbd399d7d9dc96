-------------------------- MODULE UpdateModeProofs --------------------------
(***************************************************************************)
(* The safety of UpdateMode for any number of files, discs, releases and   *)
(* entries, and any numbers typed.                                         *)
(*                                                                         *)
(* The inductive invariant IInv says what the cache holds under the key of *)
(* a disc, that every key the servers were asked for has an answer in it,  *)
(* and how the menu, the numbers picked and the entries selected hang      *)
(* together while a file is dealt with.                                    *)
(***************************************************************************)
EXTENDS UpdateMode, FiniteSetTheorems, SequenceTheorems, WellFoundedInduction, TLAPS

AtFile == {"offer", "choose", "update"}

(* Every MusicBrainz entry of l is of disc d. *)
IsOfDisc(l, d) == \A i \in DOMAIN l : l[i].source = "musicbrainz" => l[i].disc = d

(* What is cached for a disc is of that disc. *)
CacheInv == \A d \in Disc : cache[<<"discid", d>>] # <<>> => IsOfDisc(cache[<<"discid", d>>][1], d)

(* Whatever was asked for is in the cache. *)
AskedInv == \A k \in CacheKeys : asked[k] = 0 \/ (asked[k] = 1 /\ cache[k] # <<>>)

(* The file at hand, and what it is offered. *)
OfferInv ==
  pc \in AtFile => items # <<>> /\ (Toc.linked => IsOfDisc(list, Toc.disc))

(* The menu shows the list in its order, and the entries selected are those of the lines picked. *)
MenuInv ==
  /\ pc \in {"choose", "update"} =>
       order # <<>> /\ order \in Seq(DOMAIN list) /\ menu = [i \in DOMAIN order |-> list[order[i]]]
  /\ pc = "update" =>
       /\ picked # <<>> /\ picked \in Seq(DOMAIN menu)
       /\ selected = [i \in DOMAIN picked |-> menu[picked[i]]]

IInv == TypeOK /\ CacheInv /\ AskedInv /\ OfferInv /\ MenuInv

-----------------------------------------------------------------------------
(* Sequences and sets. *)

(* A function on 1..n is a sequence. *)
LEMMA FunctionIsSeq ==
  ASSUME NEW S, NEW n \in Nat, NEW f \in [1..n -> S]
  PROVE  f \in Seq(S) /\ Len(f) = n /\ DOMAIN f = 1..n
  OBVIOUS

(* The sequences of a set's elements. *)
LEMMA PermutationIsSeq ==
  ASSUME NEW S, IsFiniteSet(S), NEW f \in SetToSeqs(S)
  PROVE  f \in Seq(S) /\ (S # {} => f # <<>>)
  <1>1. Cardinality(S) \in Nat /\ (S # {} => Cardinality(S) # 0)
    BY FS_CardinalityType, FS_EmptySet
  <1>2. f \in [1..Cardinality(S) -> S]
    BY DEF SetToSeqs
  <1>3. f \in Seq(S) /\ Len(f) = Cardinality(S)
    BY <1>1, <1>2, FunctionIsSeq
  <1> QED
    BY <1>1, <1>3

(* The smallest of some numbers is one of them. *)
LEMMA MinIsLeast ==
  ASSUME NEW S \in SUBSET Nat, S # {}
  PROVE  Min(S) \in S /\ \A y \in S : Min(S) <= y
  <1> DEFINE Less == {ss \in Nat \X Nat : ss[1] < ss[2]}
  <1>1. IsWellFoundedOn(Less, Nat)
    BY NatLessThanWellFounded, Zenon DEF OpToRel
  <1>2. PICK x \in S : \A y \in S : ~(<<y, x>> \in Less)
    BY <1>1, WFMin, Zenon
  <1>3. ASSUME NEW y \in S PROVE x <= y
    <2>1. x \in Nat /\ y \in Nat
      OBVIOUS
    <2>2. y < x => <<y, x>> \in Less
      BY <2>1
    <2>3. ~(y < x)
      BY <1>2, <2>2, Zenon
    <2> QED
      BY <2>1, <2>3
  <1> QED
    BY <1>3 DEF Min

(* Numbers that have 0, and with each but the last its successor, are all of them. *)
LEMMA Stepwise ==
  ASSUME NEW n \in Nat, NEW T, 0 \in T, \A k \in 0..(n - 1) : k \in T => k + 1 \in T
  PROVE  \A k \in 0..n : k \in T
  <1> DEFINE Out == {k \in 0..n : k \notin T}
  <1> SUFFICES ASSUME Out # {} PROVE FALSE
    OBVIOUS
  <1>1. Out \in SUBSET Nat
    OBVIOUS
  <1>2. Min(Out) \in Out /\ \A y \in Out : Min(Out) <= y
    <2> HIDE DEF Out
    <2> QED
      BY <1>1, MinIsLeast
  <1> DEFINE m == Min(Out)
  <1>3. m \in 0..n /\ m \notin T /\ m # 0
    BY <1>2
  <1> HIDE DEF m
  <1>4. m - 1 \in 0..(n - 1) /\ m - 1 \in 0..n /\ (m - 1) + 1 = m /\ ~(m <= m - 1)
    BY <1>3
  <1>5. m - 1 \in T
    BY <1>2, <1>4 DEF m
  <1> QED
    BY <1>3, <1>4, <1>5

(* f starts with a value and goes on from each number to the next by a step. *)
Recurs(f, n, first, step) == f[0] = first /\ \A i \in 1..n : f[i] = step[<<f[i - 1], i>>]
HasRecursion(n, S, first, step) == \E f \in [0..n -> S] : Recurs(f, n, first, step)

(* There is such a function. *)
LEMMA Recursion ==
  ASSUME NEW n \in Nat, NEW S, NEW first \in S, NEW step \in [S \X (1..n) -> S]
  PROVE  HasRecursion(n, S, first, step)
  <1> DEFINE Upto(k) == {f \in [0..k -> S] : f = [i \in 0..k |-> IF i = 0 THEN first ELSE step[<<f[i - 1], i>>]]}
             T == {k \in 0..n : Upto(k) # {}}
  <1>1. 0 \in T
    <2>1. [i \in 0..0 |-> first] \in Upto(0)
      OBVIOUS
    <2> QED
      BY <2>1
  <1>2. ASSUME NEW k \in 0..(n - 1), k \in T PROVE k + 1 \in T
    <2>1. PICK f \in [0..k -> S] : f = [i \in 0..k |-> IF i = 0 THEN first ELSE step[<<f[i - 1], i>>]]
      BY <1>2
    <2> DEFINE g == [i \in 0..(k + 1) |-> IF i = k + 1 THEN step[<<f[k], k + 1>>] ELSE f[i]]
    <2>2. k \in Nat /\ k + 1 \in 1..n /\ k + 1 \in 0..n /\ f[k] \in S
      BY <2>1
    <2>3. step[<<f[k], k + 1>>] \in S
      BY <2>2
    <2>4. g \in [0..(k + 1) -> S]
      <3>1. ASSUME NEW i \in 0..(k + 1) PROVE g[i] \in S
        BY <2>1, <2>2, <2>3
      <3> QED
        BY <3>1
    <2>5. ASSUME NEW i \in 0..(k + 1) PROVE g[i] = IF i = 0 THEN first ELSE step[<<g[i - 1], i>>]
      <3>1. CASE i = k + 1
        <4>1. i # 0 /\ i - 1 = k /\ k \in 0..(k + 1) /\ k # k + 1
          BY <2>2, <3>1
        <4>2. g[i - 1] = f[k] /\ g[i] = step[<<f[k], k + 1>>]
          BY <3>1, <4>1
        <4> QED
          BY <3>1, <4>1, <4>2
      <3>2. CASE i # k + 1
        <4>1. i \in 0..k
          BY <2>2, <3>2
        <4>2. g[i] = f[i]
          BY <3>2
        <4>3. i # 0 => i - 1 \in 0..(k + 1) /\ i - 1 # k + 1
          BY <2>2, <4>1
        <4>4. i # 0 => g[i - 1] = f[i - 1]
          BY <4>3
        <4>5. f[i] = IF i = 0 THEN first ELSE step[<<f[i - 1], i>>]
          BY <2>1, <4>1
        <4> HIDE DEF g
        <4> QED
          BY <4>2, <4>4, <4>5
      <3> QED
        BY <3>1, <3>2
    <2>6. g = [i \in 0..(k + 1) |-> IF i = 0 THEN first ELSE step[<<g[i - 1], i>>]]
      <3>1. g = [i \in 0..(k + 1) |-> g[i]]
        OBVIOUS
      <3> HIDE DEF g
      <3> QED
        BY <2>5, <3>1
    <2>7. g \in Upto(k + 1)
      <3> HIDE DEF g
      <3> QED
        BY <2>4, <2>6
    <2> QED
      BY <2>2, <2>7
  <1>3. n \in T
    <2> HIDE DEF T
    <2>1. \A k \in 0..n : k \in T
      BY <1>1, <1>2, Stepwise
    <2> QED
      BY <2>1
  <1>4. PICK f \in [0..n -> S] : f = [i \in 0..n |-> IF i = 0 THEN first ELSE step[<<f[i - 1], i>>]]
    BY <1>3
  <1>5. f[0] = first /\ \A i \in 1..n : f[i] = step[<<f[i - 1], i>>]
    BY <1>4
  <1> QED
    BY <1>4, <1>5 DEF HasRecursion, Recurs

-----------------------------------------------------------------------------
(* The keys of the cache, and what the servers answer. *)

LEMMA KeyType ==
  ASSUME NEW t \in Seed
  PROVE  /\ CacheKey(t) \in CacheKeys
         /\ t.linked => CacheKey(t) = <<"discid", t.disc>>
         /\ \A d \in Disc : CacheKey(t) = <<"discid", d>> => t.linked /\ t.disc = d
  BY DEF Seed, CacheKey, CacheKeys

(* Making an entry ready changes nothing but the title. *)
LEMMA EntryType ==
  ASSUME NEW e \in Entries
  PROVE  e \in Record /\ Ready(e) \in Entries
  <1>1. ASSUME NEW r \in Records
        PROVE  r \in Record /\ Ready(r) \in Record /\ Ready(Ready(r)) = Ready(r)
    <2>1. r \in Record
      BY UpdateModeAssumption
    <2> QED
      BY <2>1 DEF Record, Ready, Placeholder
  <1>2. PICK r \in Records : e = r \/ e = Ready(r)
    BY DEF Entries
  <1>3. Ready(e) = Ready(r)
    BY <1>1, <1>2
  <1> QED
    BY <1>1, <1>2, <1>3 DEF Entries

(* Making an entry ready changes nothing but its title. *)
LEMMA ReadyChangesTitle ==
  ASSUME NEW r \in Record
  PROVE  /\ Ready(r).source = r.source /\ Ready(r).disc = r.disc
         /\ Ready(r).title = (IF r.title = 0 THEN Placeholder ELSE r.title)
  BY DEF Record, Ready

(* An answer has entries only, and those of MusicBrainz are of the disc asked for. *)
LEMMA AnswerIsOfDisc ==
  ASSUME NEW t \in Seed, ListAnswer(t)
  PROVE  list' \in Seq(Entries) /\ IsOfDisc(list', t.disc)
  <1>1. PICK mb \in {{}, MusicBrainzHolds(t)}, cddb \in {{}, CddbHolds(t)} :
          \E found \in SearchFinds(t, mb, cddb) :
            \E m \in SetToSeqs(mb), s \in SetToSeqs(found), c \in SetToSeqs(cddb) : list' = m \o s \o c
    BY Zenon DEF ListAnswer
  <1>2. PICK found \in SearchFinds(t, mb, cddb) :
          \E m \in SetToSeqs(mb), s \in SetToSeqs(found), c \in SetToSeqs(cddb) : list' = m \o s \o c
    BY <1>1, Zenon
  <1>3. PICK m \in SetToSeqs(mb), s \in SetToSeqs(found), c \in SetToSeqs(cddb) : list' = m \o s \o c
    BY <1>2, Zenon
  <1> DEFINE Right == {r \in Records : r.source = "musicbrainz" => r.disc = t.disc}
  <1>4. mb \subseteq Right /\ found \subseteq Right /\ cddb \subseteq Right
    BY <1>1, <1>2 DEF MusicBrainzHolds, CddbHolds, SearchFinds, OfDisc
  <1>5. IsFiniteSet(Right)
    BY FS_Subset, UpdateModeAssumption
  <1>6. IsFiniteSet(mb) /\ IsFiniteSet(found) /\ IsFiniteSet(cddb)
    BY <1>4, <1>5, FS_Subset
  <1>7. m \in Seq(Right) /\ s \in Seq(Right) /\ c \in Seq(Right)
    <2>1. m \in Seq(mb) /\ s \in Seq(found) /\ c \in Seq(cddb)
      BY <1>6, PermutationIsSeq
    <2> HIDE DEF Right
    <2> QED
      BY <1>4, <2>1, SeqMonotonic
  <1>8. list' \in Seq(Right)
    <2> HIDE DEF Right
    <2> QED
      BY <1>3, <1>7
  <1>9. Right \subseteq Entries
    BY DEF Entries
  <1>10. list' \in Seq(Entries)
    <2> HIDE DEF Right
    <2> QED
      BY <1>8, <1>9, SeqMonotonic
  <1>11. IsOfDisc(list', t.disc)
    BY <1>8 DEF IsOfDisc
  <1> QED
    BY <1>10, <1>11

-----------------------------------------------------------------------------
(* Merging. *)

(* The first value that is not empty, or none. *)
LEMMA FirstNonEmptyIsFirst ==
  ASSUME NEW entries \in Seq(Entries), NEW tag \in SingleTags
  PROVE  \/ FirstNonEmpty(entries, tag) = 0 /\ \A i \in DOMAIN entries : entries[i][tag] = 0
         \/ \E i \in DOMAIN entries :
              /\ entries[i][tag] # 0 /\ FirstNonEmpty(entries, tag) = entries[i][tag]
              /\ \A j \in 1..(i - 1) : entries[j][tag] = 0
  <1> DEFINE having == {i \in DOMAIN entries : entries[i][tag] # 0}
  <1>1. having \in SUBSET Nat /\ DOMAIN entries = 1..Len(entries) /\ Len(entries) \in Nat
    OBVIOUS
  <1>2. CASE having = {}
    BY <1>2 DEF FirstNonEmpty
  <1>3. CASE having # {}
    <2>1. Min(having) \in having /\ \A j \in having : Min(having) <= j
      <3> HIDE DEF having
      <3> QED
        BY <1>1, <1>3, MinIsLeast
    <2>2. FirstNonEmpty(entries, tag) = entries[Min(having)][tag]
      BY <1>3 DEF FirstNonEmpty
    <2>3. ASSUME NEW j \in 1..(Min(having) - 1) PROVE entries[j][tag] = 0
      <3>1. Min(having) \in 1..Len(entries)
        BY <1>1, <2>1
      <3>2. j \in DOMAIN entries /\ ~(Min(having) <= j)
        BY <1>1, <3>1
      <3> QED
        BY <2>1, <3>2
    <2> QED
      BY <2>1, <2>2, <2>3
  <1> QED
    BY <1>2, <1>3

(* What is written of a tag, merged or not, is what the first entry that has it says. *)
LEMMA ChosenIsFirst ==
  ASSUME selected \in Seq(Entries), selected # <<>>, NEW tag \in SingleTags
  PROVE  \/ Chosen[tag] = 0 /\ \A i \in DOMAIN selected : selected[i][tag] = 0
         \/ \E i \in DOMAIN selected :
              /\ selected[i][tag] # 0 /\ Chosen[tag] = selected[i][tag]
              /\ \A j \in 1..(i - 1) : selected[j][tag] = 0
  <1>1. Len(selected) \in Nat /\ Len(selected) # 0 /\ DOMAIN selected = 1..Len(selected)
    OBVIOUS
  <1>2. CASE Len(selected) > 1
    <2>1. Chosen[tag] = FirstNonEmpty(selected, tag)
      BY <1>2 DEF Chosen, Merged, SingleTags
    <2> QED
      BY <2>1, FirstNonEmptyIsFirst
  <1>3. CASE Len(selected) = 1
    <2>1. Chosen[tag] = selected[1][tag]
      BY <1>3 DEF Chosen, TagsOf, SingleTags
    <2>2. DOMAIN selected = {1} /\ 1..(1 - 1) = {}
      BY <1>1, <1>3
    <2> QED
      BY <2>1, <2>2
  <1> QED
    BY <1>1, <1>2, <1>3

(* What is chosen is completed: its title by a name, its release and medium by the file's. *)
LEMMA FileTagsAreComplete ==
  ASSUME NEW tag \in SingleTags
  PROVE  FileTags[tag] = (IF Chosen[tag] = 0 THEN Default(tag) ELSE Chosen[tag])
  <1> DEFINE ready == Ready(Chosen)
  <1>1. /\ ready[tag] = (IF tag = "title" /\ Chosen[tag] = 0 THEN Placeholder ELSE Chosen[tag])
        /\ {"release", "medium"} \subseteq DOMAIN ready /\ tag \in DOMAIN ready
    <2>1. CASE Len(selected) > 1
      BY <2>1 DEF Chosen, Merged, Ready, SingleTags
    <2>2. CASE ~(Len(selected) > 1)
      BY <2>2 DEF Chosen, TagsOf, Ready, SingleTags
    <2> QED
      BY <2>1, <2>2
  <1> HIDE DEF ready
  <1>2. FileTags = Seeded(ready)
    BY DEF FileTags, ready
  <1>3. Seeded(ready)[tag] = (IF tag \in {"release", "medium"} /\ ready[tag] = 0 THEN Toc[tag] ELSE ready[tag])
    <2>1. CASE tag = "release"
      BY <1>1, <2>1 DEF Seeded
    <2>2. CASE tag = "medium"
      BY <1>1, <2>2 DEF Seeded
    <2>3. CASE tag \notin {"release", "medium"}
      BY <1>1, <2>3 DEF Seeded
    <2> QED
      BY <2>1, <2>2, <2>3
  <1>4. tag = "title" => Default(tag) = Placeholder
    BY DEF Default
  <1>5. tag \in {"release", "medium"} => Default(tag) = Toc[tag] /\ tag # "title"
    BY DEF Default
  <1>6. tag \notin {"title", "release", "medium"} => Default(tag) = 0
    BY DEF Default
  <1>7. Placeholder # 0
    BY DEF Placeholder
  <1> QED
    BY <1>1, <1>2, <1>3, <1>4, <1>5, <1>6, <1>7

(* The release and the medium that are written are releases and media. *)
LEMMA ChosenType ==
  ASSUME selected \in Seq(Entries), selected # <<>>
  PROVE  Chosen.release \in Release \cup {0} /\ Chosen.medium \in Disc \cup {0}
  <1>1. \A i \in DOMAIN selected : selected[i] \in Record
    BY EntryType
  <1>2. Chosen["release"] \in Release \cup {0}
    BY <1>1, ChosenIsFirst DEF SingleTags, Record
  <1>3. Chosen["medium"] \in Disc \cup {0}
    BY <1>1, ChosenIsFirst DEF SingleTags, Record
  <1> QED
    BY <1>2, <1>3

-----------------------------------------------------------------------------
(* The genres of several entries: merge_multi_values_zip, by induction over its loops. *)

GenreType == [word : Nat, case : {"lower", "upper"}]

(* The genres of entries are where the loops look for them. *)
LEMMA GenresType ==
  ASSUME NEW entries \in Seq(Entries)
  PROVE  /\ DOMAIN entries = 1..Len(entries) /\ Len(entries) \in Nat
         /\ \A i \in DOMAIN entries : entries[i].genres \in Seq(GenreType)
  <1>1. ASSUME NEW i \in DOMAIN entries PROVE entries[i].genres \in Seq(GenreType)
    <2>1. entries[i] \in Record
      BY EntryType
    <2> QED
      BY <2>1 DEF Record, GenreType
  <1> QED
    BY <1>1

(* No entry has more genres than the longest. *)
LEMMA LongestIsBound ==
  ASSUME NEW entries \in Seq(Entries)
  PROVE  /\ Longest(entries) \in Nat
         /\ \A i \in DOMAIN entries : Len(entries[i].genres) <= Longest(entries)
  <1> DEFINE n == Len(entries)
             Size(i) == Len(entries[i].genres)
             Sizes == {0} \cup {Size(i) : i \in DOMAIN entries}
             Bounds(k) == {u \in Nat : \A i \in 1..k : Size(i) <= u}
             T == {k \in 0..n : Bounds(k) # {}}
  <1>1. n \in Nat /\ DOMAIN entries = 1..n /\ \A i \in 1..n : Size(i) \in Nat
    BY GenresType
  <1> HIDE DEF Size, n
  <1>2. 0 \in T
    <2>1. 0 \in Bounds(0)
      OBVIOUS
    <2> QED
      BY <1>1, <2>1
  <1>3. ASSUME NEW k \in 0..(n - 1), k \in T PROVE k + 1 \in T
    <2>1. PICK u \in Nat : \A i \in 1..k : Size(i) <= u
      BY <1>3
    <2>2. k \in Nat /\ k + 1 \in 1..n /\ Size(k + 1) \in Nat
      BY <1>1
    <2>3. u + Size(k + 1) \in Nat
      BY <2>1, <2>2
    <2>4. ASSUME NEW i \in 1..(k + 1) PROVE Size(i) <= u + Size(k + 1)
      <3>1. CASE i = k + 1
        BY <2>1, <2>2, <3>1
      <3>2. CASE i # k + 1
        <4>1. i \in 1..k /\ i \in 1..n
          BY <1>1, <2>2, <3>2
        <4>2. Size(i) <= u /\ Size(i) \in Nat
          BY <1>1, <2>1, <4>1
        <4> QED
          BY <2>1, <2>2, <4>2
      <3> QED
        BY <3>1, <3>2
    <2>5. u + Size(k + 1) \in Bounds(k + 1)
      BY <2>3, <2>4
    <2> QED
      BY <2>2, <2>5
  <1>4. Bounds(n) # {}
    <2>1. \A k \in 0..n : k \in T
      <3> HIDE DEF T
      <3> QED
        BY <1>1, <1>2, <1>3, Stepwise
    <2>2. n \in 0..n
      BY <1>1
    <2>3. n \in T
      BY <2>1, <2>2
    <2> QED
      BY <2>3
  <1> DEFINE m == Min(Bounds(n))
  <1>5. m \in Nat /\ (\A i \in 1..n : Size(i) <= m) /\ \A u \in Bounds(n) : m <= u
    <2>1. m \in Bounds(n) /\ \A u \in Bounds(n) : m <= u
      <3>1. Bounds(n) \in SUBSET Nat
        OBVIOUS
      <3> HIDE DEF Bounds
      <3> QED
        BY <1>4, <3>1, MinIsLeast
    <2> HIDE DEF m
    <2> QED
      BY <2>1
  <1> HIDE DEF m
  <1>6. m \in Sizes
    <2> SUFFICES ASSUME m \notin Sizes PROVE FALSE
      OBVIOUS
    <2>1. m # 0 /\ m - 1 \in Nat /\ ~(m <= m - 1)
      BY <1>5
    <2>2. ASSUME NEW i \in 1..n PROVE Size(i) <= m - 1
      <3>1. Size(i) \in Sizes
        BY <1>1
      <3>2. Size(i) # m
        BY <3>1
      <3>3. Size(i) \in Nat /\ Size(i) <= m
        BY <1>1, <1>5
      <3> QED
        BY <1>5, <3>2, <3>3
    <2>3. m - 1 \in Bounds(n)
      BY <2>1, <2>2
    <2> QED
      BY <1>5, <2>1, <2>3
  <1>7. \A x \in Sizes : m >= x
    BY <1>1, <1>5
  <1>8. Sizes \subseteq Nat
    BY <1>1
  <1>9. Max(Sizes) = m
    <2> HIDE DEF Sizes
    <2>1. ASSUME NEW x \in Sizes, \A y \in Sizes : x >= y PROVE x = m
      <3>1. x >= m /\ m >= x /\ x \in Nat /\ m \in Nat
        BY <1>5, <1>6, <1>7, <1>8, <2>1
      <3> QED
        BY <3>1
    <2> QED
      BY <1>6, <1>7, <2>1 DEF Max
  <1>10. Longest(entries) = Max(Sizes)
    BY DEF Longest, Size
  <1> QED
    BY <1>1, <1>5, <1>9, <1>10 DEF Size

(* Taking a genre gives genres. *)
LEMMA TakenType ==
  ASSUME NEW kept \in Seq(GenreType), NEW genres \in Seq(GenreType), NEW p \in Nat \ {0}
  PROVE  Taken(kept, genres, p) \in Seq(GenreType)
  BY DEF Taken

(* The inner loop, over the entries. *)
LEMMA RowSteps ==
  ASSUME NEW entries \in Seq(Entries), NEW kept \in Seq(GenreType), NEW p \in Nat \ {0}
  PROVE  /\ Row(entries, kept, p) \in [0..Len(entries) -> Seq(GenreType)]
         /\ Row(entries, kept, p)[0] = kept
         /\ \A i \in 1..Len(entries) :
              Row(entries, kept, p)[i] = Taken(Row(entries, kept, p)[i - 1], entries[i].genres, p)
  <1> DEFINE n == Len(entries)
             S == Seq(GenreType)
             step == [a \in S \X (1..n) |-> Taken(a[1], entries[a[2]].genres, p)]
  <1>1. n \in Nat /\ \A i \in 1..n : entries[i].genres \in S
    BY GenresType
  <1>2. step \in [S \X (1..n) -> S]
    <2>1. ASSUME NEW a \in S \X (1..n) PROVE Taken(a[1], entries[a[2]].genres, p) \in S
      <3>1. a[1] \in S /\ entries[a[2]].genres \in S
        BY <1>1
      <3> QED
        BY <3>1, TakenType
    <2> QED
      BY <2>1
  <1>3. PICK f \in [0..n -> S] : Recurs(f, n, kept, step)
    <2> HIDE DEF n, S, step
    <2>1. kept \in S
      BY DEF S
    <2>2. n \in Nat
      BY <1>1
    <2>3. HasRecursion(n, S, kept, step)
      BY <1>2, <2>1, <2>2, Recursion
    <2> QED
      BY <2>3 DEF HasRecursion
  <1>4. ASSUME NEW i \in 0..n
        PROVE  f[i] = IF i = 0 THEN kept ELSE Taken(f[i - 1], entries[i].genres, p)
    <2>1. CASE i # 0
      <3>1. i - 1 \in 0..n /\ i \in 1..n
        BY <1>1, <2>1
      <3>2. <<f[i - 1], i>> \in S \X (1..n)
        BY <1>3, <3>1
      <3> QED
        BY <1>3, <2>1, <3>1, <3>2 DEF Recurs
    <2> QED
      BY <1>3, <2>1 DEF Recurs
  <1>5. f = [i \in 0..n |-> IF i = 0 THEN kept ELSE Taken(f[i - 1], entries[i].genres, p)]
    <2> HIDE DEF step, S
    <2> QED
      BY <1>3, <1>4
  <1> DEFINE row == Row(entries, kept, p)
  <1>6. row = [i \in 0..n |-> IF i = 0 THEN kept ELSE Taken(row[i - 1], entries[i].genres, p)]
    BY <1>5, Zenon DEF Row
  <1>7. row[0] = kept /\ \A i \in 1..n : row[i] = Taken(row[i - 1], entries[i].genres, p)
    <2> HIDE DEF row
    <2> QED
      BY <1>1, <1>6
  <1>8. \A i \in 0..n : row[i] \in S
    <2> DEFINE T == {i \in 0..n : row[i] \in S}
    <2> HIDE DEF row
    <2>1. 0 \in T
      BY <1>1, <1>7
    <2>2. ASSUME NEW k \in 0..(n - 1), k \in T PROVE k + 1 \in T
      <3>1. k + 1 \in 1..n /\ (k + 1) - 1 = k /\ k + 1 \in 0..n /\ row[k] \in S
        BY <1>1, <2>2
      <3>2. row[k + 1] = Taken(row[k], entries[k + 1].genres, p) /\ entries[k + 1].genres \in S
        BY <1>1, <1>7, <3>1
      <3>3. row[k + 1] \in S
        BY <3>1, <3>2, TakenType
      <3> QED
        BY <3>1, <3>3
    <2>3. \A k \in 0..n : k \in T
      <3> HIDE DEF T, n
      <3> QED
        BY <1>1, <2>1, <2>2, Stepwise
    <2> QED
      BY <2>3
  <1>9. row \in [0..n -> S]
    <2> HIDE DEF row, S
    <2> QED
      BY <1>6, <1>8
  <1> QED
    BY <1>7, <1>9

(* The outer loop, over the places. *)
LEMMA RowsSteps ==
  ASSUME NEW entries \in Seq(Entries)
  PROVE  /\ Rows(entries) \in [0..Longest(entries) -> Seq(GenreType)]
         /\ Rows(entries)[0] = <<>>
         /\ \A p \in 1..Longest(entries) :
              Rows(entries)[p] = Row(entries, Rows(entries)[p - 1], p)[Len(entries)]
  <1> DEFINE n == Longest(entries)
             S == Seq(GenreType)
             last == Len(entries)
             step == [a \in S \X (1..n) |-> Row(entries, a[1], a[2])[last]]
  <1>1. n \in Nat /\ last \in Nat
    BY LongestIsBound
  <1>2. ASSUME NEW kept \in S, NEW p \in 1..n PROVE Row(entries, kept, p)[last] \in S
    <2>1. p \in Nat \ {0} /\ last \in 0..last
      BY <1>1
    <2>2. Row(entries, kept, p) \in [0..last -> S]
      BY <2>1, RowSteps
    <2> QED
      BY <2>1, <2>2
  <1>3. step \in [S \X (1..n) -> S]
    <2> HIDE DEF n, last, S
    <2>1. ASSUME NEW a \in S \X (1..n) PROVE Row(entries, a[1], a[2])[last] \in S
      BY <1>2
    <2> QED
      BY <2>1
  <1>4. PICK f \in [0..n -> S] : Recurs(f, n, <<>>, step)
    <2>1. <<>> \in S
      OBVIOUS
    <2> HIDE DEF n, S, step
    <2>2. n \in Nat
      BY <1>1
    <2>3. HasRecursion(n, S, <<>>, step)
      BY <1>3, <2>1, <2>2, Recursion
    <2> QED
      BY <2>3 DEF HasRecursion
  <1>5. ASSUME NEW i \in 0..n
        PROVE  f[i] = IF i = 0 THEN <<>> ELSE Row(entries, f[i - 1], i)[last]
    <2>1. CASE i # 0
      <3>1. i - 1 \in 0..n /\ i \in 1..n
        BY <1>1, <2>1
      <3>2. <<f[i - 1], i>> \in S \X (1..n)
        BY <1>4, <3>1
      <3> QED
        BY <1>4, <2>1, <3>1, <3>2 DEF Recurs
    <2> QED
      BY <1>4, <2>1 DEF Recurs
  <1>6. f = [i \in 0..n |-> IF i = 0 THEN <<>> ELSE Row(entries, f[i - 1], i)[last]]
    <2> HIDE DEF step, S, n
    <2> QED
      BY <1>4, <1>5
  <1> DEFINE rows == Rows(entries)
  <1>7. rows = [i \in 0..n |-> IF i = 0 THEN <<>> ELSE Row(entries, rows[i - 1], i)[last]]
    BY <1>6, Zenon DEF Rows
  <1>8. rows[0] = <<>> /\ \A i \in 1..n : rows[i] = Row(entries, rows[i - 1], i)[last]
    <2> HIDE DEF rows, n
    <2> QED
      BY <1>1, <1>7
  <1>9. \A i \in 0..n : rows[i] \in S
    <2> DEFINE T == {i \in 0..n : rows[i] \in S}
    <2> HIDE DEF rows
    <2>1. 0 \in T
      <3>1. rows[0] \in S /\ 0 \in 0..n
        BY <1>1, <1>8
      <3> QED
        BY <3>1
    <2>2. ASSUME NEW k \in 0..(n - 1), k \in T PROVE k + 1 \in T
      <3>1. k + 1 \in 1..n /\ (k + 1) - 1 = k /\ k + 1 \in 0..n /\ rows[k] \in S
        BY <1>1, <2>2
      <3>2. rows[k + 1] = Row(entries, rows[k], k + 1)[last]
        BY <1>8, <3>1
      <3>3. rows[k + 1] \in S
        BY <1>2, <3>1, <3>2
      <3> QED
        BY <3>1, <3>3
    <2>3. \A k \in 0..n : k \in T
      <3> HIDE DEF T, n
      <3> QED
        BY <1>1, <2>1, <2>2, Stepwise
    <2> QED
      BY <2>3
  <1>10. rows \in [0..n -> S]
    <2> HIDE DEF rows, S, n
    <2> QED
      BY <1>7, <1>9
  <1> QED
    BY <1>8, <1>10

(* The places of genres: which of the entry's, and the entry.  Those up to place p of entry i. *)
AllPlaces(entries) ==
  {a \in (1..Longest(entries)) \X DOMAIN entries : a[1] <= Len(entries[a[2]].genres)}
Seen(entries, p, i) == {a \in AllPlaces(entries) : a[1] < p \/ (a[1] = p /\ a[2] <= i)}
WordAt(entries, a) == entries[a[2]].genres[a[1]].word

(* The invariant of the two loops: what is kept are the words seen, each once, first come *)
(* first.                                                                                  *)
MergedUpto(entries, kept, p, i) ==
  /\ \A k \in DOMAIN kept : \E a \in Seen(entries, p, i) : WordAt(entries, a) = kept[k].word
  /\ \A a \in Seen(entries, p, i) : \E k \in DOMAIN kept : kept[k].word = WordAt(entries, a)
  /\ \A k, l \in DOMAIN kept : k < l =>
       /\ kept[k].word # kept[l].word
       /\ \E a \in AllPlaces(entries) : WordAt(entries, a) = kept[k].word /\
            \A b \in AllPlaces(entries) : WordAt(entries, b) = kept[l].word => Precedes(a, b)

(* Taking the genre at place p of entry i: it is kept if its word was not seen. *)
LEMMA TakenKeepsMerged ==
  ASSUME NEW entries \in Seq(Entries), NEW kept \in Seq(GenreType),
         NEW p \in 1..Longest(entries), NEW i \in DOMAIN entries, MergedUpto(entries, kept, p, i - 1)
  PROVE  MergedUpto(entries, Taken(kept, entries[i].genres, p), p, i)
  <1> DEFINE genres == entries[i].genres
             places == AllPlaces(entries)
             before == Seen(entries, p, i - 1)
             after == Seen(entries, p, i)
             word == genres[p].word
             W(a) == WordAt(entries, a)
  <1>1. /\ Longest(entries) \in Nat /\ DOMAIN entries = 1..Len(entries) /\ Len(entries) \in Nat
        /\ genres \in Seq(GenreType) /\ p \in Nat /\ i \in Nat
    BY GenresType, LongestIsBound
  <1>2. \A a \in places : a[1] \in Nat /\ a[2] \in Nat /\ a = <<a[1], a[2]>>
    BY <1>1 DEF AllPlaces
  <1>3. before = {a \in places : a[1] < p \/ (a[1] = p /\ a[2] < i)}
    BY <1>1, <1>2 DEF Seen
  <1>4. after = before \cup {a \in places : a = <<p, i>>}
    <2>1. after = {a \in places : a[1] < p \/ (a[1] = p /\ a[2] <= i)}
      BY DEF Seen
    <2>2. \A a \in places : a = <<p, i>> <=> a[1] = p /\ a[2] = i
      BY <1>2
    <2> HIDE DEF places, before, after
    <2> QED
      BY <1>1, <1>2, <1>3, <2>1, <2>2
  <1>5. <<p, i>> \in places <=> p <= Len(genres)
    BY <1>1 DEF AllPlaces
  <1>6. W(<<p, i>>) = word
    BY DEF WordAt
  <1>7. /\ \A k \in DOMAIN kept : \E a \in before : W(a) = kept[k].word
        /\ \A a \in before : \E k \in DOMAIN kept : kept[k].word = W(a)
        /\ \A k, l \in DOMAIN kept : k < l =>
             /\ kept[k].word # kept[l].word
             /\ \E a \in places : W(a) = kept[k].word /\
                  \A b \in places : W(b) = kept[l].word => Precedes(a, b)
    BY DEF MergedUpto
  <1>8. CASE p > Len(genres)
    <2>1. Taken(kept, genres, p) = kept
      BY <1>8 DEF Taken
    <2>2. after = before
      <3>1. <<p, i>> \notin places
        BY <1>1, <1>5, <1>8
      <3> HIDE DEF places, before, after
      <3> QED
        BY <1>4, <3>1
    <2> QED
      BY <2>1, <2>2 DEF MergedUpto
  <1>9. CASE p <= Len(genres) /\ \E k \in DOMAIN kept : kept[k].word = word
    <2>1. Taken(kept, genres, p) = kept
      BY <1>9 DEF Taken, IsSameGenre
    <2> HIDE DEF places, before, after, W, word, genres
    <2>2. \A k \in DOMAIN kept : \E a \in after : W(a) = kept[k].word
      BY <1>4, <1>7
    <2>3. \A a \in after : \E k \in DOMAIN kept : kept[k].word = W(a)
      <3>1. ASSUME NEW a \in after PROVE \E k \in DOMAIN kept : kept[k].word = W(a)
        <4>1. CASE a \in before
          BY <1>7, <4>1
        <4>2. CASE a = <<p, i>>
          BY <1>6, <1>9, <4>2
        <4> QED
          BY <1>4, <3>1, <4>1, <4>2
      <3> QED
        BY <3>1
    <2> QED
      BY <1>7, <2>1, <2>2, <2>3 DEF MergedUpto, places, after, W, genres
  <1>10. CASE p <= Len(genres) /\ ~\E k \in DOMAIN kept : kept[k].word = word
    <2> DEFINE n == Len(kept) + 1
               more == Append(kept, genres[p])
    <2>1. Taken(kept, genres, p) = more
      BY <1>1, <1>10 DEF Taken, IsSameGenre
    <2>2. /\ DOMAIN kept = 1..Len(kept) /\ Len(kept) \in Nat /\ genres[p] \in GenreType
          /\ DOMAIN more = 1..n /\ more[n] = genres[p] /\ \A k \in DOMAIN kept : more[k] = kept[k]
      BY <1>1, <1>10
    <2>3. \A k \in DOMAIN more : k \in DOMAIN kept \/ k = n
      BY <2>2
    <2>4. n \in DOMAIN more /\ DOMAIN kept \subseteq DOMAIN more /\ more[n].word = word
          /\ \A k \in DOMAIN kept : more[k].word = kept[k].word
      BY <2>2
    <2>5. <<p, i>> \in places /\ <<p, i>> \in after
      <3>1. <<p, i>> \in places
        BY <1>5, <1>10
      <3> HIDE DEF places, before, after
      <3> QED
        BY <1>4, <3>1
    <2>6. \A k, l \in DOMAIN more : k < l => k \in DOMAIN kept
      BY <2>2
    <2> HIDE DEF places, before, after, W, word, genres, more, n
    <2>7. \A k \in DOMAIN more : \E a \in after : W(a) = more[k].word
      <3>1. ASSUME NEW k \in DOMAIN more PROVE \E a \in after : W(a) = more[k].word
        <4>1. CASE k \in DOMAIN kept
          BY <1>4, <1>7, <2>4, <4>1
        <4>2. CASE k = n
          BY <1>6, <2>4, <2>5, <4>2
        <4> QED
          BY <2>3, <4>1, <4>2
      <3> QED
        BY <3>1
    <2>8. \A a \in after : \E k \in DOMAIN more : more[k].word = W(a)
      <3>1. ASSUME NEW a \in after PROVE \E k \in DOMAIN more : more[k].word = W(a)
        <4>1. CASE a \in before
          BY <1>7, <2>4, <4>1
        <4>2. CASE a = <<p, i>>
          BY <1>6, <2>4, <4>2
        <4> QED
          BY <1>4, <3>1, <4>1, <4>2
      <3> QED
        BY <3>1
    <2>9. ASSUME NEW k \in DOMAIN more, NEW l \in DOMAIN more, k < l
          PROVE  /\ more[k].word # more[l].word
                 /\ \E a \in places : W(a) = more[k].word /\
                      \A b \in places : W(b) = more[l].word => Precedes(a, b)
      <3>1. k \in DOMAIN kept /\ more[k].word = kept[k].word
        BY <2>4, <2>6, <2>9
      <3>2. CASE l \in DOMAIN kept
        <4>1. more[l].word = kept[l].word
          BY <2>4, <3>2
        <4> QED
          BY <1>7, <2>9, <3>1, <3>2, <4>1
      <3>3. CASE l = n
        <4>1. more[l].word = word /\ more[k].word # word
          BY <1>10, <2>4, <3>1, <3>3
        <4>2. PICK a \in before : W(a) = kept[k].word
          BY <1>7, <3>1
        <4>3. a \in places /\ (a[1] < p \/ (a[1] = p /\ a[2] < i))
          BY <1>3, <4>2
        <4>4. ASSUME NEW b \in places, W(b) = word PROVE Precedes(a, b)
          <5>1. b \notin before
            BY <1>7, <1>10, <4>4
          <5>2. ~(b[1] < p) /\ ~(b[1] = p /\ b[2] < i)
            BY <1>3, <4>4, <5>1
          <5>3. a[1] \in Nat /\ a[2] \in Nat /\ b[1] \in Nat /\ b[2] \in Nat
            BY <1>2, <4>3, <4>4
          <5> QED
            BY <1>1, <4>3, <5>2, <5>3 DEF Precedes
        <4> QED
          BY <3>1, <4>1, <4>2, <4>3, <4>4
      <3> QED
        BY <2>3, <3>2, <3>3
    <2> QED
      BY <2>1, <2>7, <2>8, <2>9 DEF MergedUpto, places, after, W, genres
  <1>11. p \in Nat /\ Len(genres) \in Nat
    BY <1>1
  <1> QED
    BY <1>8, <1>9, <1>10, <1>11

(* One round of the outer loop. *)
LEMMA RowKeepsMerged ==
  ASSUME NEW entries \in Seq(Entries), NEW kept \in Seq(GenreType), NEW p \in 1..Longest(entries),
         MergedUpto(entries, kept, p - 1, Len(entries))
  PROVE  MergedUpto(entries, Row(entries, kept, p)[Len(entries)], p, Len(entries))
  <1> DEFINE n == Len(entries)
             row == Row(entries, kept, p)
             T == {i \in 0..n : MergedUpto(entries, row[i], p, i)}
  <1>1. /\ Longest(entries) \in Nat /\ DOMAIN entries = 1..n /\ n \in Nat /\ p \in Nat \ {0}
    BY GenresType, LongestIsBound
  <1>2. /\ row \in [0..n -> Seq(GenreType)] /\ row[0] = kept
        /\ \A i \in 1..n : row[i] = Taken(row[i - 1], entries[i].genres, p)
    BY <1>1, RowSteps
  <1>3. 0 \in T
    <2>1. ASSUME NEW a \in AllPlaces(entries)
          PROVE  a[1] < p \/ (a[1] = p /\ a[2] <= 0) <=> a[1] < p - 1 \/ (a[1] = p - 1 /\ a[2] <= n)
      <3>1. a[1] \in Nat /\ a[2] \in 1..n
        BY <1>1 DEF AllPlaces
      <3> HIDE DEF n
      <3> QED
        BY <1>1, <3>1
    <2>2. Seen(entries, p, 0) = Seen(entries, p - 1, n)
      BY <2>1 DEF Seen
    <2>3. MergedUpto(entries, kept, p, 0)
      BY <2>2 DEF MergedUpto
    <2> HIDE DEF row, n
    <2> QED
      BY <1>1, <1>2, <2>3
  <1> HIDE DEF row
  <1>4. ASSUME NEW k \in 0..(n - 1), k \in T PROVE k + 1 \in T
    <2>1. k + 1 \in 1..n /\ (k + 1) - 1 = k /\ k + 1 \in 0..n /\ k \in 0..n
      BY <1>1
    <2>2. row[k] \in Seq(GenreType) /\ MergedUpto(entries, row[k], p, (k + 1) - 1)
      BY <1>2, <1>4, <2>1
    <2>3. row[k + 1] = Taken(row[k], entries[k + 1].genres, p)
      BY <1>2, <2>1
    <2>4. k + 1 \in DOMAIN entries
      BY <1>1, <2>1
    <2>5. MergedUpto(entries, row[k + 1], p, k + 1)
      BY <2>2, <2>3, <2>4, TakenKeepsMerged
    <2> QED
      BY <2>1, <2>5
  <1>5. n \in T
    <2>1. \A k \in 0..n : k \in T
      <3> HIDE DEF T, n
      <3> QED
        BY <1>1, <1>3, <1>4, Stepwise
    <2> QED
      BY <1>1, <2>1
  <1> QED
    BY <1>5 DEF row

(* What merge_multi_values_zip returns. *)
LEMMA MergedGenresAreMerged ==
  ASSUME NEW entries \in Seq(Entries)
  PROVE  /\ MergedGenres(entries) \in Seq(GenreType)
         /\ MergedUpto(entries, MergedGenres(entries), Longest(entries), Len(entries))
         /\ Seen(entries, Longest(entries), Len(entries)) = AllPlaces(entries)
  <1> DEFINE n == Longest(entries)
             rows == Rows(entries)
             last == Len(entries)
             T == {p \in 0..n : MergedUpto(entries, rows[p], p, last)}
  <1>1. n \in Nat /\ last \in Nat /\ DOMAIN entries = 1..last
    BY LongestIsBound, GenresType
  <1>2. /\ rows \in [0..n -> Seq(GenreType)] /\ rows[0] = <<>>
        /\ \A p \in 1..n : rows[p] = Row(entries, rows[p - 1], p)[last]
    BY RowsSteps
  <1>3. \A a \in AllPlaces(entries) : a[1] \in 1..n /\ a[2] \in 1..last
    BY <1>1 DEF AllPlaces
  <1> HIDE DEF rows, n, last
  <1>4. 0 \in T
    <2>1. Seen(entries, 0, last) = {}
      BY <1>1, <1>3 DEF Seen
    <2>2. MergedUpto(entries, <<>>, 0, last)
      BY <2>1 DEF MergedUpto
    <2> QED
      BY <1>1, <1>2, <2>2
  <1>5. ASSUME NEW k \in 0..(n - 1), k \in T PROVE k + 1 \in T
    <2>1. k + 1 \in 1..n /\ (k + 1) - 1 = k /\ k + 1 \in 0..n /\ k \in 0..n
      BY <1>1
    <2>2. rows[k] \in Seq(GenreType) /\ MergedUpto(entries, rows[k], (k + 1) - 1, last)
      BY <1>2, <1>5, <2>1
    <2>3. rows[k + 1] = Row(entries, rows[k], k + 1)[last]
      BY <1>2, <2>1
    <2>4. MergedUpto(entries, rows[k + 1], k + 1, last)
      BY <2>1, <2>2, <2>3, RowKeepsMerged DEF n, last
    <2> QED
      BY <2>1, <2>4
  <1>6. n \in T
    <2>1. \A k \in 0..n : k \in T
      <3> HIDE DEF T
      <3> QED
        BY <1>1, <1>4, <1>5, Stepwise
    <2> QED
      BY <1>1, <2>1
  <1>7. MergedGenres(entries) = rows[n]
    BY DEF MergedGenres, rows, n
  <1>8. Seen(entries, n, last) = AllPlaces(entries)
    BY <1>1, <1>3 DEF Seen
  <1> QED
    BY <1>1, <1>2, <1>6, <1>7, <1>8 DEF n, last

(* The words of lines are those at their places. *)
LEMMA WordsAreAtPlaces ==
  ASSUME NEW entries \in Seq(Entries)
  PROVE  /\ UNION {{g.word : g \in ToSet(entries[i].genres)} : i \in DOMAIN entries}
              = {WordAt(entries, a) : a \in AllPlaces(entries)}
         /\ \A word : Places(entries, word) = {a \in AllPlaces(entries) : WordAt(entries, a) = word}
  <1> DEFINE n == Longest(entries)
             Words(i) == {g.word : g \in ToSet(entries[i].genres)}
             there == {WordAt(entries, a) : a \in AllPlaces(entries)}
  <1>1. /\ n \in Nat /\ \A i \in DOMAIN entries : Len(entries[i].genres) <= n
        /\ \A i \in DOMAIN entries : entries[i].genres \in Seq(GenreType)
    BY LongestIsBound, GenresType
  <1>2. ASSUME NEW i \in DOMAIN entries PROVE Words(i) \subseteq there
    <2>1. ASSUME NEW k \in 1..Len(entries[i].genres) PROVE entries[i].genres[k].word \in there
      <3>1. Len(entries[i].genres) \in Nat /\ Len(entries[i].genres) <= n
        BY <1>1
      <3>2. <<k, i>> \in AllPlaces(entries)
        BY <1>1, <3>1 DEF AllPlaces
      <3>3. WordAt(entries, <<k, i>>) = entries[i].genres[k].word
        BY DEF WordAt
      <3> QED
        BY <3>2, <3>3
    <2>2. ToSet(entries[i].genres) = {entries[i].genres[k] : k \in 1..Len(entries[i].genres)}
      BY <1>1 DEF ToSet
    <2> QED
      BY <2>1, <2>2
  <1>3. ASSUME NEW a \in AllPlaces(entries)
        PROVE  \E i \in DOMAIN entries : WordAt(entries, a) \in Words(i)
    <2>1. a[2] \in DOMAIN entries /\ a[1] \in 1..Len(entries[a[2]].genres)
      <3>1. a[2] \in DOMAIN entries /\ a[1] \in 1..n /\ a[1] <= Len(entries[a[2]].genres)
        BY DEF AllPlaces
      <3>2. Len(entries[a[2]].genres) \in Nat
        BY <1>1, <3>1
      <3> QED
        BY <1>1, <3>1, <3>2
    <2>2. entries[a[2]].genres[a[1]] \in ToSet(entries[a[2]].genres)
      BY <1>1, <2>1 DEF ToSet
    <2> QED
      BY <2>1, <2>2 DEF WordAt
  <1>4. UNION {Words(i) : i \in DOMAIN entries} = there
    <2> HIDE DEF Words
    <2>1. there \subseteq UNION {Words(i) : i \in DOMAIN entries}
      BY <1>3
    <2> HIDE DEF there
    <2> QED
      BY <1>2, <2>1
  <1>5. ASSUME NEW word
        PROVE  Places(entries, word) = {a \in AllPlaces(entries) : WordAt(entries, a) = word}
    BY DEF Places, AllPlaces, Longest, WordAt
  <1> QED
    BY <1>4, <1>5

-----------------------------------------------------------------------------
(* The menu and the numbers. *)

(* The order is one of places in the list, and not empty if anything passes. *)
LEMMA OrderType ==
  ASSUME list \in Seq(Entries), NEW o \in Orders
  PROVE  o \in Seq(DOMAIN list) /\ (Passing # {} => o # <<>>)
  <1>1. IsFiniteSet(DOMAIN list)
    BY FS_Interval
  <1>2. IsFiniteSet(Passing) /\ Passing \subseteq DOMAIN list
    BY <1>1, FS_Subset DEF Passing
  <1>3. o \in Seq(Passing) /\ (Passing # {} => o # <<>>)
    BY <1>2, PermutationIsSeq DEF Orders
  <1> QED
    BY <1>2, <1>3, SeqMonotonic

(* The numbers taken are places in the menu, unless the one number is 0. *)
LEMMA NumbersType ==
  ASSUME menu \in Seq(Entries), menu # <<>>, NEW n \in Numbers
  PROVE  n = <<0>> \/ (n \in Seq(DOMAIN menu) /\ n # <<>>)
  <1>1. Len(menu) \in Nat /\ Len(menu) # 0 /\ DOMAIN menu = 1..Len(menu)
    OBVIOUS
  <1>2. ASSUME NEW l \in Usable, n \in Unique(l)
        PROVE  n = <<0>> \/ (n \in Seq(DOMAIN menu) /\ n # <<>>)
    <2>1. l \in Seq(Nat) /\ l # <<>> /\ ToSet(l) \in SUBSET (0..Len(menu)) /\ (0 \in ToSet(l) => ToSet(l) = {0})
      BY UpdateModeAssumption DEF Usable
    <2>2. IsFiniteSet(ToSet(l))
      <3>1. IsFiniteSet(0..Len(menu))
        BY <1>1, FS_Interval
      <3> QED
        BY <2>1, <3>1, FS_Subset, Zenon
    <2>3. ToSet(l) # {}
      BY <2>1 DEF ToSet
    <2>4. n \in SetToSeqs(ToSet(l))
      BY <1>2 DEF Unique
    <2>5. n \in Seq(ToSet(l)) /\ n # <<>>
      BY <2>2, <2>3, <2>4, PermutationIsSeq
    <2>6. CASE 0 \notin ToSet(l)
      <3>1. ToSet(l) \subseteq DOMAIN menu
        BY <1>1, <2>1, <2>6
      <3> QED
        BY <2>5, <3>1, SeqMonotonic
    <2>7. CASE 0 \in ToSet(l)
      <3>1. ToSet(l) = {0}
        BY <2>1, <2>7
      <3>2. n \in [1..Cardinality({0}) -> {0}]
        BY <2>4, <3>1 DEF SetToSeqs
      <3>3. Cardinality({0}) = 1
        BY FS_Singleton
      <3>4. n = <<0>>
        BY <3>2, <3>3
      <3> QED
        BY <3>4
    <2> QED
      BY <2>6, <2>7
  <1>3. CASE n = <<1>>
    BY <1>1, <1>3
  <1> QED
    BY <1>2, <1>3 DEF Numbers

-----------------------------------------------------------------------------
(* The inductive invariant.                                                 *)

LEMMA InitIInv == Init => IInv
  <1> SUFFICES ASSUME Init PROVE IInv
    OBVIOUS
  <1>1. plan \in Seq(Seq(File)) /\ target \in 0..Len(plan)
    BY UpdateModeAssumption DEF Init
  <1>2. tags \in [File -> Seed]
    BY UpdateModeAssumption DEF Init
  <1>3. cache \in [CacheKeys -> Seq(Seq(Entries))] /\ asked \in [CacheKeys -> Nat]
    BY EmptySeq DEF Init
  <1>4. TypeOK
    BY <1>1, <1>2, <1>3, EmptySeq DEF Init, TypeOK
  <1>5. CacheInv
    BY DEF Init, CacheInv, CacheKeys
  <1>6. AskedInv /\ OfferInv /\ MenuInv
    BY DEF Init, AskedInv, OfferInv, MenuInv, AtFile
  <1> QED
    BY <1>4, <1>5, <1>6 DEF IInv

(* The table of contents of the file at hand. *)
LEMMA TocType ==
  ASSUME TypeOK, items # <<>>
  PROVE  /\ Toc \in Seed /\ items[1].file \in File /\ Tail(items) \in Seq(Item)
         /\ CacheKey(Toc) \in CacheKeys
  <1>1. items[1] \in Item /\ Tail(items) \in Seq(Item)
    BY HeadTailProperties DEF TypeOK
  <1>2. Toc \in Seed /\ items[1].file \in File
    BY <1>1 DEF Item, Toc
  <1> QED
    BY <1>1, <1>2, KeyType

(* Storing a list of the file's own disc, of whatever source, keeps the cache right. *)
LEMMA StoringStep ==
  ASSUME TypeOK, CacheInv, items # <<>>, NEW l \in Seq(Entries),
         Toc.linked => IsOfDisc(l, Toc.disc),
         cache' = [cache EXCEPT ![CacheKey(Toc)] = <<l>>]
  PROVE  /\ cache' \in [CacheKeys -> Seq(Seq(Entries))] /\ CacheInv'
         /\ cache'[CacheKey(Toc)] # <<>>
         /\ \A k \in CacheKeys : cache[k] # <<>> => cache'[k] # <<>>
  <1>1. Toc \in Seed /\ CacheKey(Toc) \in CacheKeys
    BY TocType
  <1>2. <<l>> \in Seq(Seq(Entries)) /\ <<l>> # <<>> /\ <<l>>[1] = l
    OBVIOUS
  <1>3. cache \in [CacheKeys -> Seq(Seq(Entries))]
    BY DEF TypeOK
  <1>4. \A k \in CacheKeys : cache'[k] = IF k = CacheKey(Toc) THEN <<l>> ELSE cache[k]
    BY <1>1, <1>3
  <1>5. CacheInv'
    <2>1. ASSUME NEW d \in Disc, cache'[<<"discid", d>>] # <<>>
          PROVE  IsOfDisc(cache'[<<"discid", d>>][1], d)
      <3>1. <<"discid", d>> \in CacheKeys
        BY DEF CacheKeys
      <3>2. CASE <<"discid", d>> = CacheKey(Toc)
        <4>1. Toc.linked /\ Toc.disc = d
          BY <1>1, <3>2, KeyType
        <4> QED
          BY <1>2, <1>4, <3>1, <3>2, <4>1
      <3>3. CASE <<"discid", d>> # CacheKey(Toc)
        BY <1>4, <2>1, <3>1, <3>3 DEF CacheInv
      <3> QED
        BY <3>2, <3>3
    <2> QED
      BY <2>1 DEF CacheInv, IsOfDisc
  <1> QED
    BY <1>1, <1>2, <1>3, <1>4, <1>5

(* Going on to the next file. *)
LEMMA NextFileStep ==
  ASSUME IInv, items # <<>>, NextFile,
         tags' \in [File -> Seed], DOMAIN written' = File,
         cache' \in [CacheKeys -> Seq(Seq(Entries))], CacheInv',
         asked' = asked, \A k \in CacheKeys : cache[k] # <<>> => cache'[k] # <<>>
  PROVE  IInv'
  <1>1. Tail(items) \in Seq(Item)
    BY TocType DEF IInv
  <1>2. TypeOK'
    BY <1>1, EmptySeq DEF IInv, TypeOK, NextFile, run
  <1>3. AskedInv'
    BY DEF IInv, AskedInv
  <1>4. OfferInv' /\ MenuInv'
    BY DEF NextFile, OfferInv, MenuInv, AtFile
  <1> QED
    BY <1>2, <1>3, <1>4 DEF IInv

(* A step that leaves the cache alone. *)
LEMMA CacheKept ==
  ASSUME IInv, UNCHANGED <<cache, asked>>
  PROVE  CacheInv' /\ AskedInv' /\ cache' \in [CacheKeys -> Seq(Seq(Entries))] /\ asked' \in [CacheKeys -> Nat]
  BY DEF IInv, TypeOK, CacheInv, AskedInv, IsOfDisc

(* A step between files keeps the invariant. *)
LEMMA BetweenFilesStep ==
  ASSUME IInv, TypeOK', pc' \notin AtFile, UNCHANGED <<cache, asked>>
  PROVE  IInv'
  BY CacheKept DEF IInv, OfferInv, MenuInv, AtFile

LEMMA TargetIInv ==
  ASSUME IInv, Collect \/ CollectThrows \/ Finish \/ EndTarget
  PROVE  IInv'
  <1>1. CASE Collect
    <2> DEFINE files == plan[target']
    <2>1. target \in Nat /\ Len(plan) \in Nat /\ target' \in 1..Len(plan)
      BY <1>1 DEF Collect, IInv, TypeOK
    <2>2. files \in Seq(File)
      BY <2>1 DEF IInv, TypeOK
    <2>3. items' \in Seq(Item)
      <3> HIDE DEF files
      <3>1. ASSUME NEW i \in 1..Len(files) PROVE [file |-> files[i], toc |-> tags[files[i]]] \in Item
        BY <2>2 DEF IInv, TypeOK, Item
      <3>2. items' = [i \in 1..Len(files) |-> [file |-> files[i], toc |-> tags[files[i]]]]
        BY <1>1, <2>2 DEF Collect, files
      <3>3. items' \in [1..Len(files) -> Item] /\ Len(files) \in Nat
        BY <2>2, <3>1, <3>2
      <3> QED
        BY <3>3, FunctionIsSeq
    <2>4. TypeOK'
      BY <1>1, <2>1, <2>3 DEF Collect, IInv, TypeOK, run, offer
    <2> QED
      BY <1>1, <2>4, BetweenFilesStep DEF Collect, AtFile
  <1>2. CASE CollectThrows \/ Finish \/ EndTarget
    <2>1. TypeOK'
      BY <1>2 DEF CollectThrows, Finish, EndTarget, IInv, TypeOK, run, offer
    <2> QED
      BY <1>2, <2>1, BetweenFilesStep DEF CollectThrows, Finish, EndTarget, AtFile
  <1> QED
    BY <1>1, <1>2

LEMMA SkippingIInv ==
  ASSUME IInv, SkipInvalid \/ SkipUnmatched \/ IgnoreAll
  PROVE  IInv'
  <1>1. items # <<>> /\ NextFile /\ UNCHANGED <<tags, cache, asked, written>>
    BY DEF SkipInvalid, SkipUnmatched, IgnoreAll, IInv, OfferInv, AtFile
  <1>2. tags' \in [File -> Seed] /\ DOMAIN written' = File
    BY <1>1 DEF IInv, TypeOK
  <1> QED
    BY <1>1, <1>2, CacheKept, NextFileStep

LEMMA OfferingIInv ==
  ASSUME IInv, Hit \/ Fetch
  PROVE  IInv'
  <1>1. items # <<>> /\ pc' = "offer" /\ UNCHANGED <<run, target, items, tags, order, menu, picked, selected, written>>
    BY DEF Hit, Fetch
  <1>2. Toc \in Seed /\ CacheKey(Toc) \in CacheKeys /\ Toc' = Toc
    BY <1>1, TocType DEF IInv, Toc
  <1>3. list' \in Seq(Entries) /\ (Toc.linked => IsOfDisc(list', Toc.disc))
    <2>1. CASE Hit
      <3>1. cache[CacheKey(Toc)] # <<>> /\ cache[CacheKey(Toc)] \in Seq(Seq(Entries))
            /\ list' = cache[CacheKey(Toc)][1]
        BY <1>2, <2>1 DEF Hit, IInv, TypeOK
      <3>2. list' \in Seq(Entries)
        BY <3>1
      <3>3. ASSUME Toc.linked PROVE IsOfDisc(list', Toc.disc)
        <4>1. CacheKey(Toc) = <<"discid", Toc.disc>> /\ Toc.disc \in Disc
          BY <1>2, <3>3, KeyType DEF Seed
        <4> QED
          BY <3>1, <4>1 DEF IInv, CacheInv
      <3> QED
        BY <3>2, <3>3
    <2>2. CASE Fetch
      BY <1>2, <2>2, AnswerIsOfDisc DEF Fetch
    <2> QED
      BY <2>1, <2>2
  <1>4. /\ cache' \in [CacheKeys -> Seq(Seq(Entries))] /\ CacheInv'
        /\ asked' \in [CacheKeys -> Nat] /\ AskedInv'
    <2>1. CASE Hit
      BY <2>1, CacheKept DEF Hit
    <2>2. CASE Fetch
      <3>1. cache' = [cache EXCEPT ![CacheKey(Toc)] = <<list'>>]
        BY <2>2 DEF Fetch
      <3>2. /\ cache' \in [CacheKeys -> Seq(Seq(Entries))] /\ CacheInv'
            /\ cache'[CacheKey(Toc)] # <<>>
            /\ \A k \in CacheKeys : cache[k] # <<>> => cache'[k] # <<>>
        BY <1>1, <1>3, <3>1, StoringStep DEF IInv
      <3>3. asked' = [asked EXCEPT ![CacheKey(Toc)] = 1] /\ asked' \in [CacheKeys -> Nat]
        <4>1. asked[CacheKey(Toc)] = 0
          BY <1>2, <2>2 DEF Fetch, IInv, AskedInv
        <4>2. asked' = [asked EXCEPT ![CacheKey(Toc)] = asked[CacheKey(Toc)] + 1]
          BY <2>2 DEF Fetch
        <4>3. asked \in [CacheKeys -> Nat]
          BY DEF IInv, TypeOK
        <4>4. asked' = [asked EXCEPT ![CacheKey(Toc)] = 1]
          BY <4>1, <4>2
        <4> QED
          BY <4>3, <4>4
      <3>4. AskedInv'
        BY <1>2, <3>2, <3>3 DEF IInv, TypeOK, AskedInv
      <3> QED
        BY <3>2, <3>3, <3>4
    <2> QED
      BY <2>1, <2>2
  <1>5. TypeOK'
    BY <1>1, <1>3, <1>4 DEF IInv, TypeOK, run
  <1>6. OfferInv' /\ MenuInv'
    BY <1>1, <1>2, <1>3 DEF OfferInv, MenuInv
  <1> QED
    BY <1>4, <1>5, <1>6 DEF IInv

LEMMA ShowIInv ==
  ASSUME IInv, Show
  PROVE  IInv'
  <1>1. order' \in Orders /\ Passing # {} /\ pc' = "choose" /\ pc = "offer"
        /\ UNCHANGED <<run, target, items, tags, cache, asked, list, picked, selected, written>>
    BY DEF Show
  <1>2. list \in Seq(Entries) /\ items # <<>>
    BY <1>1 DEF IInv, TypeOK, OfferInv, AtFile
  <1>3. order' \in Seq(DOMAIN list) /\ order' # <<>>
    BY <1>1, <1>2, OrderType
  <1>4. menu' = [i \in DOMAIN order' |-> list[order'[i]]]
    BY DEF Show
  <1>5. menu' \in Seq(Entries)
    <2>1. DOMAIN order' = 1..Len(order') /\ Len(order') \in Nat
      BY <1>3
    <2>2. ASSUME NEW i \in 1..Len(order') PROVE list[order'[i]] \in Entries
      BY <1>2, <1>3
    <2>3. menu' \in [1..Len(order') -> Entries]
      BY <1>4, <2>1, <2>2
    <2> QED
      BY <2>1, <2>3, FunctionIsSeq
  <1>6. order' \in Seq(Nat)
    <2>1. DOMAIN list \subseteq Nat
      BY <1>2
    <2> QED
      BY <1>3, <2>1, SeqMonotonic
  <1>7. TypeOK'
    BY <1>1, <1>5, <1>6 DEF IInv, TypeOK, run
  <1>8. OfferInv'
    BY <1>1 DEF IInv, OfferInv, AtFile, Toc, IsOfDisc
  <1>9. MenuInv'
    BY <1>1, <1>3, <1>4 DEF MenuInv
  <1> QED
    BY <1>1, <1>7, <1>8, <1>9, CacheKept DEF IInv

LEMMA PickIInv ==
  ASSUME IInv, Pick
  PROVE  IInv'
  <1>1. pc = "choose" /\ pc' = "update"
        /\ UNCHANGED <<run, target, items, tags, cache, asked, list, order, menu, written>>
    BY DEF Pick
  <1>2. order # <<>> /\ order \in Seq(DOMAIN list) /\ menu = [i \in DOMAIN order |-> list[order[i]]]
        /\ menu \in Seq(Entries)
    BY <1>1 DEF IInv, TypeOK, MenuInv
  <1>3. DOMAIN menu = DOMAIN order /\ menu # <<>> /\ DOMAIN menu \subseteq Nat
    BY <1>2
  <1>4. PICK n \in Numbers \ {<<0>>} : picked' = n /\ selected' = [i \in DOMAIN n |-> list[order[n[i]]]]
    BY DEF Pick
  <1>5. n \in Seq(DOMAIN menu) /\ n # <<>>
    BY <1>2, <1>3, <1>4, NumbersType
  <1>6. DOMAIN n = 1..Len(n) /\ Len(n) \in Nat
    BY <1>5
  <1>7. ASSUME NEW i \in DOMAIN n PROVE list[order[n[i]]] = menu[n[i]] /\ menu[n[i]] \in Entries
    BY <1>2, <1>3, <1>5, <1>7
  <1>8. selected' = [i \in DOMAIN n |-> menu[n[i]]]
    BY <1>4, <1>7
  <1>9. selected' \in Seq(Entries)
    <2>1. selected' \in [1..Len(n) -> Entries]
      BY <1>6, <1>7, <1>8
    <2> QED
      BY <1>6, <2>1, FunctionIsSeq
  <1>10. picked' \in Seq(Nat)
    BY <1>3, <1>4, <1>5, SeqMonotonic
  <1>11. TypeOK'
    BY <1>1, <1>9, <1>10 DEF IInv, TypeOK, run
  <1>12. OfferInv'
    BY <1>1 DEF IInv, OfferInv, AtFile, Toc, IsOfDisc
  <1>13. MenuInv'
    BY <1>1, <1>2, <1>4, <1>5, <1>8 DEF MenuInv
  <1> QED
    BY <1>1, <1>11, <1>12, <1>13, CacheKept DEF IInv

(* The tags of the file are those of a disc again. *)
LEMMA WrittenTags ==
  ASSUME IInv, Update
  PROVE  tags' \in [File -> Seed] /\ DOMAIN written' = File
  <1>1. items # <<>> /\ selected \in Seq(Entries) /\ selected # <<>>
    <2>1. pc = "update"
      BY DEF Update
    <2>2. picked # <<>> /\ picked \in Seq(DOMAIN menu) /\ DOMAIN selected = DOMAIN picked
      BY <2>1 DEF IInv, MenuInv
    <2> QED
      BY <2>1, <2>2 DEF IInv, TypeOK, OfferInv, AtFile
  <1>2. Toc \in Seed /\ items[1].file \in File
    BY <1>1, TocType DEF IInv
  <1>3. Chosen.release \in Release \cup {0} /\ Chosen.medium \in Disc \cup {0}
    BY <1>1, ChosenType
  <1> DEFINE toc == [Toc EXCEPT !.release = FileTags.release, !.medium = FileTags.medium]
  <1>8. FileTags["release"] \in {Chosen.release, Toc.release} /\ FileTags["medium"] \in {Chosen.medium, Toc.medium}
    BY FileTagsAreComplete DEF SingleTags, Default
  <1>4. toc \in Seed
    BY <1>2, <1>3, <1>8 DEF Seed
  <1>5. tags' = [tags EXCEPT ![items[1].file] = toc]
    BY DEF Update
  <1> HIDE DEF toc
  <1>6. tags' \in [File -> Seed]
    BY <1>2, <1>4, <1>5 DEF IInv, TypeOK
  <1>7. DOMAIN written' = File
    BY DEF Update, IInv, TypeOK
  <1> QED
    BY <1>6, <1>7

(* The list that is stored again is of the same disc as before. *)
LEMMA ReadyListType ==
  ASSUME IInv, pc = "update"
  PROVE  ReadyList \in Seq(Entries) /\ (Toc.linked => IsOfDisc(ReadyList, Toc.disc))
  <1>1. list \in Seq(Entries) /\ (Toc.linked => IsOfDisc(list, Toc.disc))
    BY DEF IInv, TypeOK, OfferInv, AtFile
  <1>2. CASE ReadyList = list
    BY <1>1, <1>2
  <1>3. CASE ReadyList # list
    <2> DEFINE n == order[picked[1]]
    <2>1. ReadyList = [list EXCEPT ![n] = Ready(list[n])]
      BY <1>3 DEF ReadyList
    <2>2. DOMAIN list = 1..Len(list) /\ Len(list) \in Nat /\ \A i \in DOMAIN list : list[i] \in Entries
      BY <1>1
    <2>3. \A i \in DOMAIN list :
            list[i] \in Record /\ Ready(list[i]) \in Entries
            /\ Ready(list[i]).source = list[i].source /\ Ready(list[i]).disc = list[i].disc
      BY <2>2, EntryType, ReadyChangesTitle
    <2> HIDE DEF n
    <2>4. \A i \in DOMAIN list : ReadyList[i] = (IF i = n THEN Ready(list[i]) ELSE list[i])
      BY <2>1, <2>2
    <2>5. DOMAIN ReadyList = DOMAIN list
      BY <2>1
    <2>6. ReadyList \in [1..Len(list) -> Entries]
      BY <2>1, <2>2, <2>3
    <2>7. ReadyList \in Seq(Entries)
      BY <2>2, <2>6, FunctionIsSeq
    <2>8. Toc.linked => IsOfDisc(ReadyList, Toc.disc)
      BY <1>1, <2>3, <2>4, <2>5 DEF IsOfDisc
    <2> QED
      BY <2>7, <2>8
  <1> QED
    BY <1>2, <1>3

LEMMA UpdatingIInv ==
  ASSUME IInv, Update \/ UpdateFails
  PROVE  IInv'
  <1>1. pc = "update" /\ NextFile /\ asked' = asked
    BY DEF Update, UpdateFails
  <1>2. items # <<>> /\ ReadyList \in Seq(Entries) /\ (Toc.linked => IsOfDisc(ReadyList, Toc.disc))
    BY <1>1, ReadyListType DEF IInv, OfferInv, AtFile
  <1>3. tags' \in [File -> Seed] /\ DOMAIN written' = File
    BY WrittenTags DEF UpdateFails, IInv, TypeOK
  <1>4. cache' = cache \/ cache' = [cache EXCEPT ![CacheKey(Toc)] = <<ReadyList>>]
    BY DEF Update, UpdateFails
  <1>5. /\ cache' \in [CacheKeys -> Seq(Seq(Entries))] /\ CacheInv'
        /\ \A k \in CacheKeys : cache[k] # <<>> => cache'[k] # <<>>
    <2>1. CASE cache' = cache
      BY <1>1, <2>1, CacheKept
    <2>2. CASE cache' = [cache EXCEPT ![CacheKey(Toc)] = <<ReadyList>>]
      BY <1>2, <2>2, StoringStep DEF IInv
    <2> QED
      BY <1>4, <2>1, <2>2
  <1> QED
    BY <1>1, <1>2, <1>3, <1>5, NextFileStep

-----------------------------------------------------------------------------

(* IInv is an invariant, for any number of files, discs, releases and entries. *)
THEOREM Invariance == Spec => []IInv
  <1>1. IInv /\ [Next]_vars => IInv'
    <2> SUFFICES ASSUME IInv, [Next]_vars PROVE IInv'
      OBVIOUS
    <2>1. CASE UNCHANGED vars
      <3>1. TypeOK'
        BY <2>1 DEF vars, run, offer, IInv, TypeOK
      <3>2. OfferInv' /\ MenuInv'
        BY <2>1 DEF vars, run, offer, IInv, OfferInv, MenuInv, AtFile, Toc, IsOfDisc
      <3> QED
        BY <2>1, <3>1, <3>2, CacheKept DEF vars, IInv
    <2>2. CASE Next
      BY <2>2, TargetIInv, SkippingIInv, OfferingIInv, ShowIInv, PickIInv, UpdatingIInv DEF Next
    <2> QED
      BY <2>1, <2>2
  <1> QED
    BY <1>1, InitIInv, PTL DEF Spec

(* Every variable keeps its type; what is written into a file can be read from it again as *)
(* the tags of a disc.                                                                     *)
THEOREM TypeCorrect == Spec => []TypeOK
  <1>1. IInv => TypeOK
    BY DEF IInv
  <1> QED
    BY <1>1, Invariance, PTL

(* However files share cached lists, one that names its disc is offered nothing that       *)
(* MusicBrainz has of another.                                                             *)
THEOREM OwnDiscCorrect == Spec => []OwnDiscOnly
  <1>1. IInv => OwnDiscOnly
    BY DEF IInv, OfferInv, AtFile, IsOfDisc, OwnDiscOnly
  <1> QED
    BY <1>1, Invariance, PTL

(* The servers are asked once for every key, whatever they answer. *)
THEOREM AskedCorrect == Spec => []AskedOnce
  <1>1. IInv => AskedOnce
    BY DEF IInv, AskedInv, AskedOnce
  <1> QED
    BY <1>1, Invariance, PTL

(* The tags of file f become those of the first lines picked that have them. *)
Fits(f) ==
  /\ picked # <<>> /\ f = items[1].file
  /\ \A tag \in SingleTags :
       \/ written'[f][1][tag] = Default(tag) /\ \A i \in DOMAIN picked : PickedLines[i][tag] = 0
       \/ \E i \in DOMAIN picked :
            /\ PickedLines[i][tag] # 0 /\ written'[f][1][tag] = PickedLines[i][tag]
            /\ \A j \in 1..(i - 1) : PickedLines[j][tag] = 0

(* What a file's tags become is what the first line picked that has the tag says. *)
THEOREM ChosenCorrect == Spec => ChosenTagsAreWritten
  <1>1. IInv /\ Update => \A f \in File : written'[f] # written[f] => Fits(f)
    <2> SUFFICES ASSUME IInv, Update, NEW f \in File, written'[f] # written[f] PROVE Fits(f)
      OBVIOUS
    <2>1. written' = [written EXCEPT ![items[1].file] = <<FileTags>>] /\ pc = "update"
      BY DEF Update
    <2>2. f = items[1].file /\ written'[f] = <<FileTags>>
      BY <2>1 DEF IInv, TypeOK
    <2>3. /\ picked # <<>> /\ picked \in Seq(DOMAIN menu) /\ DOMAIN selected = DOMAIN picked
          /\ selected = PickedLines /\ selected \in Seq(Entries)
      BY <2>1 DEF IInv, TypeOK, MenuInv, PickedLines
    <2>4. selected # <<>>
      BY <2>3
    <2>5. written'[f][1] = FileTags
      BY <2>2
    <2>6. ASSUME NEW tag \in SingleTags
          PROVE  \/ written'[f][1][tag] = Default(tag) /\ \A i \in DOMAIN picked : PickedLines[i][tag] = 0
                 \/ \E i \in DOMAIN picked :
                      /\ PickedLines[i][tag] # 0 /\ written'[f][1][tag] = PickedLines[i][tag]
                      /\ \A j \in 1..(i - 1) : PickedLines[j][tag] = 0
      BY <2>3, <2>4, <2>5, ChosenIsFirst, FileTagsAreComplete
    <2> QED
      BY <2>2, <2>3, <2>6 DEF Fits
  <1>2. [Next]_vars => Update \/ written' = written
    BY DEF Next, vars, Collect, CollectThrows, Finish, EndTarget, SkipInvalid, Hit, Fetch, SkipUnmatched, Show,
           IgnoreAll, Pick, UpdateFails
  <1>3. IInv /\ [Next]_vars => (\A f \in File : written'[f] # written[f] => Fits(f))
    BY <1>1, <1>2
  <1>4. IInv /\ [Next]_vars => [\A f \in File : written'[f] # written[f] => Fits(f)]_vars
    BY <1>3
  <1>5. ChosenTagsAreWritten <=> [][\A f \in File : written'[f] # written[f] => Fits(f)]_vars
    BY DEF ChosenTagsAreWritten, Fits
  <1> QED
    BY <1>4, <1>5, Invariance, PTL DEF Spec

(* The genres of f become those of the lines picked, each once, first come first. *)
Gathers(f) ==
  LET words == [i \in DOMAIN written'[f][1].genres |-> written'[f][1].genres[i].word] IN
    /\ ToSet(words) = UNION {{g.word : g \in ToSet(PickedLines[i].genres)} : i \in DOMAIN picked}
    /\ \A i, j \in DOMAIN words : i < j =>
         /\ words[i] # words[j]
         /\ \E a \in Places(PickedLines, words[i]) :
              \A b \in Places(PickedLines, words[j]) : Precedes(a, b)

(* However many lines are merged and whatever genres they have, none is lost, none is      *)
(* written twice, and they are written in the order of the places where they first appear. *)
THEOREM GenresCorrect == Spec => GenresAreMerged
  <1> DEFINE Good(f) == written'[f] # written[f] /\ Len(picked) > 1 => Gathers(f)
  <1>1. ASSUME IInv, Update, NEW f \in File, written'[f] # written[f], Len(picked) > 1
        PROVE  Gathers(f)
    <2>1. written' = [written EXCEPT ![items[1].file] = <<FileTags>>] /\ pc = "update"
      BY <1>1 DEF Update
    <2>2. written'[f] = <<FileTags>>
      BY <1>1, <2>1 DEF IInv, TypeOK
    <2>3. /\ picked \in Seq(DOMAIN menu) /\ DOMAIN selected = DOMAIN picked
          /\ selected = PickedLines /\ selected \in Seq(Entries)
      BY <1>1, <2>1 DEF IInv, TypeOK, MenuInv, PickedLines
    <2>4. Len(selected) > 1
      BY <1>1, <2>3
    <2> DEFINE kept == MergedGenres(selected)
               words == [i \in DOMAIN kept |-> kept[i].word]
    <2>5. written'[f][1].genres = kept
      <3>1. Chosen = Merged(selected)
        BY <2>4 DEF Chosen
      <3>2. FileTags.genres = kept
        BY <3>1 DEF FileTags, Seeded, Ready, Merged
      <3> QED
        BY <2>2, <3>2
    <2>6. /\ kept \in Seq(GenreType)
          /\ MergedUpto(selected, kept, Longest(selected), Len(selected))
          /\ Seen(selected, Longest(selected), Len(selected)) = AllPlaces(selected)
      BY <2>3, MergedGenresAreMerged
    <2>7. /\ UNION {{g.word : g \in ToSet(selected[i].genres)} : i \in DOMAIN selected}
               = {WordAt(selected, a) : a \in AllPlaces(selected)}
          /\ \A word : Places(selected, word) = {a \in AllPlaces(selected) : WordAt(selected, a) = word}
      BY <2>3, WordsAreAtPlaces
    <2> HIDE DEF kept
    <2>8. ToSet(words) = {kept[k].word : k \in DOMAIN kept}
      BY DEF ToSet
    <2>9. {kept[k].word : k \in DOMAIN kept} = {WordAt(selected, a) : a \in AllPlaces(selected)}
      BY <2>6 DEF MergedUpto
    <2>10. ToSet(words) = UNION {{g.word : g \in ToSet(PickedLines[i].genres)} : i \in DOMAIN picked}
      <3>1. ToSet(words) = UNION {{g.word : g \in ToSet(selected[i].genres)} : i \in DOMAIN selected}
        BY <2>7, <2>8, <2>9
      <3>2. DOMAIN selected = DOMAIN picked /\ selected = PickedLines
        BY <2>3
      <3> HIDE DEF words
      <3> QED
        BY <3>1, <3>2
    <2>11. ASSUME NEW i \in DOMAIN words, NEW j \in DOMAIN words, i < j
           PROVE  /\ words[i] # words[j]
                  /\ \E a \in Places(PickedLines, words[i]) :
                       \A b \in Places(PickedLines, words[j]) : Precedes(a, b)
      <3>1. i \in DOMAIN kept /\ j \in DOMAIN kept /\ words[i] = kept[i].word /\ words[j] = kept[j].word
        OBVIOUS
      <3>2. /\ kept[i].word # kept[j].word
            /\ \E a \in AllPlaces(selected) : WordAt(selected, a) = kept[i].word /\
                 \A b \in AllPlaces(selected) : WordAt(selected, b) = kept[j].word => Precedes(a, b)
        BY <2>6, <2>11, <3>1 DEF MergedUpto
      <3> HIDE DEF words
      <3> QED
        BY <2>3, <2>7, <3>1, <3>2
    <2> QED
      BY <2>5, <2>10, <2>11 DEF Gathers
  <1>2. [Next]_vars => Update \/ written' = written
    BY DEF Next, vars, Collect, CollectThrows, Finish, EndTarget, SkipInvalid, Hit, Fetch, SkipUnmatched, Show,
           IgnoreAll, Pick, UpdateFails
  <1>3. IInv /\ [Next]_vars => (\A f \in File : Good(f))
    BY <1>1, <1>2
  <1>4. IInv /\ [Next]_vars => [\A f \in File : Good(f)]_vars
    BY <1>3
  <1>5. GenresAreMerged <=> [][\A f \in File : Good(f)]_vars
    BY DEF GenresAreMerged, Gathers
  <1> QED
    BY <1>4, <1>5, Invariance, PTL DEF Spec

-----------------------------------------------------------------------------
(* How far a file has come, and that nothing is done twice for ever.       *)

PlaceRank(place) ==
  CASE place = "file" -> 5 [] place = "offer" -> 4 [] place = "choose" -> 3 [] place = "update" -> 2
    [] place = "target" -> 1 [] OTHER -> 0

(* A step ends the wait for a target, or for a file of it, or brings the file nearer. *)
ComesNearer ==
  \/ target' > target
  \/ target' = target /\ Len(items') < Len(items)
  \/ target' = target /\ items' = items /\ PlaceRank(pc') < PlaceRank(pc)

(* The targets, the files of one and the places of a file are numbers that steps lower in  *)
(* that order: whatever is cached, skipped, refused or fails, no file is dealt with twice  *)
(* and the update ends after finitely many steps (questions asked again are not steps).    *)
THEOREM UpdateRunsOut ==
  Spec => /\ [](target \in 0..Len(plan) /\ Len(items) \in Nat /\ PlaceRank(pc) \in 0..5)
          /\ [][ComesNearer]_vars
  <1>1. IInv => target \in 0..Len(plan) /\ Len(items) \in Nat /\ PlaceRank(pc) \in 0..5
    BY DEF IInv, TypeOK, PlaceRank
  <1>2. ASSUME IInv, Next PROVE ComesNearer
    <2>1. target \in Nat /\ items \in Seq(Item)
      BY <1>2 DEF IInv, TypeOK
    <2>2. CASE Collect
      BY <2>1, <2>2 DEF Collect, ComesNearer
    <2>3. CASE CollectThrows \/ Finish \/ EndTarget \/ Hit \/ Fetch \/ Show \/ Pick
      <3>1. target' = target /\ items' = items
        BY <2>3 DEF CollectThrows, Finish, EndTarget, Hit, Fetch, Show, Pick
      <3>2. PlaceRank(pc') < PlaceRank(pc)
        BY <2>3 DEF CollectThrows, Finish, EndTarget, Hit, Fetch, Show, Pick, PlaceRank
      <3> QED
        BY <3>1, <3>2 DEF ComesNearer
    <2>4. CASE SkipInvalid \/ SkipUnmatched \/ IgnoreAll \/ Update \/ UpdateFails
      <3>1. target' = target /\ items' = Tail(items)
        BY <2>4 DEF SkipInvalid, SkipUnmatched, IgnoreAll, Update, UpdateFails, NextFile
      <3>2. items # <<>>
        BY <1>2, <2>4 DEF SkipInvalid, SkipUnmatched, IgnoreAll, Update, UpdateFails, IInv, OfferInv, AtFile
      <3>3. Len(Tail(items)) < Len(items)
        BY <2>1, <3>2
      <3> QED
        BY <3>1, <3>3 DEF ComesNearer
    <2> QED
      BY <1>2, <2>2, <2>3, <2>4 DEF Next
  <1>3. IInv /\ [Next]_vars => [ComesNearer]_vars
    BY <1>2
  <1> QED
    BY <1>1, <1>3, Invariance, PTL DEF Spec

-----------------------------------------------------------------------------
(* That what is offered and typed can be put in order.                     *)

IsTotalOrder(R, S) ==
  /\ \A x \in S : <<x, x>> \notin R
  /\ \A x, y, z \in S : <<x, y>> \in R /\ <<y, z>> \in R => <<x, z>> \in R
  /\ \A x, y \in S : x # y => <<x, y>> \in R \/ <<y, x>> \in R

IsListing(o, R, S) == o \in SetToSeqs(S) /\ \A i, j \in DOMAIN o : i < j => <<o[i], o[j]>> \in R

CanBeListed(R, S) == \E o : IsListing(o, R, S)

(* A finite set that is totally ordered by R can be listed in that order: at place n stands *)
(* the element that n - 1 others are before.                                               *)
LEMMA LinearOrder ==
  ASSUME NEW S, IsFiniteSet(S), NEW R, IsTotalOrder(R, S)
  PROVE  CanBeListed(R, S)
  <1> DEFINE Before(x) == {y \in S : <<y, x>> \in R}
             n == Cardinality(S)
             place == [x \in S |-> Cardinality(Before(x)) + 1]
  <1>0. /\ \A x \in S : <<x, x>> \notin R
        /\ \A x, y, z \in S : <<x, y>> \in R /\ <<y, z>> \in R => <<x, z>> \in R
        /\ \A x, y \in S : x # y => <<x, y>> \in R \/ <<y, x>> \in R
    BY DEF IsTotalOrder
  <1>1. n \in Nat
    BY FS_CardinalityType
  <1>2. ASSUME NEW x \in S
        PROVE  IsFiniteSet(Before(x)) /\ Cardinality(Before(x)) \in Nat /\ Cardinality(Before(x)) < n
    <2>1. Before(x) \in SUBSET S /\ Before(x) # S
      BY <1>0
    <2>2. /\ IsFiniteSet(Before(x)) /\ Cardinality(Before(x)) <= n
          /\ Cardinality(S) = Cardinality(Before(x)) => S = Before(x)
      BY <2>1, FS_Subset
    <2>3. Cardinality(Before(x)) \in Nat
      BY <2>2, FS_CardinalityType
    <2> HIDE DEF Before
    <2> QED
      BY <1>1, <2>1, <2>2, <2>3
  <1>3. ASSUME NEW x \in S, NEW y \in S, <<x, y>> \in R
        PROVE  Cardinality(Before(x)) < Cardinality(Before(y))
    <2>1. Before(x) \in SUBSET Before(y) /\ x \in Before(y) /\ x \notin Before(x)
      BY <1>0, <1>3
    <2>2. /\ Cardinality(Before(x)) <= Cardinality(Before(y))
          /\ Cardinality(Before(y)) = Cardinality(Before(x)) => Before(y) = Before(x)
      BY <1>2, <2>1, FS_Subset
    <2> HIDE DEF Before
    <2> QED
      BY <1>2, <2>1, <2>2
  <1>4. place \in [S -> 1..n]
    <2> HIDE DEF Before
    <2>1. ASSUME NEW x \in S PROVE Cardinality(Before(x)) + 1 \in 1..n
      BY <1>1, <1>2
    <2> QED
      BY <2>1
  <1>5. \A x, y \in S : <<x, y>> \in R => place[x] < place[y]
    <2> HIDE DEF Before
    <2> QED
      BY <1>2, <1>3
  <1> HIDE DEF place
  <1>6. \A x, y \in S : place[x] = place[y] => x = y
    <2> SUFFICES ASSUME NEW x \in S, NEW y \in S, place[x] = place[y], x # y PROVE FALSE
      OBVIOUS
    <2>1. place[x] \in Nat /\ place[y] \in Nat
      BY <1>1, <1>4
    <2>2. <<x, y>> \in R \/ <<y, x>> \in R
      BY <1>0
    <2>3. place[x] < place[y] \/ place[y] < place[x]
      BY <1>5, <2>2
    <2> QED
      BY <2>1, <2>3
  <1>7. \A i \in 1..n : \E x \in S : place[x] = i
    <2>1. IsFiniteSet(1..n) /\ Cardinality(1..n) = n
      <3>1. n \in Int /\ 1 \in Int
        BY <1>1
      <3>2. IsFiniteSet(1..n) /\ Cardinality(1..n) = IF 1 > n THEN 0 ELSE n - 1 + 1
        BY <3>1, FS_Interval, Zenon
      <3> QED
        BY <1>1, <3>2
    <2>2. place \in Injection(S, 1..n)
      BY <1>4, <1>6 DEF Injection, IsInjective
    <2>3. place \in Surjection(S, 1..n)
      BY <2>1, <2>2, FS_Injection
    <2> QED
      BY <2>3 DEF Surjection
  <1> DEFINE o == [i \in 1..n |-> CHOOSE x \in S : place[x] = i]
  <1>8. \A i \in 1..n : o[i] \in S /\ place[o[i]] = i
    BY <1>7
  <1>9. o \in [1..n -> S] /\ DOMAIN o = 1..n
    BY <1>8
  <1> HIDE DEF o
  <1>10. \A i, j \in 1..n : i # j => o[i] # o[j]
    BY <1>8
  <1>11. o \in SetToSeqs(S)
    BY <1>9, <1>10 DEF SetToSeqs
  <1>12. ASSUME NEW i \in 1..n, NEW j \in 1..n, i < j PROVE <<o[i], o[j]>> \in R
    <2>1. o[i] \in S /\ o[j] \in S /\ o[i] # o[j] /\ place[o[i]] = i /\ place[o[j]] = j
      BY <1>8, <1>10, <1>12
    <2>2. <<o[j], o[i]>> \in R => j < i
      BY <1>5, <2>1
    <2>3. ~(j < i)
      BY <1>1, <1>12
    <2> QED
      BY <1>0, <2>1, <2>2, <2>3
  <1> QED
    BY <1>9, <1>11, <1>12 DEF CanBeListed, IsListing

(* Albums of one rank may stand in any order, that of the list say. *)
LEMMA OrderExists ==
  ASSUME list \in Seq(Entries)
  PROVE  Orders # {}
  <1> DEFINE R == {p \in Passing \X Passing :
                     IF options.sort
                     THEN \/ list[p[1]].album < list[p[2]].album
                          \/ list[p[1]].album = list[p[2]].album /\ p[1] < p[2]
                     ELSE p[1] < p[2]}
  <1>1. IsFiniteSet(Passing) /\ Passing \subseteq DOMAIN list /\ DOMAIN list \subseteq Nat
    BY FS_Interval, FS_Subset DEF Passing
  <1>2. \A i \in Passing : i \in Nat /\ list[i].album \in Nat
    BY <1>1, EntryType DEF Record
  <1>3. \A x, y \in Passing : <<x, y>> \in R <=>
          IF options.sort
          THEN \/ list[x].album < list[y].album
               \/ list[x].album = list[y].album /\ x < y
          ELSE x < y
    OBVIOUS
  <1>4. \A x, y \in Passing : <<x, y>> \in R =>
          IF options.sort THEN list[x].album <= list[y].album ELSE x < y
    BY <1>2, <1>3
  <1> HIDE DEF R
  <1>5. IsTotalOrder(R, Passing)
    <2>1. \A x \in Passing : <<x, x>> \notin R
      BY <1>2, <1>3
    <2>2. \A x, y, z \in Passing : <<x, y>> \in R /\ <<y, z>> \in R => <<x, z>> \in R
      <3> SUFFICES ASSUME NEW x \in Passing, NEW y \in Passing, NEW z \in Passing,
                          <<x, y>> \in R, <<y, z>> \in R
                   PROVE  <<x, z>> \in R
        OBVIOUS
      <3>1. /\ x \in Nat /\ y \in Nat /\ z \in Nat
            /\ list[x].album \in Nat /\ list[y].album \in Nat /\ list[z].album \in Nat
        BY <1>2
      <3> QED
        BY <1>3, <3>1
    <2>3. \A x, y \in Passing : x # y => <<x, y>> \in R \/ <<y, x>> \in R
      <3> SUFFICES ASSUME NEW x \in Passing, NEW y \in Passing, x # y
                   PROVE  <<x, y>> \in R \/ <<y, x>> \in R
        OBVIOUS
      <3>1. x \in Nat /\ y \in Nat /\ list[x].album \in Nat /\ list[y].album \in Nat
        BY <1>2
      <3> QED
        BY <1>3, <3>1
    <2> QED
      BY <2>1, <2>2, <2>3, Zenon DEF IsTotalOrder
  <1>6. PICK o : IsListing(o, R, Passing)
    BY <1>1, <1>5, LinearOrder DEF CanBeListed
  <1>7. \A i \in DOMAIN o : o[i] \in Passing
    BY <1>6 DEF IsListing, SetToSeqs
  <1>8. o \in Orders
    BY <1>4, <1>6, <1>7 DEF Orders, IsListing
  <1> QED
    BY <1>8

(* The numbers of a line, without those that were typed before. *)
LEMMA UniqueExists ==
  ASSUME NEW line \in Seq(Nat)
  PROVE  Unique(line) # {}
  <1> DEFINE R == {p \in ToSet(line) \X ToSet(line) : FirstTyped(line, p[1]) < FirstTyped(line, p[2])}
  <1>1. IsFiniteSet(ToSet(line))
    <2>1. Len(line) \in Nat /\ line \in [1..Len(line) -> Nat]
      OBVIOUS
    <2>2. IsFiniteSet(1..Len(line))
      BY <2>1, FS_Interval
    <2>3. line \in Surjection(1..Len(line), ToSet(line))
      BY <2>1 DEF ToSet, Surjection
    <2> QED
      BY <2>2, <2>3, FS_Surjection
  <1>2. \A x \in ToSet(line) : FirstTyped(line, x) \in DOMAIN line /\ line[FirstTyped(line, x)] = x
    <2> SUFFICES ASSUME NEW x \in ToSet(line)
                 PROVE  FirstTyped(line, x) \in DOMAIN line /\ line[FirstTyped(line, x)] = x
      OBVIOUS
    <2>1. {i \in DOMAIN line : line[i] = x} \in SUBSET Nat /\ {i \in DOMAIN line : line[i] = x} # {}
      BY DEF ToSet
    <2>2. Min({i \in DOMAIN line : line[i] = x}) \in {i \in DOMAIN line : line[i] = x}
      BY <2>1, MinIsLeast
    <2> QED
      BY <2>2 DEF FirstTyped
  <1>3. \A x \in ToSet(line) : FirstTyped(line, x) \in Nat
    BY <1>2
  <1>4. \A x, y \in ToSet(line) : x # y => FirstTyped(line, x) # FirstTyped(line, y)
    BY <1>2
  <1>5. IsTotalOrder(R, ToSet(line))
    BY <1>3, <1>4 DEF IsTotalOrder
  <1>6. \A x, y \in ToSet(line) : <<x, y>> \in R => FirstTyped(line, x) < FirstTyped(line, y)
    OBVIOUS
  <1> HIDE DEF R
  <1>7. PICK u : IsListing(u, R, ToSet(line))
    BY <1>1, <1>5, LinearOrder DEF CanBeListed
  <1>8. \A i \in DOMAIN u : u[i] \in ToSet(line)
    BY <1>7 DEF IsListing, SetToSeqs
  <1>9. u \in Unique(line)
    BY <1>6, <1>7, <1>8 DEF Unique, IsListing
  <1> QED
    BY <1>9

(* Whatever the servers gave and the filter left, there is an order in which it can be     *)
(* shown, and every line that is accepted picks something: neither the sorting nor the     *)
(* removal of doubles can come to nothing.                                                 *)
THEOREM MenuIsNeverMissing ==
  Spec => [](/\ pc = "offer" => Orders # {}
             /\ pc = "choose" => menu # <<>> /\ \A l \in Usable : Unique(l) # {} /\ <<>> \notin Unique(l))
  <1>1. ASSUME IInv, NEW l \in Usable
        PROVE  Unique(l) # {} /\ <<>> \notin Unique(l)
    <2>1. l \in Seq(Nat) /\ l # <<>>
      BY UpdateModeAssumption DEF Usable
    <2>2. ToSet(l) # {}
      <3>1. 1 \in DOMAIN l
        BY <2>1
      <3> QED
        BY <3>1 DEF ToSet
    <2>3. Cardinality(ToSet(l)) # 0 /\ Cardinality(ToSet(l)) \in Nat
      <3>1. IsFiniteSet(ToSet(l))
        <4>1. ToSet(l) \subseteq 0..Len(menu) /\ Len(menu) \in Nat
          BY <1>1 DEF Usable, IInv, TypeOK
        <4>2. IsFiniteSet(0..Len(menu))
          BY <4>1, FS_Interval
        <4> QED
          BY <4>1, <4>2, FS_Subset
      <3> QED
        BY <2>2, <3>1, FS_CardinalityType, FS_EmptySet
    <2>4. \A u \in Unique(l) : u # <<>>
      BY <2>3 DEF Unique, SetToSeqs
    <2> QED
      BY <2>1, <2>4, UniqueExists
  <1>2. IInv => /\ pc = "offer" => Orders # {}
                /\ pc = "choose" => menu # <<>> /\ \A l \in Usable : Unique(l) # {} /\ <<>> \notin Unique(l)
    <2>1. IInv /\ pc = "choose" => menu # <<>>
      BY DEF IInv, TypeOK, MenuInv
    <2> QED
      BY <1>1, <2>1, OrderExists DEF IInv, TypeOK
  <1> QED
    BY <1>2, Invariance, PTL

=============================================================================
