----------------------------- MODULE UpdateMode -----------------------------
(***************************************************************************)
(* Update mode: run_update_mode and select_cddb_entry_for_toc              *)
(* (src/src/main.cpp).  The files of every target are read, one file after *)
(* the other is looked up, the user picks entries by the numbers shown,    *)
(* several are merged, and the file's tags are replaced.  Files with the   *)
(* same key are offered the list that the first of them was answered.      *)
(*                                                                         *)
(* Tags are numbers, and 0 is the empty tag.  Pictures are in CoverArt,    *)
(* the servers in MetadataFetch, and the table of contents in Requery.     *)
(***************************************************************************)
EXTENDS Naturals, Sequences, FiniteSets, FiniteSetsExt, SequencesExt

CONSTANTS
  File,      \* FLAC files
  Disc,      \* discs, numbers
  Release,   \* MusicBrainz releases, numbers
  CddbId,    \* the CDDB disc ID of every disc: others may have it too
  Records,   \* what the servers hold
  Seeds,     \* bound: the tags that files may have at first
  Plans,     \* bound: the files found in the targets, target by target
  Filters,   \* bound: the albums that the title filter lets pass
  Lines      \* bound: the numbers the user types in a line, <<>> for none

(* What the tags of a file say of its disc. *)
Seed == [valid : BOOLEAN, disc : Disc, linked : BOOLEAN,
         release : Release \cup {0}, medium : Disc \cup {0}]

(* The name ensure_entry_ready_for_toc makes up for a track without title. *)
Placeholder == 1

(* The rank of an album is that of its title and its artist.  A medium is   *)
(* named by the disc that it is.  The title is that of the file's track.    *)
Record == [source : {"musicbrainz", "cddb"}, disc : Disc,
           release : Release \cup {0}, medium : Disc \cup {0}, album : Nat, date : Nat, title : Nat,
           genres : Seq([word : Nat, case : {"lower", "upper"}])]

ASSUME UpdateModeAssumption ==
  /\ Disc \subseteq Nat \ {0} /\ Release \subseteq Nat \ {0}
  /\ CddbId \in [Disc -> Nat]
  /\ IsFiniteSet(Records) /\ Records \subseteq Record
  /\ Seeds \subseteq Seed /\ Plans \subseteq Seq(Seq(File)) /\ Lines \subseteq Seq(Nat)

VARIABLES
  options,   \* what the command line says; never changes
  plan,      \* the files of every target; never changes
  pc,        \* where the program is
  target,    \* targets begun
  items,     \* files of the target that are left, with the table of contents they gave
  tags,      \* what identifies the disc in every file's tags
  cache,     \* metadata_cache: for every key nothing or one list
  asked,     \* how often the servers were asked for every key
  list,      \* the entries of the current file
  order,     \* sorted_indices
  menu,      \* the lines shown for it
  picked,    \* choices
  selected,  \* selected_entries
  written    \* the tags last written to every file, <<>> for none

run == <<options, plan>>
offer == <<list, order, menu, picked, selected>>
vars == <<run, pc, target, items, tags, cache, asked, offer, written>>

-----------------------------------------------------------------------------
(* The cache. *)

CacheKeys ==
  ({"discid"} \X Disc) \cup ({"release"} \X Release) \cup ({"medium"} \X (Release \X Disc))
  \cup ({"cddb"} \X {CddbId[d] : d \in Disc})

(* Mutant: the release comes first. *)
KeyByRelease(t) ==
  IF t.release # 0 THEN <<"release", t.release>>
  ELSE IF t.linked THEN <<"discid", t.disc>>
  ELSE <<"cddb", CddbId[t.disc]>>

(* build_metadata_cache_key *)
CacheKey(t) ==
  IF t.linked THEN <<"discid", t.disc>>
  ELSE IF t.release # 0 /\ t.medium # 0 THEN <<"medium", <<t.release, t.medium>>>>
  ELSE IF t.release # 0 THEN <<"release", t.release>>
  ELSE <<"cddb", CddbId[t.disc]>>

-----------------------------------------------------------------------------
(* What the servers answer, any of which may fail: MusicBrainz first, as in  *)
(* the default list of servers.                                             *)

OfDisc(t) == {r \in Records : r.source = "musicbrainz" /\ r.disc = t.disc}

(* fetch_musicbrainz_entries: the release in the tags, or the disc's.  The  *)
(* media are filtered by the table of contents (Requery).                   *)
MusicBrainzHolds(t) ==
  IF t.release # 0 THEN {r \in OfDisc(t) : r.release = t.release} ELSE OfDisc(t)

CddbHolds(t) == {r \in Records : r.source = "cddb" /\ CddbId[r.disc] = CddbId[t.disc]}

(* The title search finds any other release of the disc.  With -nr it is    *)
(* made only if MusicBrainz gave nothing.                                   *)
SearchFinds(t, mb, cddb) ==
  IF cddb # {} /\ (options.recrawl \/ mb = {})
  THEN SUBSET {r \in OfDisc(t) : \A m \in mb : m.release # r.release}
  ELSE {{}}

(* What MusicBrainz, the search and CDDB gave is listed. *)
ListAnswer(t) ==
  \E mb \in {{}, MusicBrainzHolds(t)}, cddb \in {{}, CddbHolds(t)} :
    \E found \in SearchFinds(t, mb, cddb) :
      \E m \in SetToSeqs(mb), s \in SetToSeqs(found), c \in SetToSeqs(cddb) : list' = m \o s \o c

-----------------------------------------------------------------------------
(* merge_cddb_entries_for_toc; the tags of every track are merged like      *)
(* those of the album.                                                      *)

SingleTags == {"release", "medium", "album", "date", "title"}

FirstNonEmpty(entries, tag) ==
  LET having == {i \in DOMAIN entries : entries[i][tag] # 0}
  IN  IF having = {} THEN 0 ELSE entries[Min(having)][tag]

(* Mutant: letters are not lowered before genres are compared. *)
IsSameSpelling(a, b) == a = b

IsSameGenre(a, b) == a.word = b.word

(* A genre is kept unless it is there already. *)
Taken(kept, genres, p) ==
  IF p > Len(genres) \/ \E i \in DOMAIN kept : IsSameGenre(kept[i], genres[p]) THEN kept
  ELSE Append(kept, genres[p])

(* What is kept when the genres at place p of the first, second, ... entry have been taken. *)
Row(entries, kept, p) ==
  LET row[i \in 0..Len(entries)] == IF i = 0 THEN kept ELSE Taken(row[i - 1], entries[i].genres, p)
  IN  row

Longest(entries) == Max({0} \cup {Len(entries[i].genres) : i \in DOMAIN entries})

(* The same for the first, second, ... places. *)
Rows(entries) ==
  LET rows[p \in 0..Longest(entries)] == IF p = 0 THEN <<>> ELSE Row(entries, rows[p - 1], p)[Len(entries)]
  IN  rows

(* merge_multi_values_zip *)
MergedGenres(entries) == Rows(entries)[Longest(entries)]

TagsOf(e) ==
  [release |-> e.release, medium |-> e.medium, album |-> e.album, date |-> e.date, title |-> e.title,
   genres |-> e.genres]

Merged(entries) ==
  [release |-> FirstNonEmpty(entries, "release"), medium |-> FirstNonEmpty(entries, "medium"),
   album |-> FirstNonEmpty(entries, "album"), date |-> FirstNonEmpty(entries, "date"),
   title |-> FirstNonEmpty(entries, "title"), genres |-> MergedGenres(entries)]

(* One entry is taken as it is. *)
Chosen == IF Len(selected) > 1 THEN Merged(selected) ELSE TagsOf(selected[1])

(* ensure_entry_ready_for_toc *)
Ready(e) == [e EXCEPT !.title = IF @ = 0 THEN Placeholder ELSE @]

(* An entry that is taken as it is lies in the list, and is made ready there. *)
ReadyList == IF Len(selected) > 1 THEN list ELSE [list EXCEPT ![order[picked[1]]] = Ready(@)]

-----------------------------------------------------------------------------

Init ==
  /\ options \in [auto : BOOLEAN, sort : BOOLEAN, recrawl : BOOLEAN, filter : Filters]
  /\ plan \in Plans
  /\ pc = "target" /\ target = 0 /\ items = <<>>
  /\ tags \in [File -> Seeds]
  /\ cache = [k \in CacheKeys |-> <<>>] /\ asked = [k \in CacheKeys |-> 0]
  /\ list = <<>> /\ order = <<>> /\ menu = <<>> /\ picked = <<>> /\ selected = <<>>
  /\ written = [f \in File |-> <<>>]

Toc == items[1].toc

(* cdrip_collect_cddb_queries_from_path reads the tags of the target's files. *)
Collect ==
  /\ pc = "target" /\ target < Len(plan)
  /\ target' = target + 1
  /\ items' = [i \in DOMAIN plan[target'] |-> [file |-> plan[target'][i], toc |-> tags[plan[target'][i]]]]
  /\ pc' = "file"
  /\ UNCHANGED <<run, tags, cache, asked, offer, written>>

(* A directory that cannot be read throws through main. *)
CollectThrows ==
  /\ pc = "target" /\ target < Len(plan)
  /\ pc' = "aborted"
  /\ UNCHANGED <<run, target, items, tags, cache, asked, offer, written>>

Finish ==
  /\ pc = "target" /\ target = Len(plan)
  /\ pc' = "done"
  /\ UNCHANGED <<run, target, items, tags, cache, asked, offer, written>>

EndTarget ==
  /\ pc = "file" /\ items = <<>>
  /\ pc' = "target"
  /\ UNCHANGED <<run, target, items, tags, cache, asked, offer, written>>

(* The next file, with nothing left of this one. *)
NextFile ==
  /\ pc' = "file" /\ items' = Tail(items)
  /\ list' = <<>> /\ order' = <<>> /\ menu' = <<>> /\ picked' = <<>> /\ selected' = <<>>
  /\ UNCHANGED <<run, target>>

SkipInvalid ==
  /\ pc = "file" /\ items # <<>> /\ ~Toc.valid
  /\ NextFile
  /\ UNCHANGED <<tags, cache, asked, written>>

Hit ==
  /\ pc = "file" /\ items # <<>> /\ Toc.valid
  /\ cache[CacheKey(Toc)] # <<>>
  /\ list' = cache[CacheKey(Toc)][1]
  /\ pc' = "offer"
  /\ UNCHANGED <<run, target, items, tags, cache, asked, order, menu, picked, selected, written>>

(* Mutant: a list is not cached until its pictures are there. *)
FetchWithoutCaching ==
  /\ pc = "file" /\ items # <<>> /\ Toc.valid
  /\ cache[CacheKey(Toc)] = <<>>
  /\ ListAnswer(Toc)
  /\ asked' = [asked EXCEPT ![CacheKey(Toc)] = @ + 1]
  /\ pc' = "offer"
  /\ UNCHANGED <<run, target, items, tags, cache, order, menu, picked, selected, written>>

(* The answer is cached, an empty one as well. *)
Fetch ==
  /\ pc = "file" /\ items # <<>> /\ Toc.valid
  /\ cache[CacheKey(Toc)] = <<>>
  /\ ListAnswer(Toc)
  /\ cache' = [cache EXCEPT ![CacheKey(Toc)] = <<list'>>]
  /\ asked' = [asked EXCEPT ![CacheKey(Toc)] = @ + 1]
  /\ pc' = "offer"
  /\ UNCHANGED <<run, target, items, tags, order, menu, picked, selected, written>>

Passing == {i \in DOMAIN list : list[i].album \in options.filter}

(* std::sort may put equal titles in any order. *)
Orders ==
  {o \in SetToSeqs(Passing) :
     \A i, j \in DOMAIN o : i < j =>
       IF options.sort THEN list[o[i]].album <= list[o[j]].album ELSE o[i] < o[j]}

SkipUnmatched ==
  /\ pc = "offer" /\ Passing = {}
  /\ NextFile
  /\ UNCHANGED <<tags, cache, asked, written>>

Show ==
  /\ pc = "offer" /\ Passing # {}
  /\ order' \in Orders
  /\ menu' = [i \in DOMAIN order' |-> list[order'[i]]]
  /\ pc' = "choose"
  /\ UNCHANGED <<run, target, items, tags, cache, asked, list, picked, selected, written>>

(* The numbers of a line, each where it is typed first. *)
FirstTyped(line, n) == Min({i \in DOMAIN line : line[i] = n})
Unique(line) ==
  {u \in SetToSeqs(ToSet(line)) :
     \A i, j \in DOMAIN u : i < j => FirstTyped(line, u[i]) < FirstTyped(line, u[j])}

(* Lines that can be used; after any other the user is asked again. *)
Usable ==
  {l \in Lines : l # <<>> /\ ToSet(l) \subseteq 0..Len(menu) /\ (0 \in ToSet(l) => ToSet(l) = {0})}

Numbers == {<<1>>} \cup IF options.auto THEN {} ELSE UNION {Unique(l) : l \in Usable}

IgnoreAll ==
  /\ pc = "choose" /\ <<0>> \in Numbers
  /\ NextFile
  /\ UNCHANGED <<tags, cache, asked, written>>

(* Mutant: the numbers are taken for places in the list. *)
PickFromList ==
  /\ pc = "choose"
  /\ \E n \in Numbers \ {<<0>>} : picked' = n /\ selected' = [i \in DOMAIN n |-> list[n[i]]]
  /\ pc' = "update"
  /\ UNCHANGED <<run, target, items, tags, cache, asked, list, order, menu, written>>

Pick ==
  /\ pc = "choose"
  /\ \E n \in Numbers \ {<<0>>} : picked' = n /\ selected' = [i \in DOMAIN n |-> list[order[n[i]]]]
  /\ pc' = "update"
  /\ UNCHANGED <<run, target, items, tags, cache, asked, list, order, menu, written>>

(* append_requery_seed_tags: where the entry has no release or no medium,    *)
(* the file's own one is written again.                                     *)
Seeded(e) ==
  [e EXCEPT !.release = IF @ = 0 THEN Toc.release ELSE @, !.medium = IF @ = 0 THEN Toc.medium ELSE @]

(* The tags that replace those of the file. *)
FileTags == Seeded(Ready(Chosen))

(* The cover art step, if it finds a picture, stores the list again as it   *)
(* has become; then the tags are replaced.                                  *)
Update ==
  /\ pc = "update"
  /\ written' = [written EXCEPT ![items[1].file] = <<FileTags>>]
  /\ cache' \in {cache, [cache EXCEPT ![CacheKey(Toc)] = <<ReadyList>>]}
  /\ tags' = [tags EXCEPT ![items[1].file] =
       [Toc EXCEPT !.release = FileTags.release, !.medium = FileTags.medium]]
  /\ NextFile
  /\ UNCHANGED asked

UpdateFails ==
  /\ pc = "update"
  /\ cache' \in {cache, [cache EXCEPT ![CacheKey(Toc)] = <<ReadyList>>]}
  /\ NextFile
  /\ UNCHANGED <<tags, asked, written>>

Next ==
  \/ Collect \/ CollectThrows \/ Finish \/ EndTarget
  \/ SkipInvalid \/ Hit \/ Fetch \/ SkipUnmatched \/ Show \/ IgnoreAll \/ Pick
  \/ Update \/ UpdateFails

Spec == Init /\ [][Next]_vars

-----------------------------------------------------------------------------

(* Entries in the program: as they were answered, or made ready. *)
Entries == Records \cup {Ready(r) : r \in Records}

(* The types of the variables. *)
Item == [file : File, toc : Seed]
TypeOK ==
  /\ plan \in Seq(Seq(File)) /\ target \in 0..Len(plan)
  /\ pc \in {"target", "file", "offer", "choose", "update", "done", "aborted"}
  /\ items \in Seq(Item) /\ tags \in [File -> Seed]
  /\ cache \in [CacheKeys -> Seq(Seq(Entries))] /\ asked \in [CacheKeys -> Nat]
  /\ list \in Seq(Entries) /\ order \in Seq(Nat) /\ menu \in Seq(Entries)
  /\ picked \in Seq(Nat) /\ selected \in Seq(Entries)
  /\ DOMAIN written = File

(* A file that names its disc is never offered what MusicBrainz has of another, though     *)
(* lists are shared between files: of the discs of one release, say, or of two discs with  *)
(* one CDDB disc ID.                                                                       *)
OwnDiscOnly ==
  pc \in {"offer", "choose", "update"} /\ Toc.linked =>
    \A i \in DOMAIN list : list[i].source = "musicbrainz" => list[i].disc = Toc.disc

(* Whatever the targets are, the servers are asked once for every key. *)
AskedOnce == \A k \in CacheKeys : asked[k] <= 1

(* The lines with the numbers typed, in the order typed. *)
PickedLines == [i \in DOMAIN picked |-> menu[picked[i]]]

(* A tag that no line picked has: the release and the medium stay what they were in the    *)
(* file, a title is made up, and the others are gone.                                      *)
Default(tag) ==
  IF tag = "title" THEN Placeholder ELSE IF tag \in {"release", "medium"} THEN Toc[tag] ELSE 0

(* A file changes only when lines were picked for it, and every tag it then has is that of *)
(* the first line picked that has it (README.md:103), filtered, sorted and merged or not;  *)
(* if none has it the release and the medium remain the file's own, a track without title  *)
(* gets a name made up, and any other tag is empty.                                        *)
ChosenTagsAreWritten ==
  [][\A f \in File : written'[f] # written[f] =>
       /\ picked # <<>> /\ f = items[1].file
       /\ \A tag \in SingleTags :
            \/ written'[f][1][tag] = Default(tag) /\ \A i \in DOMAIN picked : PickedLines[i][tag] = 0
            \/ \E i \in DOMAIN picked :
                 /\ PickedLines[i][tag] # 0 /\ written'[f][1][tag] = PickedLines[i][tag]
                 /\ \A j \in 1..(i - 1) : PickedLines[j][tag] = 0]_vars

(* Where a genre first appears in the lines: its place in a line, and the line. *)
Places(lines, word) ==
  {a \in (1..Max({0} \cup {Len(lines[i].genres) : i \in DOMAIN lines})) \X DOMAIN lines :
     a[1] <= Len(lines[a[2]].genres) /\ lines[a[2]].genres[a[1]].word = word}
Precedes(a, b) == a[1] < b[1] \/ (a[1] = b[1] /\ a[2] < b[2])

(* Several lines give all their genres (README.md:104), none twice, first genres first and *)
(* the first line before the others.                                                       *)
GenresAreMerged ==
  [][\A f \in File : written'[f] # written[f] /\ Len(picked) > 1 =>
       LET words == [i \in DOMAIN written'[f][1].genres |-> written'[f][1].genres[i].word] IN
         /\ ToSet(words) = UNION {{g.word : g \in ToSet(PickedLines[i].genres)} : i \in DOMAIN picked}
         /\ \A i, j \in DOMAIN words : i < j =>
              /\ words[i] # words[j]
              /\ \E a \in Places(PickedLines, words[i]) :
                   \A b \in Places(PickedLines, words[j]) : Precedes(a, b)]_vars

(* README.md:103, of the candidates typed: "The candidate with the first specified number   *)
(* takes precedence, followed by subsequent ones."  So no name is made up for a track that *)
(* one of the lines picked names.                                                          *)
NameIsNotMadeUp ==
  [][\A f \in File : written'[f] # written[f] /\ written'[f][1].title = Placeholder =>
       \A i \in DOMAIN picked : PickedLines[i].title \in {0, Placeholder}]_vars
=============================================================================
