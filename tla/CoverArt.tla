------------------------------ MODULE CoverArt ------------------------------
(***************************************************************************)
(* Choosing and fetching the cover art of an album                         *)
(* (ensure_cover_art_merged, src/src/main.cpp; the two fetch functions,    *)
(* src/src/cdrip/cover_art.cpp), once for a disc that is ripped, or for    *)
(* one file of an album after the other in update mode, where what was     *)
(* fetched is kept in the metadata cache (run_update_mode).                *)
(*                                                                         *)
(* Any download may fail, and succeed when it is tried again.  A picture   *)
(* is the source and the entry it was fetched for.  All files are of one   *)
(* album, so they share a cache key.                                       *)
(***************************************************************************)
EXTENDS Naturals, Sequences, FiniteSetsExt, SequencesExt

CONSTANTS
  E,      \* entries that match the album
  F,      \* files to update
  NoArt

Entries == 1..E
Merged == 0                   \* the entry made of several selected ones
Source == {"caa", "discogs"}  \* Cover Art Archive, Discogs
Art == [source: Source, entry: Entries]
Switch == {"on", "off"}
Options == [command: {"rip", "update"}, auto: Switch, repeat: Switch, discogs: {"no", "always", "fallback"}]

ASSUME CoverArtAssumption == E \in Nat \ {0} /\ F \in Nat \ {0} /\ NoArt \notin Art

VARIABLES
  options,   \* command, -a, -r, -dc
  offers,    \* offers[e]: the sources entry e has an id for; none if it is not MusicBrainz's
  cache,     \* metadata_cache: the pictures of the cached entries, or <<>>
  files,     \* files dealt with
  embedded,  \* embedded[f]: the picture written to file f
  pc,
  chosen,    \* selected_entries
  target,    \* selected: the only chosen entry, or Merged
  cover,     \* the pictures of the entries in hand
  phase,     \* which of the phases of the call it is in
  next,      \* the position in chosen that is asked next
  hadError,  \* had_error of this phase
  attempt,   \* the two candidates of the interactive mode
  told,      \* source_out
  result,    \* what ensure_cover_art_merged returned
  denied     \* history: in this call, denied[s] are the entries that s had no picture for

call == <<chosen, target, cover, phase, next, hadError, attempt, told, result, denied>>
disc == <<options, offers>>
store == <<cache, files, embedded>>
vars == <<disc, store, pc, call>>

(* allow_source_choice: a person is there to choose. *)
Interactive == options.auto = "off" /\ (options.command = "update" \/ options.repeat = "off")

Init ==
  /\ options \in Options
  /\ offers \in [Entries -> SUBSET Source]
  /\ cache = <<>> /\ files = 0
  /\ embedded = [f \in 1..F |-> NoArt]
  /\ pc = "select"
  /\ chosen = <<>> /\ target = Merged
  /\ cover = [e \in Entries \cup {Merged} |-> NoArt]
  /\ phase = 0 /\ next = 1 /\ hadError = FALSE
  /\ attempt = [s \in Source |-> NoArt]
  /\ told = "none" /\ result = "none"
  /\ denied = [s \in Source |-> {}]

(* The entries a person may choose, in order; alone, the first one is taken. *)
Selections ==
  IF options.auto = "on" THEN {<<1>>}
  ELSE {s \in UNION {[1..n -> Entries] : n \in 1..E} : IsInjective(s)}

(* Entries come with the pictures the cache has for them, or from the       *)
(* servers, without any; then they are cached as they are.                  *)
SelectEntries ==
  /\ pc = "select"
  /\ files < (IF options.command = "rip" THEN 1 ELSE F)
  /\ chosen' \in Selections
  /\ target' = IF Len(chosen') = 1 THEN chosen'[1] ELSE Merged
  /\ cover' = [e \in Entries \cup {Merged} |-> IF e = Merged \/ cache = <<>> THEN NoArt ELSE cache[e]]
  /\ cache' = IF options.command = "update" /\ cache = <<>> THEN [e \in Entries |-> NoArt] ELSE cache
  /\ phase' = 0 /\ next' = 1 /\ hadError' = FALSE
  /\ attempt' = [s \in Source |-> NoArt]
  /\ told' = "none" /\ result' = "none"
  /\ denied' = [s \in Source |-> {}]
  /\ pc' = "begin"
  /\ UNCHANGED <<disc, files, embedded>>

-----------------------------------------------------------------------------
(* ensure_cover_art_merged *)

Return(r) == result' = r /\ pc' = "returned"

(* Mutant: Discogs is never first. *)
PhasesCaaFirst ==
  IF options.discogs = "no" THEN <<"caa">> ELSE <<"caa", "discogs", "caa">>

(* The sources in the order they are asked; the third phase is a retry. *)
Phases ==
  IF Interactive THEN <<"caa", "discogs">>
  ELSE CASE options.discogs = "always" -> <<"discogs", "caa", "discogs">>
         [] options.discogs = "fallback" -> <<"caa", "discogs", "caa">>
         [] options.discogs = "no" -> <<"caa">>

HasCover(e) == cover[e] # NoArt

(* A picture that is there already may do. *)
Begin ==
  /\ pc = "begin"
  /\ LET covered == {i \in DOMAIN chosen : HasCover(chosen[i])}
     IN  \/ /\ HasCover(target) /\ options.discogs # "always"
            /\ Return("true")
            /\ UNCHANGED <<cover, phase>>
         \/ /\ ~HasCover(target) /\ covered # {}
            /\ cover' = [cover EXCEPT ![target] = cover[chosen[Min(covered)]]]
            /\ Return("true")
            /\ UNCHANGED phase
         \/ /\ IF HasCover(target) THEN options.discogs = "always" ELSE covered = {}
            /\ phase' = 1 /\ pc' = "ask"
            /\ UNCHANGED <<cover, result>>
  /\ UNCHANGED <<disc, store, chosen, target, next, hadError, attempt, told, denied>>

(* Mutant: the last entry is asked first. *)
AskedLastFirst == chosen[Len(chosen) + 1 - next]

Asked == chosen[next]

(* What asking a source for the picture of an entry can lead to.  Without    *)
(* an id of the entry there nothing is asked, and that is no error; with    *)
(* one the picture is found, or some step of the download fails.            *)
Outcomes(s, e) ==
  IF s \notin offers[e] THEN {[art |-> NoArt, error |-> FALSE]}
  ELSE {[art |-> [source |-> s, entry |-> e], error |-> FALSE], [art |-> NoArt, error |-> TRUE]}

(* cdrip_fetch_cover_art is content with the picture an entry has; the ids  *)
(* are those of the release and of the release group.                       *)
FetchCaa(e) == IF HasCover(e) THEN {[art |-> cover[e], error |-> FALSE]} ELSE Outcomes("caa", e)

(* cdrip_fetch_discogs_cover_art always looks for one; the id is the        *)
(* entry's DISCOGS_RELEASE.                                                 *)
FetchDiscogs(e) == Outcomes("discogs", e)

(* One entry is asked.  What is found goes to the target, or, when a person *)
(* will choose, is put aside.                                               *)
Found(art) ==
  IF Interactive
  THEN /\ attempt' = [attempt EXCEPT ![Phases[phase]] = art]
       /\ next' = Len(chosen) + 1
       /\ UNCHANGED <<cover, told, result, pc>>
  ELSE /\ cover' = [cover EXCEPT ![Asked] = art, ![target] = art]
       /\ told' = IF HasCover(Asked) THEN told ELSE Phases[phase]
       /\ Return("true")
       /\ UNCHANGED <<attempt, next>>

(* Mutant: the target is cleared before it is known that there is better. *)
FetchClearing ==
  /\ pc = "ask"
  /\ next <= Len(chosen)
  /\ LET s == Phases[phase] IN
       \E r \in IF s = "caa" THEN FetchCaa(Asked) ELSE FetchDiscogs(Asked) :
         \/ /\ r.art # NoArt
            /\ Found(r.art)
            /\ UNCHANGED <<hadError, denied>>
         \/ /\ r.art = NoArt
            /\ denied' = [denied EXCEPT ![s] = @ \cup {Asked}]
            /\ hadError' = (hadError \/ r.error)
            /\ next' = next + 1
            /\ cover' = [cover EXCEPT ![target] = NoArt]
            /\ UNCHANGED <<attempt, told, result, pc>>
  /\ UNCHANGED <<disc, store, chosen, target, phase>>

Fetch ==
  /\ pc = "ask"
  /\ next <= Len(chosen)
  /\ LET s == Phases[phase] IN
       \E r \in IF s = "caa" THEN FetchCaa(Asked) ELSE FetchDiscogs(Asked) :
         \/ /\ r.art # NoArt
            /\ Found(r.art)
            /\ UNCHANGED <<hadError, denied>>
         \/ /\ r.art = NoArt
            /\ denied' = [denied EXCEPT ![s] = @ \cup {Asked}]
            /\ hadError' = (hadError \/ r.error)
            /\ next' = next + 1
            /\ UNCHANGED <<cover, attempt, told, result, pc>>
  /\ UNCHANGED <<disc, store, chosen, target, phase>>

(* Mutant: the second source is asked only after an error. *)
MorePhasesOnError ==
  phase < Len(Phases) /\ hadError

(* The retry is made only if the phase before it saw an error, and a        *)
(* picture that is there is kept if Discogs has none.                       *)
MorePhases ==
  /\ phase < Len(Phases)
  /\ phase = 2 => hadError
  /\ ~Interactive => ~HasCover(target)

EndPhase ==
  /\ pc = "ask"
  /\ next > Len(chosen)
  /\ \/ /\ MorePhases
        /\ phase' = phase + 1 /\ next' = 1 /\ hadError' = FALSE
        /\ UNCHANGED <<result, pc>>
     \/ /\ ~MorePhases
        /\ IF Interactive THEN pc' = "offer" /\ UNCHANGED result
           ELSE Return(IF HasCover(target) THEN "true" ELSE "false")
        /\ UNCHANGED <<phase, next, hadError>>
  /\ UNCHANGED <<disc, store, chosen, target, cover, attempt, told, denied>>

(* A person chooses if there are two candidates; one is taken as it is. *)
Offer ==
  /\ pc = "offer"
  /\ LET candidates == {s \in Source : attempt[s] # NoArt}
     IN  \/ /\ candidates = {}
            /\ Return("false")
            /\ UNCHANGED <<cover, told>>
         \/ \E s \in candidates :
              /\ cover' = [cover EXCEPT ![target] = attempt[s]]
              /\ told' = s
              /\ Return("true")
  /\ UNCHANGED <<disc, store, chosen, target, phase, next, hadError, attempt, denied>>

-----------------------------------------------------------------------------

(* Mutant: the pictures are not put into the cache. *)
UpdateFileUncached ==
  /\ pc = "returned"
  /\ files' = files + 1
  /\ \E ok \in BOOLEAN :
       embedded' = IF ok THEN [embedded EXCEPT ![files'] = cover[target]] ELSE embedded
  /\ pc' = "select"
  /\ UNCHANGED <<disc, cache, call>>

(* After the call: the entries, but not a merged one, go back into the      *)
(* cache, and the file is written, or not.                                  *)
UpdateFile ==
  /\ pc = "returned"
  /\ files' = files + 1
  /\ cache' = IF options.command = "update" /\ result = "true" THEN [e \in Entries |-> cover[e]] ELSE cache
  /\ \E ok \in BOOLEAN :
       embedded' = IF ok THEN [embedded EXCEPT ![files'] = cover[target]] ELSE embedded
  /\ pc' = "select"
  /\ UNCHANGED <<disc, call>>

Next == SelectEntries \/ Begin \/ Fetch \/ EndPhase \/ Offer \/ UpdateFile

Spec == Init /\ [][Next]_vars

-----------------------------------------------------------------------------

TypeOK ==
  /\ options \in Options /\ offers \in [Entries -> SUBSET Source]
  /\ cache \in {<<>>} \cup [Entries -> Art \cup {NoArt}]
  /\ files \in 0..F
  /\ embedded \in [1..F -> Art \cup {NoArt}]
  /\ pc \in {"select", "begin", "ask", "offer", "returned"}
  /\ chosen \in Seq(Entries) /\ target \in Entries \cup {Merged}
  /\ cover \in [Entries \cup {Merged} -> Art \cup {NoArt}]
  /\ phase \in 0..3 /\ next \in 1..(E + 1) /\ hadError \in BOOLEAN
  /\ attempt \in [Source -> Art \cup {NoArt}]
  /\ told \in Source \cup {"none"} /\ result \in {"none", "true", "false"}
  /\ denied \in [Source -> SUBSET Entries]

(* Where nobody chooses, a picture comes from the source that -dc puts      *)
(* second only if the first had none for any of the entries, and never from *)
(* Discogs with -dc no.                                                     *)
PreferenceIsKept ==
  pc = "returned" /\ ~Interactive =>
    /\ told = "caa" /\ options.discogs = "always" => denied["discogs"] = ToSet(chosen)
    /\ told = "discogs" /\ options.discogs = "fallback" => denied["caa"] = ToSet(chosen)
    /\ options.discogs = "no" => told # "discogs"

(* The entry that was selected first gives the picture if it has one: all   *)
(* entries before the one it is from were asked.                            *)
EarlierEntryWins ==
  pc = "returned" /\ told # "none" /\ cover[target].source = told =>
    \A i, j \in DOMAIN chosen :
      i < j /\ chosen[j] = cover[target].entry => chosen[i] \in denied[told]

(* A picture the album has is replaced, never taken away. *)
PictureIsNeverLost ==
  [][pc # "select" /\ HasCover(target) => cover'[target] # NoArt]_vars

(* The call fails only if the album is without a picture then, and every    *)
(* source that may be used was asked for every entry.                       *)
FailsOnlyWithNothing ==
  pc = "returned" /\ result = "false" =>
    /\ ~HasCover(target)
    /\ \A s \in Source : s = "caa" \/ options.discogs # "no" \/ Interactive => denied[s] = ToSet(chosen)

(* In automatic mode, unless Discogs is always asked again, the files of an *)
(* album do not get different pictures, whatever failed in between.         *)
OnePicturePerAlbum ==
  options.auto = "on" /\ options.discogs # "always" =>
    \A f, g \in 1..F : embedded[f] # NoArt /\ embedded[g] # NoArt => embedded[f] = embedded[g]

(* README.md: when both Cover Art Archive and Discogs images are available, *)
(* both candidates are shown and one is chosen.  For the second file of an  *)
(* album the cached picture, from Discogs, passes for the archive's.        *)
CandidatesAreFromTheirSource ==
  pc = "offer" => \A s \in Source : attempt[s] # NoArt => attempt[s].source = s
=============================================================================
