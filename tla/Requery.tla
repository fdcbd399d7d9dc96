------------------------------ MODULE Requery ------------------------------
(***************************************************************************)
(* The life of a disc's table of contents: read from the drive, written    *)
(* into the tags of a file with the metadata of an entry, rebuilt from the *)
(* tags in update mode, and compared with what MusicBrainz knows, any      *)
(* number of times.  Positions are in sectors, lengths in milliseconds.    *)
(*                                                                         *)
(* A MusicBrainz disc ID is a hash of the offsets and of the lead-out; it  *)
(* is represented by what is hashed.  The CDDB disc ID is copied and never *)
(* interpreted, so that it is left out.                                    *)
(***************************************************************************)
EXTENDS Integers, Sequences, FiniteSetsExt

CONSTANTS
  Albums,     \* sets of [tracks, last, releases]: a disc, and what is known of it
  Tolerance   \* recrawl_track_length_tolerance_percent

FramesPerSec == 75
LeadIn == 150
None == "none"   \* an empty MusicBrainz ID

Audio(disc) == SelectSeq(disc.tracks, LAMBDA t : t.audio)

Starts(disc) == [i \in DOMAIN Audio(disc) |-> Audio(disc)[i].start]

(* The last sector that the drive names, but not before the end of the audio. *)
Leadout(disc) == Max({disc.last + 1} \cup {Audio(disc)[i].end + 1 : i \in DOMAIN Audio(disc)})

(* Audio tracks are in order, and the last one is not shorter than a second *)
(* (the standard asks for four).  What MusicBrainz knows has an ID.         *)
ASSUME RequeryAssumption ==
  /\ Tolerance \in Nat
  /\ \A disc \in Albums : Audio(disc) # <<>> =>
       /\ Starts(disc) \in Seq(Nat) /\ Len(Starts(disc)) > 0
       /\ \A i \in 1..(Len(Starts(disc)) - 1) : Starts(disc)[i] < Starts(disc)[i + 1]
       /\ Leadout(disc) \in Nat
       /\ Leadout(disc) >= Starts(disc)[Len(Starts(disc))] + FramesPerSec
       /\ \A i \in DOMAIN Starts(disc) : Audio(disc)[i].end \in Nat
  /\ \A disc \in Albums : \A r \in disc.releases :
       r.id # None /\ \A m \in r.media : m.id # None /\ m.count \in Int

VARIABLES
  pc,      \* "start", "toc", "entry", "filed", "done"
  album,   \* the disc and its releases; never changes
  toc,     \* CdRipDiscToc, or <<>>
  entry,   \* the entry selected, or <<>>
  file     \* the tags of one file, or <<>>; an absent tag is 0, None or <<>>

vars == <<pc, album, toc, entry, file>>

(* compute_musicbrainz_discid, of the track starts and the lead-out. *)
DiscId(start, leadout) == [offsets |-> [i \in DOMAIN start |-> start[i] + LeadIn], leadout |-> leadout + LeadIn]

-----------------------------------------------------------------------------
(* The table of contents of a disc and of a file.                          *)

(* cdrip_build_disc_toc: the audio tracks only. *)
BuildToc(disc) ==
  [start |-> Starts(disc),
   end |-> [i \in DOMAIN Audio(disc) |-> Audio(disc)[i].end],
   leadout |-> Leadout(disc),
   seconds |-> Leadout(disc) \div FramesPerSec,
   discid |-> DiscId(Starts(disc), Leadout(disc)),
   release |-> None, medium |-> None]

Frames(f) == f.seconds * FramesPerSec

EndOf(f, i) == IF i < Len(f.offsets) THEN f.offsets[i + 1] - 1 ELSE Frames(f) - 1

(* cdrip_collect_cddb_queries_from_path skips any other file. *)
Readable(f) ==
  /\ f.offsets # <<>> /\ f.seconds > 0
  /\ f.total \in {0, Len(f.offsets)}
  /\ \A i \in DOMAIN f.offsets : EndOf(f, i) >= f.offsets[i]

TaggedLeadout(f) == IF f.leadout > LeadIn THEN f.leadout - LeadIn ELSE Frames(f)

(* Mutant: the lead-in is not taken off the tag. *)
TaggedTocLeadIn(f) ==
  [start |-> f.offsets, end |-> [i \in DOMAIN f.offsets |-> EndOf(f, i)],
   leadout |-> IF f.leadout > LeadIn THEN f.leadout ELSE Frames(f),
   seconds |-> f.seconds, discid |-> f.discid, release |-> f.release, medium |-> f.medium]

(* cdrip_collect_cddb_queries_from_path: the disc's length is known in      *)
(* seconds only, so that the last track may end early.                      *)
TaggedToc(f) ==
  [start |-> f.offsets,
   end |-> [i \in DOMAIN f.offsets |-> EndOf(f, i)],
   leadout |-> TaggedLeadout(f),
   seconds |-> f.seconds,
   discid |-> IF f.discid = <<>> /\ f.leadout # 0 THEN DiscId(f.offsets, TaggedLeadout(f)) ELSE f.discid,
   release |-> f.release, medium |-> f.medium]

-----------------------------------------------------------------------------
(* What MusicBrainz answers.  A medium has the disc IDs attached to it, the *)
(* number of its tracks (or -1) and the lengths of those listed (or 0).     *)

QueryId(t) == IF t.discid # <<>> THEN t.discid ELSE DiscId(t.start, t.leadout)

(* track_lengths_match_for_recrawl *)
ExpectedMs(t, i) == (2000 * (t.end[i] - t.start[i] + 1) + FramesPerSec) \div (2 * FramesPerSec)

(* Mutant: there is no minimum. *)
AllowedPercent(ms) == (ms * Tolerance + 99) \div 100

AllowedMs(ms) == Max({1000, (ms * Tolerance + 99) \div 100})

LengthsMatch(m, t) ==
  \A i \in DOMAIN t.start :
    /\ m.lengths[i] > 0
    /\ m.lengths[i] - ExpectedMs(t, i) \in -AllowedMs(ExpectedMs(t, i))..AllowedMs(ExpectedMs(t, i))

(* medium_matches_for_recrawl *)
StrictlyMatches(m, t) ==
  /\ Len(m.lengths) = Len(t.start)
  /\ m.count > 0 => m.count = Len(t.start)
  /\ LengthsMatch(m, t)

IsLinked(m, t) == QueryId(t) \in m.discs

(* medium_matches *)
MediumMatches(m, t) ==
  \/ t.medium # None /\ m.id = t.medium
  \/ \E d \in m.discs : d.offsets = QueryId(t).offsets
  \/ m.count > 0 /\ m.count = Len(t.start)

(* Media with the disc ID, or else those that may be it. *)
Candidates(media, t) ==
  LET linked == {m \in media : IsLinked(m, t)} IN
    IF linked # {} THEN linked ELSE {m \in media : MediumMatches(m, t)}

(* Mutant: the strict filter is off. *)
SelectMediaLenient(media, t) == Candidates(media, t)

(* select_matching_media, with the strict filter as all its callers have it. *)
SelectMedia(media, t) == {m \in Candidates(media, t) : StrictlyMatches(m, t)}

(* build_entries_from_release, one entry per medium; entries that are       *)
(* merged give the IDs of the first.                                        *)
EntryOf(r, m) == [total |-> IF m.count > 0 THEN m.count ELSE 0, release |-> r.id, medium |-> m.id]

(* An entry of a CDDB server, or the fallback. *)
PlainEntry == [total |-> 0, release |-> None, medium |-> None]

-----------------------------------------------------------------------------

(* Mutant: a medium in the tags is kept. *)
TagsKeepingMedium(t, e) ==
  [total |-> IF e.total > 0 THEN e.total ELSE Len(t.start), offsets |-> t.start, seconds |-> t.seconds,
   discid |-> t.discid, leadout |-> IF t.discid # <<>> THEN t.leadout + LeadIn ELSE 0,
   release |-> IF e.release # None THEN e.release ELSE t.release,
   medium |-> IF t.medium # None THEN t.medium ELSE e.medium]

(* append_requery_seed_tags, and the entry's tags over them. *)
Tags(t, e) ==
  [total |-> IF e.total > 0 THEN e.total ELSE Len(t.start),
   offsets |-> t.start,
   seconds |-> t.seconds,
   discid |-> t.discid,
   leadout |-> IF t.discid # <<>> THEN t.leadout + LeadIn ELSE 0,
   release |-> IF e.release # None THEN e.release ELSE t.release,
   medium |-> IF e.medium # None THEN e.medium ELSE t.medium]

(* Files that others made of the disc: with the tags of CDDB, without the   *)
(* disc ID, or without any. *)
ForeignFiles(disc) ==
  {[total |-> total, offsets |-> Starts(disc), seconds |-> Leadout(disc) \div FramesPerSec, discid |-> <<>>,
    leadout |-> leadout, release |-> None, medium |-> None] :
      total \in {0, Len(Starts(disc))}, leadout \in {0, Leadout(disc) + LeadIn}}
  \cup {[total |-> 0, offsets |-> <<>>, seconds |-> 0, discid |-> <<>>,
         leadout |-> 0, release |-> None, medium |-> None]}

Init ==
  /\ album \in Albums
  /\ toc = <<>> /\ entry = <<>>
  /\ \/ pc = "start" /\ file = <<>>
     \/ pc = "filed" /\ Audio(album) # <<>> /\ file \in ForeignFiles(album)

(* The disc is read to be ripped; one without audio is refused. *)
ReadDisc ==
  /\ pc = "start"
  /\ IF Audio(album) # <<>> THEN pc' = "toc" /\ toc' = BuildToc(album)
                            ELSE pc' = "done" /\ toc' = toc
  /\ UNCHANGED <<album, entry, file>>

(* The servers are asked, and an entry is selected.  MusicBrainz is asked   *)
(* for the release in the tags, or else for the disc ID; if that fails, a   *)
(* title search may still find any release.                                 *)
Select ==
  /\ pc = "toc"
  /\ \/ \E r \in album.releases : \E m \in SelectMedia(r.media, toc) : entry' = EntryOf(r, m)
     \/ entry' = PlainEntry
  /\ pc' = "entry"
  /\ UNCHANGED <<album, toc, file>>

(* A ripped file is tagged, or the tags of a file are replaced. *)
WriteTags ==
  /\ pc = "entry"
  /\ file' = Tags(toc, entry)
  /\ pc' = "filed"
  /\ UNCHANGED <<album, toc, entry>>

(* Update mode reads the file back; one without the tags is skipped. *)
Collect ==
  /\ pc = "filed"
  /\ IF Readable(file) THEN pc' = "toc" /\ toc' = TaggedToc(file)
                       ELSE pc' = "done" /\ toc' = toc
  /\ UNCHANGED <<album, entry, file>>

Next == ReadDisc \/ Select \/ WriteTags \/ Collect

Spec == Init /\ [][Next]_vars

-----------------------------------------------------------------------------

(* A file that was written once can be updated for ever: no entry, however  *)
(* many tracks its medium has, makes its tags contradict each other.        *)
FilesStayUpdatable == pc = "filed" /\ entry # <<>> => Readable(file)

(* What identifies the disc goes through the tags and back unchanged,       *)
(* however often, and a disc ID that is missing is the right one when it    *)
(* is computed again.                                                       *)
SeedsAreOfTheDisc ==
  pc = "filed" /\ entry # <<>> =>
    /\ file.offsets = Starts(album)
    /\ file.seconds = Leadout(album) \div FramesPerSec
    /\ file.discid \in {<<>>, DiscId(Starts(album), Leadout(album))}
    /\ file.leadout = IF file.discid # <<>> THEN Leadout(album) + LeadIn ELSE 0

(* The release and the medium in the tags belong together, after updates    *)
(* from other releases too.                                                 *)
ReleaseAndMediumAgree ==
  pc = "filed" =>
    \/ file.release = None /\ file.medium = None
    \/ \E r \in album.releases : r.id = file.release /\ \E m \in r.media : m.id = file.medium

(* A disc of audio tracks with nothing in between and nothing behind. *)
IsContiguous(disc) ==
  /\ Leadout(disc) = Audio(disc)[Len(Starts(disc))].end + 1
  /\ \A i \in 1..(Len(Starts(disc)) - 1) : Audio(disc)[i].end + 1 = Starts(disc)[i + 1]

IsOwn(m) ==
  /\ m.count = Len(Starts(album))
  /\ m.lengths = [i \in DOMAIN Starts(album) |-> ExpectedMs(BuildToc(album), i)]

(* The medium that the disc is, with the lengths it has, is never filtered  *)
(* out, although update mode knows the last track only to the second.       *)
OwnMediumIsKept ==
  pc = "toc" /\ IsContiguous(album) =>
    \A r \in album.releases : \A m \in r.media :
      IsOwn(m) /\ (IsLinked(m, toc) \/ \A n \in r.media : ~IsLinked(n, toc)) => m \in SelectMedia(r.media, toc)
=============================================================================
