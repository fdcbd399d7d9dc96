----------------------------- MODULE MCRequery -----------------------------
(* Requery with discs whose last track ends anywhere in a second, with data *)
(* tracks before and behind the audio, and with releases of several media.  *)
EXTENDS Requery

Track(start, frames, audio) == [start |-> start, end |-> start + frames - 1, audio |-> audio]

(* Two tracks, behind a data track or not. *)
TwoTracks(first, frames1, frames2) ==
  (IF first > 0 THEN <<Track(0, first, FALSE)>> ELSE <<>>)
    \o <<Track(first, frames1, TRUE), Track(first + frames1, frames2, TRUE)>>

(* A single long one, for which the percentage is more than the minimum. *)
LongTrack(frames) == <<Track(0, frames, TRUE)>>

DataBehind(tracks) ==
  LET end == tracks[Len(tracks)].end + 1 IN Append(tracks, Track(end + 11400, 3000, FALSE))

DataOnly == <<Track(0, 3000, FALSE)>>

(* The drive may name a last sector before, at, or behind the audio's. *)
Discs ==
  {[tracks |-> t, last |-> t[Len(t)].end] :
     t \in {TwoTracks(first, f1, f2) : first \in {0, 301}, f1 \in {150, 374}, f2 \in {75, 149, 374, 375}}
           \cup {LongTrack(f) : f \in {7574, 7575}} \cup {DataOnly}}
  \cup {[tracks |-> DataBehind(TwoTracks(0, 150, f2)), last |-> last] :
          f2 \in {149, 374}, last \in {400, 523, 20000}}

OwnLengths(d) == [i \in DOMAIN Starts(d) |-> ExpectedMs(BuildToc(d), i)]
OwnId(d) == DiscId(Starts(d), Leadout(d))

Medium(id, discs, count, lengths) == [id |-> id, discs |-> discs, count |-> count, lengths |-> lengths]

(* The disc with its disc ID, the disc without, one with the same number of *)
(* tracks, one with more to which the disc ID was attached all the same,    *)
(* one without lengths, and one that does not say how many tracks it has.   *)
Releases(d) ==
  LET n == Len(Starts(d))
      own(id, discs) == Medium(id, discs, n, OwnLengths(d))
      other == Medium("other", {}, n, [i \in 1..n |-> 1000 * (i + 9)])
      longer == Medium("longer", {OwnId(d)}, n + 1, Append(OwnLengths(d), 5000))
      untimed == Medium("untimed", {OwnId(d)}, n, [i \in 1..n |-> 0])
      uncounted == Medium("uncounted", {OwnId(d)}, -1, OwnLengths(d))
  IN {[id |-> "r1", media |-> {other, own("m1", {OwnId(d)})}],
      [id |-> "r2", media |-> {own("m2", {}), other}],
      [id |-> "r3", media |-> {longer, untimed, uncounted}]}

MCAlbums == {[tracks |-> d.tracks, last |-> d.last, releases |-> Releases(d)] : d \in Discs}
=============================================================================
