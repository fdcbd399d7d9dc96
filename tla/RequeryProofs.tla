--------------------------- MODULE RequeryProofs ---------------------------
(***************************************************************************)
(* What goes through the tags of a file and back, for every disc, every    *)
(* set of releases and every tolerance.                                    *)
(*                                                                         *)
(* The inductive invariant IInv says that the table of contents at hand is *)
(* of the disc (TocInv), wherever it was read from, that the entry at hand *)
(* has as many tracks (EntryInv), and so that a file that was written has  *)
(* tags that can be read back (FileInv).                                   *)
(***************************************************************************)
EXTENDS Requery, TLAPS

TheId == DiscId(Starts(album), Leadout(album))
Seconds == Leadout(album) \div FramesPerSec

(* Release and medium of a table of contents, an entry or a file. *)
Agree(r, m) ==
  \/ r = None /\ m = None
  \/ \E x \in album.releases : x.id = r /\ \E y \in x.media : y.id = m

TocInv ==
  pc \in {"toc", "entry"} =>
    /\ toc.start = Starts(album) /\ toc.seconds = Seconds
    /\ toc.discid \in {<<>>, TheId}
    /\ toc.discid # <<>> => toc.leadout = Leadout(album)
    /\ Agree(toc.release, toc.medium)

EntryInv ==
  pc = "entry" =>
    /\ entry # <<>>
    /\ entry.total \in {0, Len(Starts(album))}
    /\ \/ entry.release = None /\ entry.medium = None
       \/ entry.release # None /\ entry.medium # None /\ Agree(entry.release, entry.medium)

FileInv ==
  pc = "filed" =>
    /\ file \in ForeignFiles(album) \/ entry # <<>>
    /\ entry # <<>> => file.total \in {0, Len(Starts(album))}

(* Where the tracks of a disc without gaps end, as far as is known. *)
EndInv ==
  pc = "toc" /\ IsContiguous(album) =>
    /\ \A i \in 1..(Len(Starts(album)) - 1) : toc.end[i] = Starts(album)[i + 1] - 1
    /\ toc.end[Len(Starts(album))] \in {Leadout(album) - 1, Seconds * FramesPerSec - 1}

IInv ==
  /\ album \in Albums
  /\ pc \in {"toc", "entry", "filed"} => Audio(album) # <<>>
  /\ TocInv /\ EntryInv /\ FileInv /\ EndInv
  /\ SeedsAreOfTheDisc /\ ReleaseAndMediumAgree

-----------------------------------------------------------------------------

(* What is assumed of the disc at hand. *)
LEMMA DiscFacts ==
  ASSUME album \in Albums, Audio(album) # <<>>
  PROVE  /\ Starts(album) \in Seq(Nat) /\ Len(Starts(album)) > 0
         /\ \A i \in 1..(Len(Starts(album)) - 1) : Starts(album)[i] < Starts(album)[i + 1]
         /\ Leadout(album) \in Nat
         /\ Leadout(album) >= Starts(album)[Len(Starts(album))] + FramesPerSec
         /\ Starts(album)[Len(Starts(album))] \in Nat
  <1>1. /\ Starts(album) \in Seq(Nat) /\ Len(Starts(album)) > 0
        /\ \A i \in 1..(Len(Starts(album)) - 1) : Starts(album)[i] < Starts(album)[i + 1]
        /\ Leadout(album) \in Nat
        /\ Leadout(album) >= Starts(album)[Len(Starts(album))] + FramesPerSec
    BY RequeryAssumption, Zenon
  <1>2. Starts(album)[Len(Starts(album))] \in Nat
    BY <1>1
  <1> QED
    BY <1>1, <1>2, Zenon

(* Whole seconds lose less than one. *)
LEMMA WholeSeconds ==
  ASSUME NEW n \in Nat
  PROVE  /\ n \div FramesPerSec \in Nat
         /\ (n \div FramesPerSec) * FramesPerSec \in (n - FramesPerSec + 1)..n
  BY SMT DEF FramesPerSec

(* The lead-out is behind the lead-in when it comes from the tags. *)
LEMMA LeadoutComesBack ==
  ASSUME album \in Albums, Audio(album) # <<>>, NEW f, f.leadout = Leadout(album) + LeadIn
  PROVE  TaggedLeadout(f) = Leadout(album) /\ f.leadout # 0
  <1>1. Leadout(album) \in Nat /\ Leadout(album) > 0
    BY DiscFacts DEF FramesPerSec
  <1> QED
    BY <1>1 DEF TaggedLeadout, LeadIn

(* Where the tracks end that were read from the disc. *)
LEMMA DiscEnds ==
  ASSUME album \in Albums, Audio(album) # <<>>, IsContiguous(album)
  PROVE  /\ \A i \in 1..(Len(Starts(album)) - 1) : BuildToc(album).end[i] = Starts(album)[i + 1] - 1
         /\ BuildToc(album).end[Len(Starts(album))] = Leadout(album) - 1
  <1> DEFINE n == Len(Starts(album))
  <1>1. n \in Nat /\ n > 0 /\ DOMAIN Starts(album) = 1..n
    BY DiscFacts
  <1>2. \A i \in 1..n : Audio(album)[i].end \in Nat
    BY <1>1, RequeryAssumption, Zenon
  <1>3. DOMAIN Audio(album) = 1..n
    BY <1>1 DEF Starts
  <1>4. \A i \in 1..n : BuildToc(album).end[i] = Audio(album)[i].end
    BY <1>3 DEF BuildToc
  <1>5. /\ Leadout(album) = Audio(album)[n].end + 1
        /\ \A i \in 1..(n - 1) : Audio(album)[i].end + 1 = Starts(album)[i + 1]
    BY DEF IsContiguous
  <1> HIDE DEF n
  <1>6. ASSUME NEW i \in 1..(n - 1) PROVE BuildToc(album).end[i] = Starts(album)[i + 1] - 1
    <2>1. i \in 1..n
      BY <1>1
    <2>2. Audio(album)[i].end \in Nat /\ Audio(album)[i].end + 1 = Starts(album)[i + 1]
      BY <1>2, <1>5, <2>1
    <2> QED
      BY <1>4, <2>1, <2>2
  <1>7. n \in 1..n
    BY <1>1
  <1>8. BuildToc(album).end[n] = Leadout(album) - 1
    BY <1>2, <1>4, <1>5, <1>7
  <1> QED
    BY <1>6, <1>8 DEF n

(* Where the tracks end that were rebuilt from tags. *)
LEMMA TaggedEnds ==
  ASSUME album \in Albums, Audio(album) # <<>>,
         NEW f, f.offsets = Starts(album), f.seconds = Seconds
  PROVE  /\ \A i \in 1..(Len(Starts(album)) - 1) : TaggedToc(f).end[i] = Starts(album)[i + 1] - 1
         /\ TaggedToc(f).end[Len(Starts(album))] = Seconds * FramesPerSec - 1
  <1> DEFINE n == Len(Starts(album))
  <1>1. n \in Nat /\ n > 0 /\ DOMAIN Starts(album) = 1..n
    BY DiscFacts
  <1>2. \A i \in 1..n : TaggedToc(f).end[i] = EndOf(f, i)
    BY <1>1 DEF TaggedToc
  <1>3. \A i \in 1..n : EndOf(f, i) = IF i < n THEN Starts(album)[i + 1] - 1 ELSE Seconds * FramesPerSec - 1
    BY DEF EndOf, Frames
  <1> HIDE DEF n
  <1>4. n \in 1..n /\ ~(n < n) /\ \A i \in 1..(n - 1) : i \in 1..n /\ i < n
    BY <1>1
  <1> QED
    BY <1>2, <1>3, <1>4 DEF n

(* The invariant holds at first. *)
LEMMA InitIInv == Init => IInv
  <1> SUFFICES ASSUME Init PROVE IInv
    OBVIOUS
  <1>1. CASE pc = "start"
    BY <1>1 DEF Init, IInv, TocInv, EntryInv, FileInv, EndInv, SeedsAreOfTheDisc, ReleaseAndMediumAgree
  <1>2. CASE pc = "filed"
    <2>1. file \in ForeignFiles(album) /\ Audio(album) # <<>> /\ entry = <<>> /\ album \in Albums
      BY <1>2 DEF Init
    <2>2. file.release = None /\ file.medium = None
      BY <2>1 DEF ForeignFiles
    <2> QED
      BY <1>2, <2>1, <2>2 DEF IInv, TocInv, EntryInv, FileInv, EndInv, SeedsAreOfTheDisc, ReleaseAndMediumAgree
  <1> QED
    BY <1>1, <1>2 DEF Init

(* The disc is read. *)
LEMMA ReadDiscStep ==
  ASSUME IInv, ReadDisc
  PROVE  IInv'
  <1>1. album' = album /\ entry' = entry /\ file' = file /\ album \in Albums
    BY DEF ReadDisc, IInv
  <1>2. CASE Audio(album) # <<>>
    <2>1. pc' = "toc" /\ toc' = BuildToc(album)
      BY <1>2 DEF ReadDisc
    <2>2. TocInv'
      <3>1. toc'.start = Starts(album) /\ toc'.seconds = Seconds /\ toc'.discid = TheId
        BY <2>1 DEF BuildToc, Seconds, TheId
      <3>2. toc'.leadout = Leadout(album) /\ toc'.release = None /\ toc'.medium = None
        BY <2>1 DEF BuildToc
      <3> QED
        BY <1>1, <3>1, <3>2, Zenon DEF TocInv, Agree, TheId, Seconds
    <2>3. EndInv'
      BY <1>1, <1>2, <2>1, DiscEnds DEF EndInv, IsContiguous, Seconds
    <2> QED
      BY <1>1, <1>2, <2>1, <2>2, <2>3 DEF IInv, EntryInv, FileInv, SeedsAreOfTheDisc, ReleaseAndMediumAgree
  <1>3. CASE Audio(album) = <<>>
    BY <1>1, <1>3 DEF ReadDisc, IInv, TocInv, EntryInv, FileInv, EndInv, SeedsAreOfTheDisc, ReleaseAndMediumAgree
  <1> QED
    BY <1>2, <1>3

(* An entry that is selected has the disc's tracks. *)
LEMMA SelectStep ==
  ASSUME IInv, Select
  PROVE  IInv'
  <1>1. /\ album' = album /\ toc' = toc /\ file' = file /\ pc = "toc" /\ pc' = "entry"
        /\ album \in Albums /\ Audio(album) # <<>> /\ TocInv
    BY DEF Select, IInv
  <1>2. EntryInv'
    <2>1. CASE entry' = PlainEntry
      <3>1. entry'.total = 0 /\ entry'.release = None /\ entry'.medium = None /\ entry' # <<>>
        BY <2>1 DEF PlainEntry
      <3> QED
        BY <1>1, <3>1 DEF EntryInv
    <2>2. ASSUME NEW r \in album.releases, NEW m \in SelectMedia(r.media, toc), entry' = EntryOf(r, m)
          PROVE  EntryInv'
      <3>1. m \in r.media /\ (m.count > 0 => m.count = Len(toc.start))
        BY DEF SelectMedia, Candidates, StrictlyMatches
      <3>2. r.id # None /\ m.id # None
        BY <1>1, <3>1, RequeryAssumption
      <3>3. toc.start = Starts(album)
        BY <1>1 DEF TocInv
      <3>4. /\ entry'.total \in {0, Len(Starts(album))}
            /\ entry'.release = r.id /\ entry'.medium = m.id /\ entry' # <<>>
        BY <2>2, <3>1, <3>3 DEF EntryOf
      <3>5. Agree(entry.release, entry.medium)'
        BY <1>1, <3>1, <3>4 DEF Agree
      <3> QED
        BY <1>1, <3>2, <3>4, <3>5 DEF EntryInv
    <2> QED
      BY <2>1, <2>2 DEF Select
  <1>3. TocInv'
    BY <1>1 DEF TocInv, Agree, TheId, Seconds
  <1> QED
    BY <1>1, <1>2, <1>3 DEF IInv, FileInv, EndInv, SeedsAreOfTheDisc, ReleaseAndMediumAgree

(* What is written is of the disc, and release and medium come together. *)
LEMMA WriteTagsStep ==
  ASSUME IInv, WriteTags
  PROVE  IInv'
  <1>1. /\ album' = album /\ toc' = toc /\ entry' = entry /\ pc = "entry" /\ pc' = "filed"
        /\ album \in Albums /\ Audio(album) # <<>> /\ TocInv /\ EntryInv /\ file' = Tags(toc, entry)
    BY DEF WriteTags, IInv
  <1>2. /\ toc.start = Starts(album) /\ toc.seconds = Seconds /\ toc.discid \in {<<>>, TheId}
        /\ toc.discid # <<>> => toc.leadout = Leadout(album)
        /\ Agree(toc.release, toc.medium)
        /\ entry # <<>> /\ entry.total \in {0, Len(Starts(album))}
        /\ \/ entry.release = None /\ entry.medium = None
           \/ entry.release # None /\ entry.medium # None /\ Agree(entry.release, entry.medium)
    BY <1>1 DEF TocInv, EntryInv
  <1>3. /\ file'.total \in {0, Len(Starts(album))}
        /\ file'.offsets = Starts(album) /\ file'.seconds = Seconds
        /\ file'.discid = toc.discid
        /\ file'.leadout = IF toc.discid # <<>> THEN toc.leadout + LeadIn ELSE 0
        /\ file'.release = IF entry.release # None THEN entry.release ELSE toc.release
        /\ file'.medium = IF entry.medium # None THEN entry.medium ELSE toc.medium
    BY <1>1, <1>2 DEF Tags
  <1>4. SeedsAreOfTheDisc'
    BY <1>1, <1>2, <1>3 DEF SeedsAreOfTheDisc, TheId, Seconds
  <1>5. ReleaseAndMediumAgree'
    BY <1>1, <1>2, <1>3 DEF ReleaseAndMediumAgree, Agree
  <1> QED
    BY <1>1, <1>2, <1>3, <1>4, <1>5 DEF IInv, TocInv, EntryInv, FileInv, EndInv

(* What is read back is of the disc. *)
LEMMA CollectStep ==
  ASSUME IInv, Collect
  PROVE  IInv'
  <1>1. /\ album' = album /\ entry' = entry /\ file' = file /\ pc = "filed" /\ album \in Albums
        /\ Audio(album) # <<>> /\ FileInv /\ SeedsAreOfTheDisc /\ ReleaseAndMediumAgree
    BY DEF Collect, IInv
  <1>2. CASE ~Readable(file)
    BY <1>1, <1>2 DEF Collect, IInv, TocInv, EntryInv, FileInv, EndInv, SeedsAreOfTheDisc, ReleaseAndMediumAgree
  <1>3. CASE Readable(file)
    <2>1. pc' = "toc" /\ toc' = TaggedToc(file)
      BY <1>3 DEF Collect
    <2>2. /\ toc'.start = file.offsets /\ toc'.seconds = file.seconds
          /\ toc'.leadout = TaggedLeadout(file)
          /\ toc'.discid = IF file.discid = <<>> /\ file.leadout # 0
                           THEN DiscId(file.offsets, TaggedLeadout(file)) ELSE file.discid
          /\ toc'.release = file.release /\ toc'.medium = file.medium
      BY <2>1 DEF TaggedToc
    <2>3. /\ file.offsets = Starts(album) /\ file.seconds = Seconds /\ file.discid \in {<<>>, TheId}
          /\ file.leadout \in {0, Leadout(album) + LeadIn}
          /\ file.discid # <<>> => file.leadout = Leadout(album) + LeadIn
      <3>1. CASE entry # <<>>
        BY <1>1, <3>1 DEF SeedsAreOfTheDisc, TheId, Seconds
      <3>2. CASE file \in ForeignFiles(album)
        BY <1>3, <3>2 DEF Readable, ForeignFiles, Seconds
      <3> QED
        BY <1>1, <3>1, <3>2 DEF FileInv
    <2>4. /\ toc'.discid \in {<<>>, TheId}
          /\ toc'.discid # <<>> => toc'.leadout = Leadout(album)
      <3>1. CASE file.leadout = Leadout(album) + LeadIn
        <4>1. TaggedLeadout(file) = Leadout(album)
          BY <1>1, <3>1, LeadoutComesBack
        <4> QED
          BY <2>2, <2>3, <4>1, Zenon DEF TheId
      <3>2. CASE file.leadout = 0
        <4>1. file.discid = <<>>
          BY <1>1, <2>3, <3>2, LeadoutComesBack
        <4> QED
          BY <2>2, <3>2, <4>1
      <3> QED
        BY <2>3, <3>1, <3>2
    <2>5. Agree(file.release, file.medium)
      BY <1>1 DEF ReleaseAndMediumAgree, Agree
    <2>6. TocInv'
      BY <1>1, <2>2, <2>3, <2>4, <2>5 DEF TocInv, Agree, TheId, Seconds
    <2>7. EndInv'
      BY <1>1, <2>1, <2>3, TaggedEnds DEF EndInv, IsContiguous, Seconds
    <2> QED
      BY <1>1, <2>1, <2>6, <2>7 DEF IInv, EntryInv, FileInv, SeedsAreOfTheDisc, ReleaseAndMediumAgree
  <1> QED
    BY <1>2, <1>3

(* The inductive invariant holds in every reachable state. *)
THEOREM Invariance == Spec => []IInv
  <1>1. IInv /\ UNCHANGED vars => IInv'
    BY DEF vars, IInv, TocInv, EntryInv, FileInv, EndInv, SeedsAreOfTheDisc, ReleaseAndMediumAgree, Agree, TheId, Seconds
  <1>2. IInv /\ [Next]_vars => IInv'
    BY <1>1, ReadDiscStep, SelectStep, WriteTagsStep, CollectStep DEF Next
  <1> QED
    BY InitIInv, <1>2, PTL DEF Spec

-----------------------------------------------------------------------------

(* The tags identify the disc, however often they were rewritten. *)
THEOREM SeedsCorrect == Spec => []SeedsAreOfTheDisc
  <1>1. IInv => SeedsAreOfTheDisc
    BY DEF IInv
  <1> QED
    BY Invariance, <1>1, PTL

(* Release and medium in the tags belong together. *)
THEOREM AgreementCorrect == Spec => []ReleaseAndMediumAgree
  <1>1. IInv => ReleaseAndMediumAgree
    BY DEF IInv
  <1> QED
    BY Invariance, <1>1, PTL

(* A file that was written can be read back, for every disc with a last     *)
(* track of a second at least.                                              *)
THEOREM UpdatableCorrect == Spec => []FilesStayUpdatable
  <1>1. ASSUME IInv, pc = "filed", entry # <<>>
        PROVE  Readable(file)
    <2> DEFINE n == Len(Starts(album))
    <2>1. /\ album \in Albums /\ Audio(album) # <<>>
          /\ file.offsets = Starts(album) /\ file.seconds = Seconds /\ file.total \in {0, n}
      BY <1>1 DEF IInv, SeedsAreOfTheDisc, FileInv, Seconds
    <2>2. /\ Starts(album) \in Seq(Nat) /\ n \in Nat /\ n > 0
          /\ \A i \in 1..(n - 1) : Starts(album)[i] < Starts(album)[i + 1]
          /\ Leadout(album) \in Nat /\ Starts(album)[n] \in Nat
          /\ Leadout(album) >= Starts(album)[n] + FramesPerSec
      BY <2>1, DiscFacts
    <2>3. file.offsets # <<>>
      BY <2>1, <2>2
    <2>4. /\ Seconds \in Nat
          /\ Seconds * FramesPerSec >= Leadout(album) - FramesPerSec + 1
          /\ Seconds * FramesPerSec \in Int
      BY <2>2, WholeSeconds DEF Seconds, FramesPerSec
    <2>5. Seconds > 0
      BY <2>2, <2>4 DEF FramesPerSec
    <2>6. Frames(file) = Seconds * FramesPerSec
      BY <2>1 DEF Frames
    <2>7. ASSUME NEW i \in DOMAIN file.offsets
          PROVE  EndOf(file, i) >= file.offsets[i]
      <3>1. i \in 1..n
        BY <2>1, <2>2
      <3>2. CASE i < n
        <4>1. i \in 1..(n - 1) /\ i + 1 \in 1..n
          BY <2>2, <3>1, <3>2
        <4>2. Starts(album)[i] < Starts(album)[i + 1] /\ Starts(album)[i] \in Nat /\ Starts(album)[i + 1] \in Nat
          BY <2>2, <4>1
        <4>3. EndOf(file, i) = Starts(album)[i + 1] - 1
          BY <2>1, <3>2 DEF EndOf
        <4> QED
          BY <2>1, <4>2, <4>3
      <3>3. CASE i = n
        <4>1. EndOf(file, i) = Seconds * FramesPerSec - 1
          BY <2>1, <2>2, <2>6, <3>3 DEF EndOf
        <4> QED
          BY <2>1, <2>2, <2>4, <3>3, <4>1 DEF FramesPerSec
      <3> QED
        BY <2>2, <3>1, <3>2, <3>3
    <2> QED
      BY <2>1, <2>3, <2>5, <2>7 DEF Readable
  <1>2. IInv => FilesStayUpdatable
    BY <1>1 DEF FilesStayUpdatable
  <1> QED
    BY Invariance, <1>2, PTL

-----------------------------------------------------------------------------
(* Lengths. *)

(* Every length may be a second off. *)
LEMMA ASecondIsAllowed ==
  ASSUME NEW ms \in Nat
  PROVE  AllowedMs(ms) \in Nat /\ AllowedMs(ms) >= 1000
  <1> DEFINE percent == (ms * Tolerance + 99) \div 100
  <1>1. ms * Tolerance \in Nat
    BY RequeryAssumption
  <1>2. percent \in Nat
    <2> \A n \in Nat : (n + 99) \div 100 \in Nat
      BY SMT
    <2> QED
      BY <1>1
  <1> HIDE DEF percent
  <1>3. \E x \in {1000, percent} : \A y \in {1000, percent} : x >= y
    BY <1>2
  <1>4. AllowedMs(ms) = CHOOSE x \in {1000, percent} : \A y \in {1000, percent} : x >= y
    BY Zenon DEF AllowedMs, Max, percent
  <1>5. AllowedMs(ms) \in {1000, percent} /\ AllowedMs(ms) >= 1000
    BY <1>3, <1>4
  <1> QED
    BY <1>2, <1>5

(* A track that is known to the sector. *)
LEMMA NoneMissing ==
  ASSUME NEW start \in Nat, NEW next \in Nat, start < next, NEW end, NEW end1 \in Nat,
         end1 + 1 = next, end = next - 1
  PROVE  \E d \in Nat : \E k \in 0..(FramesPerSec - 1) :
           k < d /\ end1 - start + 1 = d /\ end - start + 1 = d - k
  <1>1. next - start \in Nat /\ 0 \in 0..(FramesPerSec - 1) /\ 0 < next - start
    BY DEF FramesPerSec
  <1>2. end1 - start + 1 = next - start /\ end - start + 1 = (next - start) - 0
    OBVIOUS
  <1> QED
    BY <1>1, <1>2, Zenon

(* A last track that is known to the second. *)
LEMMA LessThanASecondMissing ==
  ASSUME NEW start \in Nat, NEW leadout \in Nat, leadout >= start + FramesPerSec, NEW end1 \in Nat,
         end1 + 1 = leadout,
         NEW frames \in (leadout - FramesPerSec + 1)..leadout, NEW end \in {leadout - 1, frames - 1}
  PROVE  \E d \in Nat : \E k \in 0..(FramesPerSec - 1) :
           k < d /\ end1 - start + 1 = d /\ end - start + 1 = d - k
  <1>1. leadout - start \in Nat /\ end1 - start + 1 = leadout - start
    BY DEF FramesPerSec
  <1>2. /\ leadout - 1 - end \in 0..(FramesPerSec - 1) /\ leadout - 1 - end < leadout - start
        /\ end - start + 1 = (leadout - start) - (leadout - 1 - end)
    BY DEF FramesPerSec
  <1> QED
    BY <1>1, <1>2, Zenon

(* The lengths of the medium that the disc is are matched. *)
LEMMA OwnLengthsMatch ==
  ASSUME IInv, pc = "toc", IsContiguous(album), NEW m, IsOwn(m)
  PROVE  LengthsMatch(m, toc)
  <1> DEFINE n == Len(Starts(album))
             own == BuildToc(album)
  <1>1. /\ album \in Albums /\ Audio(album) # <<>> /\ toc.start = Starts(album)
        /\ \A i \in 1..(n - 1) : toc.end[i] = Starts(album)[i + 1] - 1
        /\ toc.end[n] \in {Leadout(album) - 1, Seconds * FramesPerSec - 1}
    BY DEF IInv, TocInv, EndInv
  <1>2. /\ Starts(album) \in Seq(Nat) /\ n \in Nat /\ n > 0 /\ DOMAIN Starts(album) = 1..n
        /\ \A i \in 1..(n - 1) : Starts(album)[i] < Starts(album)[i + 1]
        /\ Leadout(album) \in Nat /\ Starts(album)[n] \in Nat
        /\ Leadout(album) >= Starts(album)[n] + FramesPerSec
    BY <1>1, DiscFacts
  <1>3. \A i \in 1..n : Audio(album)[i].end \in Nat
    BY <1>1, <1>2, RequeryAssumption, Zenon
  <1>4. DOMAIN Audio(album) = 1..n
    BY <1>2 DEF Starts
  <1>5. own.start = Starts(album) /\ \A i \in 1..n : own.end[i] = Audio(album)[i].end
    BY <1>4 DEF BuildToc
  <1> HIDE DEF own
  <1>6. ASSUME NEW i \in DOMAIN toc.start
        PROVE  \E d \in Nat : \E k \in 0..(FramesPerSec - 1) :
                 /\ k < d
                 /\ own.end[i] - own.start[i] + 1 = d
                 /\ toc.end[i] - toc.start[i] + 1 = d - k
    <2>1. i \in 1..n
      BY <1>1, <1>2, <1>6, Zenon
    <2>2. /\ own.start[i] = Starts(album)[i] /\ toc.start[i] = Starts(album)[i]
          /\ own.end[i] = Audio(album)[i].end /\ Audio(album)[i].end \in Nat
      BY <1>1, <1>3, <1>5, <2>1, Zenon
    <2>3. CASE i < n
      <3>1. i \in 1..(n - 1) /\ i + 1 \in 1..n
        BY <1>2, <2>1, <2>3
      <3>2. /\ Audio(album)[i].end + 1 = Starts(album)[i + 1]
            /\ Starts(album)[i] < Starts(album)[i + 1]
            /\ toc.end[i] = Starts(album)[i + 1] - 1
        BY <1>1, <1>2, <3>1, Zenon DEF IsContiguous
      <3>3. Starts(album)[i] \in Nat /\ Starts(album)[i + 1] \in Nat
        BY <1>2, <3>1
      <3> QED
        BY <2>2, <3>2, <3>3, NoneMissing
    <2>4. CASE i = n
      <3>1. /\ own.start[i] = Starts(album)[n] /\ toc.start[i] = Starts(album)[n]
            /\ own.end[i] + 1 = Leadout(album) /\ own.end[i] \in Nat
            /\ toc.end[i] \in {Leadout(album) - 1, Seconds * FramesPerSec - 1}
        <4>1. Audio(album)[n].end + 1 = Leadout(album)
          BY Zenon DEF IsContiguous
        <4> QED
          BY <1>1, <2>2, <2>4, <4>1, Zenon
      <3> DEFINE frames == Seconds * FramesPerSec
      <3>2. frames \in (Leadout(album) - FramesPerSec + 1)..Leadout(album)
        BY <1>2, WholeSeconds DEF Seconds
      <3>3. toc.end[i] \in {Leadout(album) - 1, frames - 1}
        BY <3>1, Zenon
      <3> HIDE DEF frames
      <3>4. \E d \in Nat : \E k \in 0..(FramesPerSec - 1) :
              /\ k < d
              /\ own.end[i] - Starts(album)[n] + 1 = d
              /\ toc.end[i] - Starts(album)[n] + 1 = d - k
        <4> DEFINE start == Starts(album)[n]
                   leadout == Leadout(album)
                   end == toc.end[i]
                   end1 == own.end[i]
        <4>1. /\ start \in Nat /\ leadout \in Nat /\ leadout >= start + FramesPerSec
              /\ end1 \in Nat /\ end1 + 1 = leadout
              /\ frames \in (leadout - FramesPerSec + 1)..leadout /\ end \in {leadout - 1, frames - 1}
          BY <1>2, <3>1, <3>2, <3>3, Zenon
        <4> HIDE DEF start, leadout, end, end1
        <4>2. \E d \in Nat : \E k \in 0..(FramesPerSec - 1) :
                k < d /\ end1 - start + 1 = d /\ end - start + 1 = d - k
          BY <4>1, LessThanASecondMissing
        <4> QED
          BY <4>2, Zenon DEF start, end, end1
      <3> QED
        BY <3>1, <3>4, Zenon
    <2> QED
      BY <1>2, <2>1, <2>3, <2>4
  <1>7. ASSUME NEW i \in DOMAIN toc.start
        PROVE  /\ m.lengths[i] > 0
               /\ m.lengths[i] - ExpectedMs(toc, i)
                    \in -AllowedMs(ExpectedMs(toc, i))..AllowedMs(ExpectedMs(toc, i))
    <2>1. m.lengths[i] = ExpectedMs(own, i)
      BY <1>1, <1>7 DEF IsOwn, own
    <2>2. PICK d \in Nat : \E k \in 0..(FramesPerSec - 1) :
            k < d /\ own.end[i] - own.start[i] + 1 = d /\ toc.end[i] - toc.start[i] + 1 = d - k
      BY <1>6, <1>7
    <2>3. PICK k \in 0..(FramesPerSec - 1) :
            k < d /\ own.end[i] - own.start[i] + 1 = d /\ toc.end[i] - toc.start[i] + 1 = d - k
      BY <2>2
    <2> DEFINE Ms(x) == (2000 * x + FramesPerSec) \div (2 * FramesPerSec)
    <2>4. /\ ExpectedMs(own, i) = Ms(own.end[i] - own.start[i] + 1)
          /\ ExpectedMs(toc, i) = Ms(toc.end[i] - toc.start[i] + 1)
      BY Zenon DEF ExpectedMs
    \* Less than a second is less than 988 milliseconds, with rounding.
    <2>5. Ms(d) \in Nat /\ Ms(d) > 0 /\ Ms(d - k) \in Nat /\ Ms(d) - Ms(d - k) \in 0..988
      <3>1. d \in Nat /\ k \in 0..(FramesPerSec - 1) /\ k < d
        BY <2>2, <2>3, Zenon
      <3> QED
        BY <3>1, SMT DEF FramesPerSec
    <2> HIDE DEF Ms
    <2>6. ExpectedMs(own, i) = Ms(d) /\ ExpectedMs(toc, i) = Ms(d - k)
      BY <2>3, <2>4, Zenon
    <2>7. /\ ExpectedMs(own, i) \in Nat /\ ExpectedMs(own, i) > 0 /\ ExpectedMs(toc, i) \in Nat
          /\ ExpectedMs(own, i) - ExpectedMs(toc, i) \in 0..988
      BY <2>5, <2>6
    <2>8. AllowedMs(ExpectedMs(toc, i)) \in Nat /\ AllowedMs(ExpectedMs(toc, i)) >= 1000
      BY <2>7, ASecondIsAllowed
    <2> QED
      BY <2>1, <2>7, <2>8
  <1> QED
    BY <1>7 DEF LengthsMatch

(* The medium that the disc is survives the strict filter, although the     *)
(* last track of a file's disc is known to the second only.                 *)
THEOREM OwnMediumCorrect == Spec => []OwnMediumIsKept
  <1>1. ASSUME IInv, pc = "toc", IsContiguous(album), NEW r \in album.releases, NEW m \in r.media, IsOwn(m),
               IsLinked(m, toc) \/ \A x \in r.media : ~IsLinked(x, toc)
        PROVE  m \in SelectMedia(r.media, toc)
    <2> DEFINE n == Len(Starts(album))
    <2>1. toc.start = Starts(album) /\ Starts(album) \in Seq(Nat) /\ n \in Nat /\ n > 0
      BY <1>1, DiscFacts DEF IInv, TocInv
    <2>2. m.count = Len(toc.start) /\ m.count > 0
      BY <1>1, <2>1 DEF IsOwn
    <2>3. Len(m.lengths) = Len(toc.start)
      <3>1. DOMAIN Starts(album) = 1..n
        BY <2>1
      <3>2. m.lengths = [i \in 1..n |-> ExpectedMs(BuildToc(album), i)]
        BY <1>1, <3>1 DEF IsOwn
      <3> QED
        BY <2>1, <3>2
    <2>4. LengthsMatch(m, toc)
      BY <1>1, OwnLengthsMatch
    <2>5. StrictlyMatches(m, toc)
      BY <2>2, <2>3, <2>4, Zenon DEF StrictlyMatches
    <2>6. m \in Candidates(r.media, toc)
      <3>1. MediumMatches(m, toc)
        BY <2>2 DEF MediumMatches
      <3> QED
        BY <1>1, <3>1, Zenon DEF Candidates
    <2> QED
      BY <2>5, <2>6 DEF SelectMedia
  <1>2. IInv => OwnMediumIsKept
    BY <1>1, Zenon DEF OwnMediumIsKept
  <1> QED
    BY Invariance, <1>2, PTL

-----------------------------------------------------------------------------
(* An update to the same entry.                                            *)

(* The tags that an entry gives to a disc, but for what only the disc's     *)
(* tags may say.                                                            *)
TagsOf(e, discid, release, medium) ==
  [total |-> IF e.total > 0 THEN e.total ELSE Len(Starts(album)),
   offsets |-> Starts(album),
   seconds |-> Seconds,
   discid |-> discid,
   leadout |-> IF discid # <<>> THEN Leadout(album) + LeadIn ELSE 0,
   release |-> IF e.release # None THEN e.release ELSE release,
   medium |-> IF e.medium # None THEN e.medium ELSE medium]

(* The entry that a file was written with is still at hand. *)
WrittenInv ==
  pc = "filed" /\ entry # <<>> =>
    \E discid \in {<<>>, TheId}, release \in {toc.release}, medium \in {toc.medium} :
      file = TagsOf(entry, discid, release, medium)

LEMMA WrittenInvariance == Spec => []WrittenInv
  <1>1. Init => WrittenInv
    BY DEF Init, WrittenInv
  <1>2. IInv /\ WrittenInv /\ [Next]_vars => WrittenInv'
    <2> SUFFICES ASSUME IInv, WrittenInv, [Next]_vars PROVE WrittenInv'
      OBVIOUS
    <2>1. CASE WriteTags
      <3>1. /\ album' = album /\ toc' = toc /\ entry' = entry /\ file' = Tags(toc, entry)
            /\ toc.start = Starts(album) /\ toc.seconds = Seconds /\ toc.discid \in {<<>>, TheId}
            /\ toc.discid # <<>> => toc.leadout = Leadout(album)
        BY <2>1 DEF WriteTags, IInv, TocInv
      <3>2. file' = TagsOf(entry, toc.discid, toc.release, toc.medium)
        BY <3>1 DEF Tags, TagsOf
      <3> QED
        BY <3>1, <3>2 DEF WrittenInv, TagsOf, TheId, Seconds
    <2>2. CASE ReadDisc \/ Select \/ Collect
      BY <2>2 DEF ReadDisc, Select, Collect, WrittenInv
    <2>3. CASE UNCHANGED vars
      BY <2>3 DEF vars, WrittenInv, TagsOf, TheId, Seconds
    <2> QED
      BY <2>1, <2>2, <2>3 DEF Next
  <1> QED
    BY <1>1, <1>2, Invariance, PTL DEF Spec

(* Updating a file once more, to the entry that it was written with,        *)
(* changes none of its tags: neither the total nor the lead-out drifts, and *)
(* a disc ID that was missing stays missing.                                *)
THEOREM UpdateIsIdempotent ==
  Spec => [](pc = "filed" /\ entry # <<>> => Tags(TaggedToc(file), entry) = file)
  <1>1. ASSUME IInv, WrittenInv, pc = "filed", entry # <<>>
        PROVE  Tags(TaggedToc(file), entry) = file
    <2>1. album \in Albums /\ Audio(album) # <<>>
      BY <1>1 DEF IInv
    <2>2. PICK discid \in {<<>>, TheId}, release \in {toc.release}, medium \in {toc.medium} :
            file = TagsOf(entry, discid, release, medium)
      BY <1>1 DEF WrittenInv
    <2>3. /\ file.offsets = Starts(album) /\ file.seconds = Seconds /\ file.discid = discid
          /\ file.leadout = IF discid # <<>> THEN Leadout(album) + LeadIn ELSE 0
          /\ file.release = IF entry.release # None THEN entry.release ELSE release
          /\ file.medium = IF entry.medium # None THEN entry.medium ELSE medium
      BY <2>2 DEF TagsOf
    <2> DEFINE again == TaggedToc(file)
    <2>4. /\ again.start = Starts(album) /\ again.seconds = Seconds
          /\ again.release = file.release /\ again.medium = file.medium
          /\ again.leadout = TaggedLeadout(file)
          /\ again.discid = IF file.discid = <<>> /\ file.leadout # 0
                            THEN DiscId(file.offsets, TaggedLeadout(file)) ELSE file.discid
      BY <2>3 DEF TaggedToc
    <2>5. again.discid = discid
      BY <2>3, <2>4
    <2>6. discid # <<>> => again.leadout = Leadout(album)
      BY <2>1, <2>3, <2>4, LeadoutComesBack
    <2> HIDE DEF again
    <2>7. Tags(again, entry) = TagsOf(entry, discid, file.release, file.medium)
      BY <2>4, <2>5, <2>6 DEF Tags, TagsOf
    <2>8. TagsOf(entry, discid, file.release, file.medium) = file
      BY <2>2, <2>3 DEF TagsOf
    <2> QED
      BY <2>7, <2>8 DEF again
  <1> QED
    BY <1>1, Invariance, WrittenInvariance, PTL
=============================================================================
