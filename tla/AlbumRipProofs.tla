--------------------------- MODULE AlbumRipProofs ---------------------------
(***************************************************************************)
(* The safety of AlbumRip for any number of tracks, paths and runs.        *)
(*                                                                         *)
(* The inductive invariant IInv says, for every place in the program, what *)
(* the loops have achieved so far: which tracks the album state was fed,   *)
(* what the staging directory holds, what the .tmp sibling being moved is  *)
(* a copy of, which tracks have been published, and where a finished copy  *)
(* of each owned path is.                                                  *)
(***************************************************************************)
EXTENDS AlbumRip, TLAPS

Publishing == {"copy", "copying", "delete", "move"}
Ripping == {"track", "encode"} \cup Publishing
Active == Ripping \cup {"tag"}

(* A file that holds track t of the current run. *)
Holds(f, t) == f \in Rip /\ f.run = run /\ f.track = t /\ f.replaygain = replaygain

(* Where the program is: the places of each loop, and success so far. *)
PlaceInv ==
  /\ run = 0 => pc = "off"
  /\ pc \in Active => status = "ok"
  /\ stage = "album" => replaygain = "on" /\ scanned = Track
  /\ stage = "rip" => pc # "tag"
  /\ stage = "album" => pc \notin {"track", "encode"}
  /\ pc \in Publishing \cup {"encode"} => track \in Track

(* What the album state has been fed by the time the loop is at a track. *)
ScanInv ==
  /\ replaygain = "on" /\ stage = "rip" /\ pc \in {"track", "encode"} => scanned = 1..(track - 1)
  /\ replaygain = "on" /\ stage = "rip" /\ pc \in Publishing => scanned = 1..track

(* What the staging directory holds. *)
StageInv ==
  /\ replaygain = "on" /\ stage = "rip" /\ pc \in Ripping =>
       \A t \in Track : t < track => Holds(file[t], t)
  /\ stage = "album" /\ pc \in Active =>
       /\ \A t \in Track : Holds(file[t], t)
       /\ pc \in Publishing => file[track].album = Track

(* What is being published, and how far it got. *)
CopyInv ==
  /\ stage = "rip" /\ pc \in Publishing => Holds(local, track)
  /\ pc \in {"delete", "move"} => part[Target] = Source

GainInv == GainCoversAlbum

(* Tracks 1..k are at the destination, except under a path that is being    *)
(* replaced; of those with the same path it is the last one.                *)
Published(k, replacing) ==
  \A t \in 1..k :
    pathOf[t] \notin replacing /\ (\A u \in 1..k : pathOf[u] = pathOf[t] => u <= t)
      => Holds(file[pathOf[t]], t)

PublishInv ==
  /\ pc \in Active /\ (stage = "album" \/ replaygain = "off") =>
       Published(track - 1, IF pc = "move" THEN {Target} ELSE {})
  /\ pc \in {"cleanup", "done"} /\ status = "ok" => Published(N, {})

(* Where the finished copy of an owned path is. *)
OwnedInv ==
  \A p \in owned :
    /\ faults = 0 => file[p] \in Finished \/ (pc = "move" /\ p = Target)
    /\ faults = 1 => \/ file[p] \in Finished
                     \/ part[p] \in Finished
                     \/ pc = "copying" /\ p = Target
PathInv == \A p \in Paths : file[p] \in Finished \cup {Absent}

IInv ==
  /\ TypeOK /\ PlaceInv /\ ScanInv /\ StageInv /\ CopyInv
  /\ GainInv /\ PublishInv /\ OwnedInv /\ PathInv

-----------------------------------------------------------------------------

(* The invariant holds before the first run. *)
LEMMA InitIInv == Init => IInv
  <1> SUFFICES ASSUME Init PROVE IInv
    OBVIOUS
  <1> USE AlbumRipAssumption DEF Init
  <1>1. TypeOK
    BY DEF TypeOK, Name, Content, Finished, Switch
  <1>2. PlaceInv /\ ScanInv /\ StageInv /\ CopyInv /\ PublishInv
    BY DEF PlaceInv, ScanInv, StageInv, CopyInv, PublishInv, Active, Ripping, Publishing
  <1>3. \A p \in Paths : file[p] \in {Absent, Old}
    BY DEF Name
  <1>4. GainInv /\ OwnedInv /\ PathInv
    BY <1>3 DEF GainInv, GainCoversAlbum, OwnedInv, PathInv, Finished
  <1> QED
    BY <1>1, <1>2, <1>4 DEF IInv

(* Where publishing reads and writes. *)
LEMMA TargetFacts ==
  ASSUME IInv, pc \in Publishing
  PROVE  /\ Target \in Name
         /\ Source \in Rip
         /\ Holds(Source, track)
         /\ replaygain = "on" /\ stage = "rip" => Target = track /\ Target \notin Paths
         /\ ~(replaygain = "on" /\ stage = "rip") => Target \in Paths /\ Target \notin Track
  BY AlbumRipAssumption
     DEF IInv, TypeOK, PlaceInv, CopyInv, StageInv, Source, Target, Name, Track, Holds, Active, Ripping, Publishing

(* Every step keeps the types.  *)
LEMMA TypeStep == IInv /\ Next => TypeOK'
  <1> SUFFICES ASSUME IInv, Next PROVE TypeOK'
    OBVIOUS
  <1> USE DEF IInv, TypeOK, control
  <1>1. CASE StartRun
    BY <1>1, AlbumRipAssumption DEF StartRun, Name, Track, Content
  <1>2. CASE OpenTrack
    BY <1>2 DEF OpenTrack, Fail, Content
  <1>3. CASE Encode
    <2>1. run \in 1..MaxRuns /\ track \in Track
      BY <1>3, AlbumRipAssumption DEF Encode, PlaceInv
    <2>2. \A f \in {"ok", "lost"} :
            [run |-> run, track |-> track, replaygain |-> replaygain, album |-> {}, finish |-> f] \in Rip
      BY <2>1 DEF Rip
    <2>3. local' \in Content
      BY <1>3, <2>2 DEF Encode, Fail, Content, Finished
    <2>4. scanned' \subseteq Track
      BY <1>3, <2>1 DEF Encode
    <2> QED
      BY <1>3, <2>3, <2>4 DEF Encode, Fail
  <1>4. CASE BeginCopy
    BY <1>4, TargetFacts DEF BeginCopy, Fail, Content, Publishing
  <1>5. CASE EndCopy
    BY <1>5, TargetFacts DEF EndCopy, Fail, Content, Finished, Publishing
  <1>6. CASE DeleteOld
    BY <1>6, TargetFacts DEF DeleteOld, Content, Publishing
  <1>7. CASE MoveIn
    <2>1. pc \in Publishing /\ track \in 1..N
      BY <1>7 DEF MoveIn, Publishing, PlaceInv, Track
    <2>2. track + 1 \in 1..(N + 1)
      BY <2>1, AlbumRipAssumption
    <2> QED
      BY <1>7, <2>1, <2>2, TargetFacts DEF MoveIn, Fail, Content
  <1>8. CASE FinishRipping
    BY <1>8, AlbumRipAssumption DEF FinishRipping, Fail, Content
  <1>9. CASE TagStaged
    <2>1. track \in Name /\ file[track] \in Rip
      BY <1>9 DEF TagStaged, PlaceInv, StageInv, Holds, Active, Name, Track
    <2>2. [file[track] EXCEPT !.album = scanned] \in Rip
      BY <2>1 DEF Rip
    <2>3. file' \in [Name -> Content]
      BY <1>9, <2>1, <2>2 DEF TagStaged, Content, Finished
    <2> QED
      BY <1>9, <2>3 DEF TagStaged, Fail, Content
  <1>10. CASE FinishAlbum
    BY <1>10 DEF FinishAlbum
  <1>11. CASE Cleanup
    BY <1>11 DEF Cleanup, Content, Name
  <1>12. CASE Crash
    BY <1>12 DEF Crash
  <1>13. QED
    BY <1>1, <1>2, <1>3, <1>4, <1>5, <1>6, <1>7, <1>8, <1>9, <1>10, <1>11, <1>12 DEF Next, Work

(* Every step keeps the loops' bookkeeping: no success after a failure, no *)
(* album loop before the track loop has seen every track.                   *)
LEMMA PlaceStep == IInv /\ Next => PlaceInv'
  <1> SUFFICES ASSUME IInv, Next PROVE PlaceInv'
    OBVIOUS
  <1> USE AlbumRipAssumption DEF IInv, TypeOK, PlaceInv, control, Active, Ripping, Publishing
  <1>1. CASE StartRun
    BY <1>1 DEF StartRun
  <1>2. CASE OpenTrack
    BY <1>2 DEF OpenTrack, Fail, Track
  <1>3. CASE Encode
    BY <1>3 DEF Encode, Fail
  <1>4. CASE BeginCopy
    BY <1>4 DEF BeginCopy, Fail
  <1>5. CASE EndCopy
    BY <1>5 DEF EndCopy, Fail
  <1>6. CASE DeleteOld
    BY <1>6 DEF DeleteOld
  <1>7. CASE MoveIn
    BY <1>7 DEF MoveIn, Fail
  <1>8. CASE FinishRipping
    <2>1. track = N + 1
      BY <1>8 DEF FinishRipping
    <2>2. replaygain = "on" => scanned = Track
      BY <1>8, <2>1 DEF FinishRipping, ScanInv, Track
    <2> QED
      BY <1>8, <2>2 DEF FinishRipping, Fail
  <1>9. CASE TagStaged
    BY <1>9 DEF TagStaged, Fail, Track
  <1>10. CASE FinishAlbum
    BY <1>10 DEF FinishAlbum
  <1>11. CASE Cleanup
    BY <1>11 DEF Cleanup
  <1>12. CASE Crash
    BY <1>12 DEF Crash
  <1>13. QED
    BY <1>1, <1>2, <1>3, <1>4, <1>5, <1>6, <1>7, <1>8, <1>9, <1>10, <1>11, <1>12 DEF Next, Work

(* Every step keeps the album state in line with the track loop. *)
LEMMA ScanStep == IInv /\ Next => ScanInv'
  <1> SUFFICES ASSUME IInv, Next PROVE ScanInv'
    OBVIOUS
  <1> USE AlbumRipAssumption DEF IInv, TypeOK, ScanInv, control, Publishing
  <1>1. CASE StartRun
    BY <1>1 DEF StartRun
  <1>2. CASE OpenTrack
    BY <1>2 DEF OpenTrack, Fail
  <1>3. CASE Encode
    <2>1. track \in Nat /\ track >= 1
      BY DEF TypeOK
    <2>2. CASE scanned' = scanned \cup {track} /\ pc' = "copy" /\ replaygain = "on"
      BY <1>3, <2>1, <2>2 DEF Encode, PlaceInv
    <2> QED
      BY <1>3, <2>2 DEF Encode, Fail
  <1>4. CASE BeginCopy
    BY <1>4 DEF BeginCopy, Fail
  <1>5. CASE EndCopy
    BY <1>5 DEF EndCopy, Fail
  <1>6. CASE DeleteOld
    BY <1>6 DEF DeleteOld
  <1>7. CASE MoveIn
    BY <1>7 DEF MoveIn, Fail
  <1>8. CASE FinishRipping
    BY <1>8 DEF FinishRipping, Fail
  <1>9. CASE TagStaged
    BY <1>9 DEF TagStaged, Fail, PlaceInv
  <1>10. CASE FinishAlbum
    BY <1>10 DEF FinishAlbum
  <1>11. CASE Cleanup
    BY <1>11 DEF Cleanup
  <1>12. CASE Crash
    BY <1>12 DEF Crash
  <1>13. QED
    BY <1>1, <1>2, <1>3, <1>4, <1>5, <1>6, <1>7, <1>8, <1>9, <1>10, <1>11, <1>12 DEF Next, Work

(* Every step keeps the staging directory complete up to the current track. *)
LEMMA StageStep == IInv /\ Next => StageInv'
  <1> SUFFICES ASSUME IInv, Next PROVE StageInv'
    OBVIOUS
  <1> USE AlbumRipAssumption DEF IInv, TypeOK, StageInv, Holds, control, Active, Ripping, Publishing
  <1>1. CASE StartRun
    BY <1>1 DEF StartRun, Track
  <1>2. CASE OpenTrack
    BY <1>2 DEF OpenTrack, Fail
  <1>3. CASE Encode
    <2>1. UNCHANGED <<run, replaygain, stage, track, file>> /\ pc = "encode"
      BY <1>3 DEF Encode
    <2>2. stage = "rip" /\ pc' \in {"copy", "cleanup"}
      BY <1>3, <2>1 DEF Encode, Fail, PlaceInv
    <2> QED
      BY <2>1, <2>2
  <1>4. CASE BeginCopy
    BY <1>4 DEF BeginCopy, Fail
  <1>5. CASE EndCopy
    BY <1>5 DEF EndCopy, Fail
  <1>6. CASE DeleteOld
    <2>1. /\ stage = "rip" /\ replaygain = "on" => Target = track
          /\ stage = "album" => Target \notin Track
      BY <1>6, TargetFacts DEF DeleteOld, PlaceInv
    <2>2. \A t \in Track : t # Target => file'[t] = file[t]
      BY <1>6 DEF DeleteOld, Name
    <2> QED
      BY <1>6, <2>1, <2>2 DEF DeleteOld, PlaceInv
  <1>7. CASE MoveIn
    <2>1. CASE pc' = "cleanup"
      BY <2>1
    <2>2. CASE pc' # "cleanup"
      <3>1. /\ file' = [file EXCEPT ![Target] = part[Target]]
            /\ track' = track + 1
            /\ UNCHANGED <<run, replaygain, pathOf, stage>>
            /\ pc' \in {"track", "tag"}
        BY <1>7, <2>2 DEF MoveIn, Fail
      <3>2. CASE stage = "rip" /\ replaygain = "on"
        <4>1. Target = track /\ Holds(part[track], track)
          BY <1>7, <3>2, TargetFacts DEF MoveIn, CopyInv
        <4>2. \A t \in Track : t < track' => file'[t] = IF t = track THEN part[t] ELSE file[t]
          BY <3>1, <4>1 DEF Name, Track
        <4> QED
          BY <1>7, <3>1, <3>2, <4>1, <4>2 DEF MoveIn, Track
      <3>3. CASE stage = "album"
        <4>1. Target \notin Track
          BY <1>7, <3>3, TargetFacts DEF MoveIn, PlaceInv
        <4> QED
          BY <1>7, <3>1, <3>3, <4>1 DEF MoveIn, Name
      <3> QED
        BY <1>7, <3>1, <3>2, <3>3 DEF MoveIn, Switch
    <2> QED
      BY <2>1, <2>2
  <1>8. CASE FinishRipping
    BY <1>8 DEF FinishRipping, Fail, Track
  <1>9. CASE TagStaged
    <2>1. stage = "album" /\ track \in Track /\ scanned = Track
      BY <1>9 DEF TagStaged, PlaceInv, Track
    <2>2. CASE pc' = "cleanup"
      BY <2>2
    <2>3. CASE file' = [file EXCEPT ![track].album = scanned]
      <3>1. file' = [file EXCEPT ![track] = [file[track] EXCEPT !.album = scanned]]
        BY <2>3
      <3>2. Holds(file[track], track)
        BY <1>9, <2>1 DEF TagStaged
      <3>3. LET f == [file[track] EXCEPT !.album = scanned]
            IN  Holds(f, track) /\ f.album = Track
        BY <2>1, <3>2 DEF Rip
      <3> QED
        BY <1>9, <2>1, <3>1, <3>3 DEF TagStaged, Name, Fail
    <2> QED
      BY <1>9, <2>2, <2>3 DEF TagStaged, Fail
  <1>10. CASE FinishAlbum
    BY <1>10 DEF FinishAlbum
  <1>11. CASE Cleanup
    BY <1>11 DEF Cleanup
  <1>12. CASE Crash
    BY <1>12 DEF Crash
  <1>13. QED
    BY <1>1, <1>2, <1>3, <1>4, <1>5, <1>6, <1>7, <1>8, <1>9, <1>10, <1>11, <1>12 DEF Next, Work

(* Every step keeps what is being published the current track's file. *)
LEMMA CopyStep == IInv /\ Next => CopyInv'
  <1> SUFFICES ASSUME IInv, Next PROVE CopyInv'
    OBVIOUS
  <1> USE AlbumRipAssumption DEF IInv, TypeOK, CopyInv, control
  <1>1. CASE StartRun
    BY <1>1 DEF StartRun, Publishing
  <1>2. CASE OpenTrack
    BY <1>2 DEF OpenTrack, Fail, Publishing
  <1>3. CASE Encode
    <2>1. run \in 1..MaxRuns /\ track \in Track
      BY <1>3, AlbumRipAssumption DEF Encode, PlaceInv
    <2>2. pc' = "copy" => Holds(local, track)'
      BY <1>3, <2>1 DEF Encode, Fail, Holds, Rip
    <2> QED
      BY <1>3, <2>2 DEF Encode, Fail, Publishing
  <1>4. CASE BeginCopy
    BY <1>4 DEF BeginCopy, Fail, Publishing, Holds
  <1>5. CASE EndCopy
    <2>1. UNCHANGED <<run, replaygain, stage, track, pathOf, file>>
      BY <1>5 DEF EndCopy
    <2>2. Target' = Target
      BY <2>1 DEF Target
    <2>3. CASE pc' = "delete" /\ part' = [part EXCEPT ![Target] = Source] /\ UNCHANGED local
      <3>1. Source' = Source
        BY <2>1, <2>3 DEF Source
      <3>2. part'[Target] = Source
        BY <1>5, <2>3, TargetFacts DEF EndCopy, Publishing
      <3>3. stage = "rip" => Holds(local, track)'
        BY <1>5, <2>1, <2>3 DEF EndCopy, Holds, Publishing
      <3> QED
        BY <2>1, <2>2, <2>3, <3>1, <3>2, <3>3
    <2>4. CASE pc' = "cleanup"
      BY <2>4 DEF Publishing
    <2> QED
      BY <1>5, <2>3, <2>4 DEF EndCopy, Fail
  <1>6. CASE DeleteOld
    <2>1. UNCHANGED <<run, replaygain, stage, track, pathOf, part, local>> /\ pc = "delete" /\ pc' = "move"
      BY <1>6 DEF DeleteOld
    <2>2. Target' = Target
      BY <2>1 DEF Target
    <2>3. Source' = Source
      <3>1. stage = "album" => track \in Track /\ Target # track
        BY <2>1, TargetFacts DEF PlaceInv, Publishing
      <3>2. stage = "album" => file'[track] = file[track]
        BY <1>6, <3>1 DEF DeleteOld, Name
      <3> QED
        BY <2>1, <3>2 DEF Source
    <2> QED
      BY <2>1, <2>2, <2>3 DEF Holds, Publishing
  <1>7. CASE MoveIn
    BY <1>7 DEF MoveIn, Fail, Publishing
  <1>8. CASE FinishRipping
    BY <1>8 DEF FinishRipping, Fail, Publishing
  <1>9. CASE TagStaged
    BY <1>9 DEF TagStaged, Fail, PlaceInv, Publishing
  <1>10. CASE FinishAlbum
    BY <1>10 DEF FinishAlbum, Publishing
  <1>11. CASE Cleanup
    BY <1>11 DEF Cleanup, Publishing
  <1>12. CASE Crash
    BY <1>12 DEF Crash, Publishing
  <1>13. QED
    BY <1>1, <1>2, <1>3, <1>4, <1>5, <1>6, <1>7, <1>8, <1>9, <1>10, <1>11, <1>12 DEF Next, Work

(* The file about to be moved to the destination holds the track the loop   *)
(* is at and, with ReplayGain, the gain of the whole album.                 *)
LEMMA MovedFile ==
  ASSUME IInv, pc \in {"delete", "move"}, Target \in Paths
  PROVE  /\ part[Target] = Source
         /\ Holds(part[Target], track)
         /\ part[Target] \in Finished
         /\ replaygain = "on" => part[Target].album = Track
  <1>1. part[Target] = Source /\ Holds(Source, track)
    BY TargetFacts DEF IInv, CopyInv, Publishing
  <1>2. replaygain = "on" => stage = "album"
    BY TargetFacts DEF IInv, TypeOK, Publishing
  <1>3. replaygain = "on" => Source.album = Track
    BY <1>2 DEF Source, IInv, StageInv, Active, Ripping, Publishing
  <1> QED
    BY <1>1, <1>3 DEF Holds, Finished

(* The ways a step changes what stands under a name at the destination. *)
LEMMA DestinationStep ==
  ASSUME IInv, Next, NEW p \in Paths
  PROVE  \/ file'[p] = file[p]
         \/ DeleteOld /\ p = Target /\ file'[p] = Absent
         \/ MoveIn /\ pc' # "cleanup" /\ p = Target /\ file'[p] = part[p]
  <1> USE AlbumRipAssumption DEF IInv, TypeOK
  <1>1. p \in Name /\ p \notin Track
    BY DEF Name, Track
  <1>2. CASE StartRun
    BY <1>1, <1>2 DEF StartRun
  <1>3. CASE DeleteOld
    BY <1>1, <1>3 DEF DeleteOld
  <1>4. CASE MoveIn
    BY <1>1, <1>4 DEF MoveIn, Fail
  <1>5. CASE TagStaged
    <2>1. track \in Track
      BY <1>5 DEF TagStaged, Track
    <2> QED
      BY <1>1, <1>5, <2>1 DEF TagStaged, Fail
  <1>6. CASE Cleanup
    BY <1>1, <1>6 DEF Cleanup
  <1>7. CASE OpenTrack \/ Encode \/ BeginCopy \/ EndCopy \/ FinishRipping \/ FinishAlbum \/ Crash
    BY <1>7 DEF OpenTrack, Encode, BeginCopy, EndCopy, FinishRipping, FinishAlbum, Crash
  <1> QED
    BY <1>2, <1>3, <1>4, <1>5, <1>6, <1>7 DEF Next, Work

(* Every step keeps half-gained and broken-off files from the destination. *)
LEMMA GainStep == IInv /\ Next => GainInv' /\ PathInv'
  <1> SUFFICES ASSUME IInv, Next, NEW p \in Paths
               PROVE  /\ file'[p] \in Rip /\ file'[p].replaygain = "on" => file'[p].album = Track
                      /\ file'[p] \in Finished \cup {Absent}
    BY DEF GainInv, GainCoversAlbum, PathInv
  <1>1. CASE file'[p] = file[p]
    BY <1>1 DEF IInv, GainInv, GainCoversAlbum, PathInv
  <1>2. CASE DeleteOld /\ p = Target /\ file'[p] = Absent
    BY <1>2, AlbumRipAssumption DEF Finished
  <1>3. CASE MoveIn /\ pc' # "cleanup" /\ p = Target /\ file'[p] = part[p]
    <2>1. Holds(part[p], track) /\ part[p] \in Finished /\ (replaygain = "on" => part[p].album = Track)
      BY <1>3, MovedFile DEF MoveIn
    <2> QED
      BY <1>3, <2>1 DEF Holds
  <1> QED
    BY <1>1, <1>2, <1>3, DestinationStep

(* Every step keeps the tracks done so far at the destination. *)
LEMMA PublishStep == IInv /\ Next => PublishInv'
  <1> SUFFICES ASSUME IInv, Next PROVE PublishInv'
    OBVIOUS
  <1> USE AlbumRipAssumption DEF IInv, TypeOK, PublishInv, control, Active, Ripping, Publishing
  <1>0. ASSUME NEW k \in Nat, k <= N, NEW S, NEW R,
               UNCHANGED <<run, replaygain, pathOf>>,
               \A t \in 1..k : pathOf[t] \notin R => pathOf[t] \notin S /\ file'[pathOf[t]] = file[pathOf[t]],
               Published(k, S)
        PROVE  Published(k, R)'
    BY <1>0 DEF Published, Holds
  <1>1. CASE StartRun
    <2>1. Published(0, {})'
      BY DEF Published
    <2> QED
      BY <1>1, <2>1 DEF StartRun
  <1>2. CASE OpenTrack \/ Encode \/ BeginCopy \/ EndCopy
    <2>1. /\ UNCHANGED <<run, replaygain, pathOf, track, stage, file>>
          /\ pc \in Active \ {"move"} /\ track \in Track
          /\ pc' \in Active \ {"move"} \/ status' = "failed"
      BY <1>2 DEF OpenTrack, Encode, BeginCopy, EndCopy, Fail, PlaceInv, Track
    <2>2. Published(track - 1, {}) => Published(track - 1, {})'
      BY <1>0, <2>1 DEF Track
    <2> QED
      BY <2>1, <2>2, <1>2 DEF OpenTrack, Encode, BeginCopy, EndCopy, Fail
  <1>3. CASE DeleteOld
    <2>1. UNCHANGED <<run, replaygain, pathOf, track, stage>> /\ pc = "delete" /\ pc' = "move" /\ track \in Track
      BY <1>3 DEF DeleteOld, PlaceInv
    <2>2. Target' = Target
      BY <2>1 DEF Target
    <2>3. \A q \in Paths : q # Target => file'[q] = file[q]
      BY <1>3 DEF DeleteOld, Name
    <2>4. Published(track - 1, {}) => Published(track - 1, {Target})'
      BY <2>1, <2>2, <2>3 DEF Published, Holds, Track
    <2> QED
      BY <2>1, <2>2, <2>4
  <1>4. CASE MoveIn
    <2>1. CASE pc' = "cleanup"
      BY <1>4, <2>1 DEF MoveIn, Fail
    <2>2. CASE pc' # "cleanup"
      <3>1. /\ UNCHANGED <<run, replaygain, pathOf, stage>> /\ pc = "move" /\ pc' \in {"track", "tag"}
            /\ file' = [file EXCEPT ![Target] = part[Target]]
            /\ track \in Track /\ track' = track + 1
        BY <1>4, <2>2 DEF MoveIn, Fail, PlaceInv
      <3>2. CASE ~(stage = "album" \/ replaygain = "off")
        BY <3>1, <3>2
      <3>3. CASE stage = "album" \/ replaygain = "off"
        <4>1. Target = pathOf[track] /\ Target \in Paths
          BY <3>1, <3>3, TargetFacts DEF Target
        <4>2. Holds(part[Target], track)
          BY <3>1, <4>1, MovedFile
        <4>3. \A q \in Paths : file'[q] = IF q = Target THEN part[Target] ELSE file[q]
          BY <3>1 DEF Name
        <4>4. Published(track - 1, {Target})
          BY <3>1, <3>3
        <4>5. ASSUME NEW t \in 1..track, \A u \in 1..track : pathOf[u] = pathOf[t] => u <= t
              PROVE  Holds(file[pathOf[t]], t)'
          <5>1. CASE t = track
            BY <3>1, <4>1, <4>2, <4>3, <5>1 DEF Holds
          <5>2. CASE t # track
            <6>1. t \in 1..(track - 1) /\ t \in Track /\ pathOf[t] \in Paths
              BY <3>1, <4>5, <5>2 DEF Track
            <6>2. pathOf[t] # Target
              BY <3>1, <4>1, <4>5, <5>2, <6>1 DEF Track
            <6>3. Holds(file[pathOf[t]], t)
              BY <3>1, <4>4, <4>5, <6>1, <6>2 DEF Published, Track
            <6> QED
              BY <3>1, <4>3, <6>1, <6>2, <6>3 DEF Holds
          <5> QED
            BY <5>1, <5>2
        <4>6. track' - 1 = track
          BY <3>1 DEF Track
        <4>7. Published(track - 1, {})'
          BY <3>1, <4>5, <4>6 DEF Published
        <4> QED
          BY <3>1, <4>7
      <3> QED
        BY <3>2, <3>3
    <2> QED
      BY <2>1, <2>2
  <1>5. CASE FinishRipping
    <2>1. /\ UNCHANGED <<run, replaygain, pathOf, file>> /\ track = N + 1 /\ track - 1 = N /\ pc = "track"
      BY <1>5 DEF FinishRipping
    <2>2. Published(0, {})'
      BY DEF Published
    <2>3. Published(N, {}) => Published(N, {})'
      BY <1>0, <2>1
    <2>4. CASE pc' = "tag"
      BY <1>5, <2>2, <2>4 DEF FinishRipping, Fail
    <2>5. CASE pc' = "cleanup"
      BY <1>5, <2>1, <2>3, <2>5 DEF FinishRipping, Fail
    <2> QED
      BY <1>5, <2>4, <2>5 DEF FinishRipping, Fail
  <1>6. CASE TagStaged
    <2>1. /\ UNCHANGED <<run, replaygain, pathOf, track, stage>> /\ pc = "tag" /\ track \in Track
          /\ pc' = "copy" \/ status' = "failed"
      BY <1>6 DEF TagStaged, Fail, Track
    <2>2. \A q \in Paths : file'[q] = file[q]
      BY <1>6, <2>1, DestinationStep DEF TagStaged, DeleteOld, MoveIn
    <2>3. Published(track - 1, {}) => Published(track - 1, {})'
      BY <1>0, <2>1, <2>2 DEF Track
    <2> QED
      BY <1>6, <2>1, <2>3 DEF TagStaged, Fail
  <1>7. CASE FinishAlbum \/ Cleanup
    <2>1. /\ UNCHANGED <<run, replaygain, pathOf, status>> /\ pc' \in {"cleanup", "done"}
          /\ pc = "tag" => track = N + 1 /\ track - 1 = N
          /\ pc \in {"tag", "cleanup"}
      BY <1>7 DEF FinishAlbum, Cleanup
    <2>2. \A q \in Paths : file'[q] = file[q]
      BY <1>7, <2>1, DestinationStep DEF DeleteOld, MoveIn
    <2>3. Published(N, {}) => Published(N, {})'
      BY <1>0, <2>1, <2>2 DEF Track
    <2> QED
      BY <2>1, <2>3, <1>7 DEF PlaceInv, FinishAlbum, Cleanup
  <1>8. CASE Crash
    BY <1>8 DEF Crash
  <1>9. QED
    BY <1>1, <1>2, <1>3, <1>4, <1>5, <1>6, <1>7, <1>8 DEF Next, Work

(* Every step keeps a finished copy of an owned path until a second fault. *)
LEMMA OwnedStep == IInv /\ Next => OwnedInv'
  <1> SUFFICES ASSUME IInv, Next, NEW p \in owned'
               PROVE  /\ faults' = 0 => file'[p] \in Finished \/ (pc' = "move" /\ p = Target')
                      /\ faults' = 1 => \/ file'[p] \in Finished
                                        \/ part'[p] \in Finished
                                        \/ pc' = "copying" /\ p = Target'
    BY DEF OwnedInv
  <1> USE AlbumRipAssumption DEF IInv, TypeOK
  <1>1. \A q \in Paths : q \in Name /\ q \notin Track
    BY DEF Name, Track
  <1>2. p \in Paths
    BY TypeStep
  <1>3. CASE StartRun \/ Cleanup
    BY <1>1, <1>2, <1>3 DEF StartRun, Cleanup, OwnedInv
  <1>4. CASE OpenTrack \/ Encode \/ FinishRipping \/ FinishAlbum
    BY <1>4 DEF OpenTrack, Encode, FinishRipping, FinishAlbum, Fail, OwnedInv
  <1>5. CASE TagStaged
    <2>1. file'[p] = file[p]
      BY <1>2, <1>5, DestinationStep DEF TagStaged, DeleteOld, MoveIn
    <2> QED
      BY <1>5, <2>1 DEF TagStaged, Fail, OwnedInv
  <1>6. CASE BeginCopy
    <2>1. UNCHANGED <<file, owned, replaygain, stage, track, pathOf>> /\ pc = "copy"
      BY <1>6 DEF BeginCopy, control
    <2>2. Target' = Target
      BY <2>1 DEF Target
    <2>3. p # Target => part'[p] = part[p]
      BY <1>1, <1>2, <1>6 DEF BeginCopy
    <2>4. \/ faults' = faults /\ pc' = "copying"
          \/ faults' = faults + 1 /\ part' = part
      BY <1>6 DEF BeginCopy, Fail
    <2> QED
      BY <2>1, <2>2, <2>3, <2>4 DEF OwnedInv
  <1>7. CASE EndCopy
    <2>1. UNCHANGED <<file, owned>> /\ pc = "copying"
      BY <1>7 DEF EndCopy
    <2>2. CASE part' = [part EXCEPT ![Target] = Source] /\ UNCHANGED faults
      <3>1. part'[p] = IF p = Target THEN Source ELSE part[p]
        BY <1>1, <1>2, <2>2
      <3>2. Source \in Finished
        BY <2>1, TargetFacts DEF Finished, Publishing
      <3> QED
        BY <2>1, <2>2, <3>1, <3>2 DEF OwnedInv
    <2>3. CASE faults' = faults + 1
      BY <2>1, <2>3 DEF OwnedInv
    <2> QED
      BY <1>7, <2>2, <2>3 DEF EndCopy, Fail
  <1>8. CASE DeleteOld
    <2>1. /\ UNCHANGED <<part, owned, faults, replaygain, stage, track, pathOf>>
          /\ pc = "delete" /\ pc' = "move"
      BY <1>8 DEF DeleteOld, control
    <2>2. Target' = Target
      BY <2>1 DEF Target
    <2>3. p # Target => file'[p] = file[p]
      BY <1>1, <1>2, <1>8 DEF DeleteOld
    <2>4. p = Target => part[p] \in Finished
      BY <1>2, <2>1, MovedFile
    <2> QED
      BY <2>1, <2>2, <2>3, <2>4 DEF OwnedInv
  <1>9. CASE MoveIn
    <2>1. pc = "move"
      BY <1>9 DEF MoveIn
    <2>2. p = Target => part[p] \in Finished
      BY <1>2, <2>1, MovedFile
    <2>3. CASE pc' = "cleanup"
      <3>1. UNCHANGED <<file, part, owned>> /\ faults' = faults + 1
        BY <1>9, <2>3 DEF MoveIn, Fail
      <3> QED
        BY <2>1, <2>2, <2>3, <3>1 DEF OwnedInv
    <2>4. CASE pc' # "cleanup"
      <3>1. /\ file' = [file EXCEPT ![Target] = part[Target]]
            /\ part' = [part EXCEPT ![Target] = Absent]
            /\ owned' = owned \cup ({Target} \cap Paths)
            /\ faults' = faults
        BY <1>9, <2>4 DEF MoveIn, Fail
      <3>2. CASE p = Target
        <4>1. file'[p] = part[p]
          BY <1>1, <1>2, <3>1, <3>2
        <4> QED
          BY <2>2, <3>2, <4>1
      <3>3. CASE p # Target
        <4>1. file'[p] = file[p] /\ part'[p] = part[p] /\ p \in owned
          BY <1>1, <1>2, <3>1, <3>3
        <4> QED
          BY <2>1, <3>1, <3>3, <4>1 DEF OwnedInv
      <3> QED
        BY <3>2, <3>3
    <2> QED
      BY <2>3, <2>4
  <1>10. CASE Crash
    <2>1. UNCHANGED <<file, part, owned>> /\ faults' = faults + 1
      BY <1>10 DEF Crash
    <2>2. pc = "move" /\ p = Target => part[p] \in Finished
      BY <1>2, MovedFile
    <2> QED
      BY <2>1, <2>2 DEF OwnedInv
  <1>11. QED
    BY <1>3, <1>4, <1>5, <1>6, <1>7, <1>8, <1>9, <1>10 DEF Next, Work

-----------------------------------------------------------------------------

(* A stuttering step keeps the invariant. *)
LEMMA StutterStep == IInv /\ UNCHANGED vars => IInv'
  BY DEF vars, control, IInv, TypeOK, PlaceInv, ScanInv, StageInv, CopyInv, GainInv, GainCoversAlbum,
         PublishInv, Published, OwnedInv, PathInv, Holds, Source, Target

(* The inductive invariant holds in every reachable state. *)
THEOREM Invariance == Spec => []IInv
  <1>1. IInv /\ [Next]_vars => IInv'
    BY TypeStep, PlaceStep, ScanStep, StageStep, CopyStep, GainStep, PublishStep, OwnedStep, StutterStep DEF IInv
  <1> QED
    BY InitIInv, <1>1, PTL DEF Spec

(* Every variable keeps its type. *)
THEOREM TypeCorrect == Spec => []TypeOK
  <1>1. IInv => TypeOK
    BY DEF IInv
  <1> QED
    BY Invariance, <1>1, PTL

(* No file ripped with ReplayGain ever stands at the destination without    *)
(* the gain of its whole album, however the runs that left it there ended.  *)
THEOREM GainCorrect == Spec => []GainCoversAlbum
  <1>1. IInv => GainCoversAlbum
    BY DEF IInv, GainInv
  <1> QED
    BY Invariance, <1>1, PTL

(* A run that reports success has published every track of its disc. *)
THEOREM SuccessCorrect == Spec => []SuccessPublishesAll
  <1>1. IInv => SuccessPublishesAll
    BY DEF IInv, PublishInv, SuccessPublishesAll, Published, Holds, Track
  <1> QED
    BY Invariance, <1>1, PTL

(* One failed or killed run never costs the user the last copy of a file. *)
THEOREM OneFaultCorrect == Spec => []OneFaultKeepsACopy
  <1>1. IInv => OneFaultKeepsACopy
    <2> SUFFICES ASSUME IInv, pc \in Gone, faults <= 1, NEW p \in owned
                 PROVE  file[p] \in Finished \/ part[p] \in Finished
      BY DEF OneFaultKeepsACopy
    <2>1. faults = 0 \/ faults = 1
      BY DEF IInv, TypeOK
    <2> QED
      BY <2>1 DEF IInv, OwnedInv, Gone
  <1> QED
    BY Invariance, <1>1, PTL

-----------------------------------------------------------------------------

(* A step that is not one of the publishing actions leaves the destination  *)
(* alone.                                                                   *)
LEMMA QuietStep ==
  ASSUME IInv, StartRun \/ OpenTrack \/ Encode \/ FinishRipping \/ TagStaged \/ FinishAlbum \/ Cleanup \/ Crash
  PROVE  \A p \in Paths : file'[p] = file[p] /\ part'[p] = part[p]
  <1> SUFFICES ASSUME NEW p \in Paths PROVE file'[p] = file[p] /\ part'[p] = part[p]
    OBVIOUS
  <1>1. p \in Name /\ p \notin Track
    BY AlbumRipAssumption DEF Name, Track
  <1>2. CASE StartRun \/ Cleanup
    BY <1>1, <1>2 DEF StartRun, Cleanup
  <1>3. CASE TagStaged
    <2>1. part' = part /\ track \in Track /\ file \in [Name -> Content]
      BY <1>3 DEF TagStaged, IInv, TypeOK, Track
    <2> QED
      BY <1>1, <1>3, <2>1 DEF TagStaged, Fail
  <1> QED
    BY <1>2, <1>3 DEF OpenTrack, Encode, FinishRipping, FinishAlbum, Crash

(* Every step is a step of SafeReplace at the current target, or a stutter. *)
LEMMA ReplaceStep == IInv /\ IInv' /\ [Next]_vars => [Replace!Next]_(Replace!vars)
  <1> SUFFICES ASSUME IInv, IInv', [Next]_vars PROVE [Replace!Next]_(Replace!vars)
    OBVIOUS
  <1> DEFINE shelf == [p \in Paths |-> file[p]]
             sibling == [p \in Paths |-> part[p]]
  <1>1. ASSUME \A p \in Paths : file'[p] = file[p] /\ part'[p] = part[p]
        PROVE  UNCHANGED Replace!vars
    <2>1. shelf' = shelf /\ sibling' = sibling
      BY <1>1
    <2> QED
      BY <2>1 DEF Replace!vars
  <1>2. ASSUME pc \in Publishing, Target \notin Paths,
               \A n \in Name : n # Target => file'[n] = file[n] /\ part'[n] = part[n]
        PROVE  UNCHANGED Replace!vars
    BY <1>1, <1>2 DEF Name
  <1>3. /\ file \in [Name -> Content] /\ part \in [Name -> Content]
        /\ Paths \subseteq Name
        /\ Finished \subseteq Content
    BY DEF IInv, TypeOK, Name, Content
  <1>4. CASE BeginCopy
    <2>1. pc \in Publishing /\ file' = file
      BY <1>4 DEF BeginCopy, Publishing
    <2>2. CASE part' = part
      BY <1>1, <2>1, <2>2
    <2>3. CASE part' = [part EXCEPT ![Target] = Broken]
      <3>1. CASE Target \in Paths
        <4>0. PICK t \in Paths : t = Target
          BY <3>1
        <4>1. sibling' = [sibling EXCEPT ![Target] = Broken] /\ shelf' = shelf
          BY <1>3, <2>1, <2>3, <3>1
        <4>2. Replace!Spoil(t)
          BY <4>0, <4>1 DEF Replace!Spoil
        <4> QED
          BY <4>2 DEF Replace!Next
      <3>2. CASE Target \notin Paths
        BY <1>2, <1>3, <2>1, <2>3, <3>2
      <3> QED
        BY <3>1, <3>2
    <2> QED
      BY <1>4, <2>2, <2>3 DEF BeginCopy
  <1>5. CASE EndCopy
    <2>1. pc \in Publishing /\ file' = file /\ Source \in Finished
      BY <1>5, TargetFacts DEF EndCopy, Publishing, Finished
    <2>2. PICK c \in Finished \cup {Absent, Broken} : part' = [part EXCEPT ![Target] = c]
      BY <1>5, <2>1 DEF EndCopy
    <2>3. CASE Target \in Paths
      <3>0. PICK t \in Paths : t = Target
        BY <2>3
      <3>1. sibling' = [sibling EXCEPT ![Target] = c] /\ shelf' = shelf
        BY <1>3, <2>1, <2>2, <2>3
      <3>2. Replace!Spoil(t) \/ Replace!Fill(t)
        BY <3>0, <3>1 DEF Replace!Spoil, Replace!Fill
      <3> QED
        BY <3>2 DEF Replace!Next
    <2>4. CASE Target \notin Paths
      BY <1>2, <1>3, <2>1, <2>2, <2>4
    <2> QED
      BY <2>3, <2>4
  <1>6. CASE DeleteOld
    <2>1. pc \in Publishing /\ pc = "delete" /\ part' = part
      BY <1>6 DEF DeleteOld, Publishing
    <2>2. PICK c \in {Absent, file[Target]} : file' = [file EXCEPT ![Target] = c]
      BY <1>6 DEF DeleteOld
    <2>3. CASE Target \in Paths /\ c = Absent
      <3>0. PICK t \in Paths : t = Target
        BY <2>3
      <3>1. sibling[Target] \in Finished
        BY <2>1, <2>3, MovedFile
      <3>2. shelf' = [shelf EXCEPT ![Target] = Absent] /\ sibling' = sibling
        BY <1>3, <2>1, <2>2, <2>3
      <3>3. Replace!Withdraw(t)
        BY <3>0, <3>1, <3>2 DEF Replace!Withdraw
      <3> QED
        BY <3>3 DEF Replace!Next
    <2>4. CASE c = file[Target]
      <3>1. file' = file
        BY <1>3, <2>1, <2>2, <2>4, TargetFacts
      <3> QED
        BY <1>1, <2>1, <3>1
    <2>5. CASE Target \notin Paths
      BY <1>2, <1>3, <2>1, <2>2, <2>5
    <2> QED
      BY <2>3, <2>4, <2>5
  <1>7. CASE MoveIn
    <2>1. pc \in Publishing /\ pc = "move"
      BY <1>7 DEF MoveIn, Publishing
    <2>2. CASE file' = file /\ part' = part
      BY <1>1, <2>2
    <2>3. CASE file' = [file EXCEPT ![Target] = part[Target]] /\ part' = [part EXCEPT ![Target] = Absent]
      <3>1. CASE Target \in Paths
        <4>0. PICK t \in Paths : t = Target
          BY <3>1
        <4>1. sibling[Target] \in Finished
          BY <2>1, <3>1, MovedFile
        <4>2. /\ shelf' = [shelf EXCEPT ![Target] = sibling[Target]]
              /\ sibling' = [sibling EXCEPT ![Target] = Absent]
          BY <1>3, <2>3, <3>1
        <4>3. Replace!Promote(t)
          BY <4>0, <4>1, <4>2 DEF Replace!Promote
        <4> QED
          BY <4>3 DEF Replace!Next
      <3>2. CASE Target \notin Paths
        BY <1>2, <1>3, <2>1, <2>3, <3>2
      <3> QED
        BY <3>1, <3>2
    <2> QED
      BY <1>7, <2>2, <2>3 DEF MoveIn
  <1>8. CASE StartRun \/ OpenTrack \/ Encode \/ FinishRipping \/ TagStaged \/ FinishAlbum \/ Cleanup \/ Crash
    BY <1>1, <1>8, QuietStep
  <1>9. CASE UNCHANGED vars
    BY <1>1, <1>9 DEF vars
  <1> QED
    BY <1>4, <1>5, <1>6, <1>7, <1>8, <1>9 DEF Next, Work

(* No file under its final name at the destination is ever what an          *)
(* encoding, a tagging or a copying under way or broken off has left.  It   *)
(* may lack the end that encoder.finish() could not write: such a file is   *)
(* published as any other.                                                  *)
THEOREM NeverBrokenOffCorrect == Spec => []Replace!NeverBrokenOff
  <1>1. IInv => Replace!NeverBrokenOff
    BY AlbumRipAssumption DEF IInv, PathInv, Replace!NeverBrokenOff
  <1> QED
    BY Invariance, <1>1, PTL

(* Whatever ripping does, and however it ends, the destination sees only    *)
(* the steps of SafeReplace.                                                *)
THEOREM SafeReplaceImplemented == Spec => ReplacesSafely
  <1>1. Init => Replace!Init
    <2> SUFFICES ASSUME Init PROVE Replace!Init
      OBVIOUS
    <2>1. \A p \in Paths : file[p] \in Finished \cup {Absent} /\ part[p] = Absent
      BY DEF Init, Name, Finished
    <2> QED
      BY <2>1 DEF Replace!Init
  <1> QED
    BY <1>1, Invariance, ReplaceStep, PTL DEF Spec, ReplacesSafely, Replace!Spec

(* With ReplayGain the destination is touched only by publishing the staged *)
(* album; a failed run has left the publishing loop.                        *)
LEMMA TouchStep ==
  ASSUME IInv, [Next]_vars, \E p \in Paths : file'[p] # file[p] \/ part'[p] # part[p]
  PROVE  pc \in Publishing /\ Target \in Paths
  <1>1. BeginCopy \/ EndCopy \/ DeleteOld \/ MoveIn
    BY QuietStep DEF Next, Work, vars
  <1>2. pc \in Publishing
    BY <1>1 DEF BeginCopy, EndCopy, DeleteOld, MoveIn, Publishing
  <1>3. \A n \in Name : n # Target => file'[n] = file[n] /\ part'[n] = part[n]
    BY <1>1 DEF BeginCopy, EndCopy, DeleteOld, MoveIn, IInv, TypeOK
  <1> QED
    BY <1>2, <1>3 DEF Name

(* With ReplayGain, no step touches the destination before every track is   *)
(* staged.                                                                  *)
THEOREM StagingCorrect == Spec => NothingBeforeLastTrack
  <1>1. ASSUME IInv, [Next]_vars, replaygain = "on",
               \E p \in Paths : file'[p] # file[p] \/ part'[p] # part[p]
        PROVE  /\ scanned = Track
               /\ \A t \in Track : file[t] \in Rip /\ file[t].run = run /\ file[t].track = t
    <2>1. stage = "album" /\ pc \in Active
      BY <1>1, TouchStep, TargetFacts DEF IInv, TypeOK, Active, Ripping
    <2> QED
      BY <2>1, <1>1 DEF IInv, PlaceInv, StageInv, Holds
  <1> QED
    BY <1>1, Invariance, PTL DEF Spec, NothingBeforeLastTrack

(* A run that has failed touches nothing at the destination any more. *)
THEOREM FailureCorrect == Spec => FailureStopsPublishing
  <1>1. ASSUME IInv, [Next]_vars, status = "failed", pc \notin Gone
        PROVE  \A p \in Paths : file'[p] = file[p] /\ part'[p] = part[p]
    BY <1>1, TouchStep DEF IInv, PlaceInv, Active, Ripping
  <1> QED
    BY <1>1, Invariance, PTL DEF Spec, FailureStopsPublishing
-----------------------------------------------------------------------------
(* A run comes to its end: the half of RunEnds that needs no fairness.      *)

(* What is left of a run: at most six steps for every track in each loop, and the cleanup. *)
PlaceRank(place) ==
  CASE place \in {"track", "tag"} -> 6 [] place = "encode" -> 5 [] place = "copy" -> 4
    [] place = "copying" -> 3 [] place = "delete" -> 2 [] OTHER -> 1
LeftAt(place, loop, t) ==
  IF place \in Gone THEN 0
  ELSE IF place = "cleanup" THEN 1
  ELSE 1 + (IF loop = "rip" THEN 6 * (N + 2) ELSE 0) + 6 * ((N + 1) - t) + PlaceRank(place)
StepsLeft == LeftAt(pc, stage, track)

(* From place to place, from track to track, and from loop to loop it gets less. *)
LEMMA LeftLowers ==
  ASSUME NEW place \in Active, NEW loop \in {"rip", "album"}, NEW t \in 1..(N + 1)
  PROVE  /\ LeftAt(place, loop, t) \in 2..(12 * N + 19)
         /\ LeftAt("cleanup", loop, t) = 1 /\ \A p \in Gone : LeftAt(p, loop, t) = 0
         /\ \A p \in Active : PlaceRank(p) < PlaceRank(place) => LeftAt(p, loop, t) < LeftAt(place, loop, t)
         /\ \A p \in {"track", "tag"} : t <= N => LeftAt(p, loop, t + 1) < LeftAt(place, loop, t)
         /\ loop = "rip" => LeftAt("tag", "album", 1) < LeftAt(place, loop, t)
  <1>1. N \in Nat
    BY AlbumRipAssumption
  <1>2. \A p \in Active : PlaceRank(p) \in 1..6 /\ p \notin Gone /\ p # "cleanup"
    BY DEF PlaceRank, Active, Ripping, Publishing, Gone
  <1>3. {"track", "tag"} \subseteq Active /\ PlaceRank("track") = 6 /\ PlaceRank("tag") = 6 /\ "cleanup" \notin Gone
    BY DEF PlaceRank, Active, Ripping, Gone
  <1>4. \A p \in Active, k \in 1..(N + 2) :
          LeftAt(p, "rip", k) = 1 + 6 * (N + 2) + 6 * ((N + 1) - k) + PlaceRank(p)
    BY <1>1, <1>2 DEF LeftAt
  <1>5. \A p \in Active, k \in 1..(N + 2) :
          LeftAt(p, "album", k) = 1 + 6 * ((N + 1) - k) + PlaceRank(p)
    BY <1>1, <1>2 DEF LeftAt
  <1>6. t \in 1..(N + 2) /\ (t <= N => t + 1 \in 1..(N + 2)) /\ 1 \in 1..(N + 2)
    BY <1>1
  <1>7. LeftAt("cleanup", loop, t) = 1 /\ \A p \in Gone : LeftAt(p, loop, t) = 0
    BY <1>3 DEF LeftAt
  <1>8. CASE loop = "rip"
    BY <1>1, <1>2, <1>3, <1>4, <1>5, <1>6, <1>7, <1>8
  <1>9. CASE loop = "album"
    BY <1>1, <1>2, <1>3, <1>5, <1>6, <1>7, <1>9
  <1> QED
    BY <1>8, <1>9

(* However many tracks there are and whatever fails, every step of a run leaves fewer of at *)
(* most 12 * N + 19 to take.                                                               *)
THEOREM RunRunsOut ==
  Spec => [](StepsLeft \in 0..(12 * N + 19)) /\ [][pc \notin Gone => StepsLeft' < StepsLeft]_vars
  <1>1. N \in Nat
    BY AlbumRipAssumption
  <1>2. IInv => pc \in Active \cup Gone \cup {"cleanup"} /\ stage \in {"rip", "album"} /\ track \in 1..(N + 1)
    BY DEF IInv, TypeOK, Active, Ripping, Publishing, Gone
  <1>3. IInv' => pc' \in Active \cup Gone \cup {"cleanup"} /\ stage' \in {"rip", "album"} /\ track' \in 1..(N + 1)
    BY DEF IInv, TypeOK, Active, Ripping, Publishing, Gone
  <1>4. \A p \in Gone, loop \in {"rip", "album"}, t \in 1..(N + 1) : LeftAt(p, loop, t) = 0
    BY DEF LeftAt
  <1>5. \A loop \in {"rip", "album"}, t \in 1..(N + 1) : LeftAt("cleanup", loop, t) = 1
    BY DEF LeftAt, Gone
  <1>6. IInv => StepsLeft \in 0..(12 * N + 19)
    BY <1>1, <1>2, <1>4, <1>5, LeftLowers DEF StepsLeft
  <1>7. ASSUME IInv, IInv', Next, pc \notin Gone PROVE StepsLeft' < StepsLeft
    <2>1. Work \/ Crash
      BY <1>7 DEF Next, StartRun, Gone
    <2>2. /\ StepsLeft = LeftAt(pc, stage, track) /\ StepsLeft' = LeftAt(pc', stage', track')
          /\ stage \in {"rip", "album"} /\ stage' \in {"rip", "album"}
          /\ track \in 1..(N + 1) /\ track' \in 1..(N + 1)
      BY <1>2, <1>3, <1>7 DEF StepsLeft
    <2>3. CASE pc = "cleanup"
      <3>1. pc' \in Gone
        BY <2>1, <2>3 DEF Work, OpenTrack, Encode, BeginCopy, EndCopy, DeleteOld, MoveIn, FinishRipping,
                          TagStaged, FinishAlbum, Cleanup, Crash, Gone
      <3>2. StepsLeft = 1 /\ StepsLeft' = 0
        BY <1>4, <1>5, <2>2, <2>3, <3>1
      <3> QED
        BY <3>2
    <2>4. CASE pc \in Active
      <3>1. StepsLeft \in 2..(12 * N + 19)
        BY <2>2, <2>4, LeftLowers
      <3>2. CASE pc' \in Gone \cup {"cleanup"}
        <4>1. StepsLeft' = 0 \/ StepsLeft' = 1
          BY <1>4, <1>5, <2>2, <3>2
        <4> QED
          BY <1>1, <3>1, <4>1
      <3>3. CASE pc' \in Active
        <4>1. \/ stage' = stage /\ track' = track /\ PlaceRank(pc') < PlaceRank(pc)
              \/ stage' = stage /\ track' = track + 1 /\ pc' \in {"track", "tag"}
              \/ stage = "rip" /\ stage' = "album" /\ track' = 1 /\ pc' = "tag"
          <5> USE <3>3 DEF Active, Ripping, Publishing
          <5>1. CASE OpenTrack
            BY <5>1 DEF OpenTrack, Fail, PlaceRank
          <5>2. CASE Encode
            BY <5>2 DEF Encode, Fail, PlaceRank
          <5>3. CASE BeginCopy
            BY <5>3 DEF BeginCopy, Fail, PlaceRank
          <5>4. CASE EndCopy
            BY <5>4 DEF EndCopy, Fail, PlaceRank
          <5>5. CASE DeleteOld
            BY <5>5 DEF DeleteOld, PlaceRank
          <5>6. CASE MoveIn
            BY <5>6 DEF MoveIn, Fail
          <5>7. CASE FinishRipping
            <6>1. stage = "rip"
              BY <1>7, <2>2, <5>7 DEF FinishRipping, IInv, PlaceInv
            <6>2. stage' = "album" /\ track' = 1 /\ pc' = "tag"
              BY <5>7 DEF FinishRipping, Fail
            <6> QED
              BY <6>1, <6>2
          <5>8. CASE TagStaged
            BY <5>8 DEF TagStaged, Fail, PlaceRank
          <5>9. CASE FinishAlbum \/ Cleanup \/ Crash
            BY <5>9 DEF FinishAlbum, Cleanup, Crash
          <5> QED
            BY <2>1, <5>1, <5>2, <5>3, <5>4, <5>5, <5>6, <5>7, <5>8, <5>9 DEF Work
        <4>2. track' = track + 1 => track <= N
          BY <1>1, <2>2
        <4> QED
          BY <2>2, <2>4, <3>3, <4>1, <4>2, LeftLowers
      <3> QED
        BY <1>3, <1>7, <3>2, <3>3
    <2> QED
      BY <1>2, <1>7, <2>3, <2>4
  <1>8. IInv /\ IInv' /\ [Next]_vars => [pc \notin Gone => StepsLeft' < StepsLeft]_vars
    BY <1>7
  <1> QED
    BY <1>6, <1>8, Invariance, PTL DEF Spec

=============================================================================
