------------------------------ MODULE AlbumRip ------------------------------
(***************************************************************************)
(* Ripping one album after another to a destination directory: the track   *)
(* loop of main() (src/src/main.cpp), the file handling of                 *)
(* rip_track_with_options and publish_local_file_to_destination            *)
(* (src/src/cdrip/rip.cpp).                                                *)
(*                                                                         *)
(* A run is one pass of the disc loop.  With ReplayGain every track is     *)
(* ripped into a staging directory, the loudness of the album is computed  *)
(* from all of them, and then each staged file is tagged and published.    *)
(* Without, each track is published as soon as it is ripped.  Any step may *)
(* fail, and the process may be killed between any two steps; the files    *)
(* under names that are used again, the destination and its .tmp siblings, *)
(* survive.                                                                *)
(*                                                                         *)
(* Files are abstracted to which track of which run they hold and which    *)
(* tracks the album gain in their tags was computed from.                  *)
(***************************************************************************)
EXTENDS Naturals

CONSTANTS
  N,        \* audio tracks of a disc
  Paths,    \* file names the -f format can produce at the destination
  MaxRuns,  \* bound: runs of the disc loop
  Absent,   \* no file of that name
  Old,      \* a finished file that was there before the first run
  Broken    \* what an encoding, tagging or copying under way, or broken off, has left

Track == 1..N

Switch == {"on", "off"}

(* A FLAC file as rip_track_with_options leaves it: the track, the run that *)
(* ripped it, whether that run had ReplayGain on, the tracks its album gain *)
(* covers ({}: no tag), and whether encoder.finish(), whose result the code *)
(* does not look at, could write its last frames and header.  A file counts *)
(* as finished either way: the program itself cannot tell.                  *)
Rip == [run: 1..MaxRuns, track: Track, replaygain: Switch, album: SUBSET Track, finish: {"ok", "lost"}]
Finished == Rip \cup {Old}
Content == Finished \cup {Absent, Broken}

(* Staged files are named after their track number ("01.flac"), so a name   *)
(* is a track number in the staging directory or a path at the destination. *)
Name == Track \cup Paths

ASSUME AlbumRipAssumption ==
  /\ N \in Nat \ {0}
  /\ MaxRuns \in Nat
  /\ Paths \cap Nat = {}
  /\ Absent \notin Finished /\ Broken \notin Finished /\ Old \notin Rip
  /\ Absent # Broken

VARIABLES
  pc,          \* where the process stands; "off": there is none
  run,         \* number of the current run
  replaygain,  \* -g: "on", -ng: "off"
  pathOf,      \* final_path of each track, from the format and the tags
  status,      \* success: "ok", or "failed"
  stage,       \* "rip": the track loop, "album": the loop over staged_tracks
  track,       \* the track either loop is at
  scanned,     \* tracks whose samples album_replaygain_state has been fed
  local,       \* the temporary file of rip_track_with_options
  file,        \* file[n]: what stands under the name n
  part,        \* part[n]: what stands under n.tmp
  faults,      \* history: runs that failed or were killed
  owned        \* history: paths at which there has been a finished file

control == <<run, replaygain, pathOf>>
vars == <<pc, control, status, stage, track, scanned, local, file, part, faults, owned>>

(* The file the current call of publish_local_file_to_destination reads. *)
Source == IF stage = "rip" THEN local ELSE file[track]

(* Mutant: the staging directory is bypassed. *)
TargetAlwaysFinal == pathOf[track]

(* The name that call publishes it under. *)
Target == IF replaygain = "on" /\ stage = "rip" THEN track ELSE pathOf[track]

Init ==
  /\ pc = "off" /\ run = 0 /\ status = "ok" /\ stage = "rip" /\ track = 1
  /\ replaygain = "off"
  /\ pathOf \in [Track -> Paths]
  /\ scanned = {}
  /\ local = Absent
  /\ file \in {f \in [Name -> {Absent, Old}] : \A t \in Track : f[t] = Absent}
  /\ part = [n \in Name |-> Absent]
  /\ faults = 0
  /\ owned = {p \in Paths : file[p] = Old}

(* Mutant: the loop does not break. *)
FailWithoutBreak ==
  /\ status' = "failed"
  /\ faults' = faults + 1
  /\ pc' = "track"
  /\ local' = Absent

(* Mutant: the loops break, but success is left as it was. *)
FailQuietly ==
  /\ faults' = faults + 1
  /\ pc' = "cleanup"
  /\ local' = Absent
  /\ UNCHANGED status

(* A failed step: success = false, and the loops break. *)
Fail ==
  /\ status' = "failed"
  /\ faults' = faults + 1
  /\ pc' = "cleanup"
  /\ local' = Absent

(* The disc loop reaches a disc.  The staging directory is new and empty.   *)
(* With ReplayGain, creating it or the album state may fail.                *)
StartRun ==
  /\ pc \in {"off", "done"}
  /\ run < MaxRuns
  /\ run' = run + 1
  /\ replaygain' \in Switch
  /\ pathOf' \in [Track -> Paths]
  /\ stage' = "rip" /\ track' = 1 /\ scanned' = {} /\ local' = Absent
  /\ file' = [n \in Name |-> IF n \in Track THEN Absent ELSE file[n]]
  /\ part' = [n \in Name |-> IF n \in Track THEN Absent ELSE part[n]]
  /\ \/ pc' = "track" /\ status' = "ok" /\ UNCHANGED faults
     \/ replaygain' = "on" /\ pc' = "cleanup" /\ status' = "failed" /\ faults' = faults + 1
  /\ UNCHANGED owned

(* The top of the track loop: the path is resolved, the ReplayGain state of *)
(* the track made, the temporary file created.                              *)
OpenTrack ==
  /\ pc = "track"
  /\ track <= N
  /\ \/ pc' = "encode" /\ local' = Broken /\ UNCHANGED <<status, faults>>
     \/ Fail
  /\ UNCHANGED <<control, stage, track, scanned, file, part, owned>>

(* Mutant: the album state is made anew for each track. *)
EncodeForgetsAlbum ==
  /\ pc = "encode"
  /\ \/ /\ pc' = "copy"
        /\ \E f \in {"ok", "lost"} :
             local' = [run |-> run, track |-> track, replaygain |-> replaygain, album |-> {}, finish |-> f]
        /\ scanned' = IF replaygain = "on" THEN {track} ELSE scanned
        /\ UNCHANGED <<status, faults>>
     \/ Fail /\ UNCHANGED scanned
  /\ UNCHANGED <<control, stage, track, file, part, owned>>

(* Setting the speed, the metadata, the encoder, the read loop and the      *)
(* track's own loudness.  Each error path removes the temporary file; the   *)
(* album state keeps what it was fed.                                       *)
Encode ==
  /\ pc = "encode"
  /\ \/ /\ pc' = "copy"
        /\ \E f \in {"ok", "lost"} :
             local' = [run |-> run, track |-> track, replaygain |-> replaygain, album |-> {}, finish |-> f]
        /\ scanned' = IF replaygain = "on" THEN scanned \cup {track} ELSE scanned
        /\ UNCHANGED <<status, faults>>
     \/ /\ Fail
        /\ scanned' \in {scanned} \cup (IF replaygain = "on" THEN {scanned \cup {track}} ELSE {})
  /\ UNCHANGED <<control, stage, track, file, part, owned>>

(* Mutant: the old file is deleted before the copy. *)
BeginCopyDeletesFirst ==
  /\ pc = "copy"
  /\ \/ /\ pc' = "copying"
        /\ part' = [part EXCEPT ![Target] = Broken]
        /\ file' = [file EXCEPT ![Target] = Absent]
        /\ UNCHANGED <<status, faults, local>>
     \/ Fail /\ UNCHANGED <<file, part>>
  /\ UNCHANGED <<control, stage, track, scanned, owned>>

(* Mutant: the copy goes straight to the final name. *)
BeginCopyInPlace ==
  /\ pc = "copy"
  /\ \/ pc' = "copying" /\ file' = [file EXCEPT ![Target] = Broken] /\ UNCHANGED <<status, faults, local>>
     \/ Fail /\ UNCHANGED file
  /\ UNCHANGED <<control, stage, track, scanned, part, owned>>

(* publish_local_file_to_destination, one action per call into GIO.         *)
(* A copy overwrites what a previous run may have left in the sibling.      *)
BeginCopy ==
  /\ pc = "copy"
  /\ \/ pc' = "copying" /\ part' = [part EXCEPT ![Target] = Broken] /\ UNCHANGED <<status, faults, local>>
     \/ Fail /\ UNCHANGED part
  /\ UNCHANGED <<control, stage, track, scanned, file, owned>>

EndCopy ==
  /\ pc = "copying"
  /\ \/ pc' = "delete" /\ part' = [part EXCEPT ![Target] = Source] /\ UNCHANGED <<status, faults, local>>
     \/ Fail /\ \E c \in {Absent, Broken} : part' = [part EXCEPT ![Target] = c]
  /\ UNCHANGED <<control, stage, track, scanned, file, owned>>

(* The result of g_file_delete is ignored. *)
DeleteOld ==
  /\ pc = "delete"
  /\ pc' = "move"
  /\ \E c \in {Absent, file[Target]} : file' = [file EXCEPT ![Target] = c]
  /\ UNCHANGED <<control, status, stage, track, scanned, local, part, faults, owned>>

(* Mutant: the loop does not go on to the next track. *)
MoveInSameTrack ==
  /\ pc = "move"
  /\ \/ /\ file' = [file EXCEPT ![Target] = part[Target]]
        /\ part' = [part EXCEPT ![Target] = Absent]
        /\ owned' = owned \cup ({Target} \cap Paths)
        /\ local' = Absent
        /\ pc' = IF stage = "rip" THEN "track" ELSE "tag"
        /\ UNCHANGED <<status, faults>>
     \/ Fail /\ UNCHANGED <<file, part, owned>>
  /\ UNCHANGED <<control, stage, track, scanned>>

(* The move within a directory is a rename; on success the caller goes on   *)
(* to its next track, removing its temporary file if it is the track loop.  *)
MoveIn ==
  /\ pc = "move"
  /\ \/ /\ file' = [file EXCEPT ![Target] = part[Target]]
        /\ part' = [part EXCEPT ![Target] = Absent]
        /\ owned' = owned \cup ({Target} \cap Paths)
        /\ local' = Absent
        /\ track' = track + 1
        /\ pc' = IF stage = "rip" THEN "track" ELSE "tag"
        /\ UNCHANGED <<status, faults>>
     \/ Fail /\ UNCHANGED <<file, part, owned, track>>
  /\ UNCHANGED <<control, stage, scanned>>

(* The end of the track loop: the loudness of the album, with ReplayGain. *)
FinishRipping ==
  /\ pc = "track"
  /\ track > N
  /\ \/ replaygain = "on" /\ pc' = "tag" /\ stage' = "album" /\ track' = 1 /\ UNCHANGED <<status, faults, local>>
     \/ replaygain = "on" /\ Fail /\ UNCHANGED <<stage, track>>
     \/ replaygain = "off" /\ pc' = "cleanup" /\ UNCHANGED <<status, faults, stage, track, local>>
  /\ UNCHANGED <<control, scanned, file, part, owned>>

(* update_flac_tags on the staged file, in place. *)
TagStaged ==
  /\ pc = "tag"
  /\ track <= N
  /\ \/ pc' = "copy" /\ file' = [file EXCEPT ![track].album = scanned] /\ UNCHANGED <<status, faults, local>>
     \/ Fail /\ \E c \in {file[track], Broken} : file' = [file EXCEPT ![track] = c]
  /\ UNCHANGED <<control, stage, track, scanned, part, owned>>

FinishAlbum ==
  /\ pc = "tag"
  /\ track > N
  /\ pc' = "cleanup"
  /\ UNCHANGED <<control, status, stage, track, scanned, local, file, part, faults, owned>>

(* remove_all of the staging directory, if there is one. *)
Cleanup ==
  /\ pc = "cleanup"
  /\ pc' = "done"
  /\ file' = [n \in Name |-> IF n \in Track THEN Absent ELSE file[n]]
  /\ part' = [n \in Name |-> IF n \in Track THEN Absent ELSE part[n]]
  /\ UNCHANGED <<control, status, stage, track, scanned, local, faults, owned>>

(* The process is killed.  Temporary and staged files stay behind under     *)
(* names that are not used again.                                           *)
Crash ==
  /\ pc \notin {"off", "done"}
  /\ pc' = "off"
  /\ faults' = faults + 1
  /\ UNCHANGED <<control, status, stage, track, scanned, local, file, part, owned>>

Work ==
  \/ OpenTrack \/ Encode \/ BeginCopy \/ EndCopy \/ DeleteOld \/ MoveIn
  \/ FinishRipping \/ TagStaged \/ FinishAlbum \/ Cleanup

Next == StartRun \/ Work \/ Crash

Spec == Init /\ [][Next]_vars

(* main() is one sequential thread: a step it can take, it takes. *)
FairSpec == Spec /\ WF_vars(Work)

-----------------------------------------------------------------------------

TypeOK ==
  /\ pc \in {"off", "track", "encode", "copy", "copying", "delete", "move", "tag", "cleanup", "done"}
  /\ run \in 0..MaxRuns
  /\ replaygain \in Switch
  /\ pathOf \in [Track -> Paths]
  /\ status \in {"ok", "failed"}
  /\ stage \in {"rip", "album"}
  /\ track \in 1..(N + 1)
  /\ scanned \subseteq Track
  /\ local \in Content
  /\ file \in [Name -> Content]
  /\ part \in [Name -> Content]
  /\ faults \in Nat
  /\ owned \subseteq Paths

Gone == {"off", "done"}

(* A file ripped with ReplayGain stands at the destination only with an     *)
(* album gain computed from every track of the disc, whatever step failed   *)
(* and whichever run left it there.                                         *)
GainCoversAlbum ==
  \A p \in Paths :
    file[p] \in Rip /\ file[p].replaygain = "on" => file[p].album = Track

(* With ReplayGain nothing at the destination is touched before every track *)
(* has been ripped and staged.                                              *)
NothingBeforeLastTrack ==
  [][replaygain = "on" /\ (\E p \in Paths : file'[p] # file[p] \/ part'[p] # part[p])
       => /\ scanned = Track
          /\ \A t \in Track : file[t] \in Rip /\ file[t].run = run /\ file[t].track = t]_vars

(* When a run reports success, each path holds the last track of this run   *)
(* that resolved to it: nothing is missing, and of tracks whose names       *)
(* collide the last one survives.                                           *)
SuccessPublishesAll ==
  pc = "done" /\ status = "ok" =>
    \A t \in Track :
      (\A u \in Track : pathOf[u] = pathOf[t] => u <= t)
        => file[pathOf[t]] \in Rip /\ file[pathOf[t]].run = run /\ file[pathOf[t]].track = t

(* As long as at most one run failed or was killed, a path that ever held a *)
(* file has one at rest: under its name, or finished in its .tmp sibling.   *)
OneFaultKeepsACopy ==
  pc \in Gone /\ faults <= 1 =>
    \A p \in owned : file[p] \in Finished \/ part[p] \in Finished

(* Once a run has failed it touches nothing at the destination any more. *)
FailureStopsPublishing ==
  [][status = "failed" /\ pc \notin Gone => \A p \in Paths : file'[p] = file[p] /\ part'[p] = part[p]]_vars

(* Every run ends: with its result, or because the process is killed. *)
RunEnds == (pc \notin Gone) ~> (pc \in Gone)

(* README.md: the final files do not appear at the destination until the    *)
(* whole album has been ripped and ReplayGain tags have been written.       *)
(* The code writes the tags of a track just before it publishes it, when    *)
(* earlier tracks are already there.                                        *)
AllTaggedBeforeAnyAppears ==
  pc \in {"tag", "copy", "copying", "delete", "move"} /\ replaygain = "on" =>
    ((\E p \in Paths : file[p] \in Rip /\ file[p].run = run)
       => \A t \in Track : file[t] \in Rip /\ file[t].album = Track)

(* include/cdrip/cdrip.h: cdrip_rip_track rips a track to FLAC and returns   *)
(* non-zero on success.  A call whose encoder.finish() fails returns        *)
(* non-zero as well, and the run reports success.                           *)
SuccessMeansWholeFiles ==
  pc = "done" /\ status = "ok" => \A t \in Track : file[pathOf[t]].finish = "ok"

(* The destination sees nothing but safe replacements. *)
Replace == INSTANCE SafeReplace WITH
  shelf <- [p \in Paths |-> file[p]], sibling <- [p \in Paths |-> part[p]]
ReplacesSafely == Replace!Spec
=============================================================================
