---------------------------- MODULE DriveSession ----------------------------
(***************************************************************************)
(* The life of a cdrip process between its start and its exit: choosing a  *)
(* drive, waiting for a disc, opening the drive, ripping, closing and      *)
(* ejecting, waiting for the next disc (main(), src/src/main.cpp, and      *)
(* cdrip_open and cdrip_close, src/src/cdrip/drive_handle.cpp).            *)
(*                                                                         *)
(* Meanwhile people put discs in and take them out, and drives are plugged *)
(* and unplugged.  The process learns of it only by polling the list of    *)
(* drives, in which a drive whose disc cannot be opened or identified      *)
(* looks empty.  The prompts about a disc, for the candidates and for the  *)
(* cover art, are places of their own, because they wait for a person.     *)
(* What happens to one disc is AlbumRip; here it succeeds or fails.  A     *)
(* disc is the number of its insertion, so a disc that is taken out and    *)
(* put back counts as a new one.                                           *)
(***************************************************************************)
EXTENDS Naturals, FiniteSets, FiniteSetsExt

CONSTANTS
  D,         \* CD drives the machine may have, in the order they are detected
  MaxDiscs   \* bound: insertions

Drive == 1..D
NoDrive == 0
Empty == 0          \* no disc in a drive, or none ripped yet
Switch == {"on", "off"}

ASSUME DriveSessionAssumption == D \in Nat \ {0} /\ MaxDiscs \in Nat

VARIABLES
  options,   \* -a, -r, -ne, -d, and whether standard input is a terminal
  pc,        \* where main() is
  device,    \* the chosen drive
  seen,      \* the drive list shown at the prompt
  asked,     \* history: the drive typed at the prompt
  held,      \* what the CdRip handle holds open
  result,    \* success of the last disc
  ejected,   \* history: how the last eject went
  ripped,    \* history: the disc last ripped
  misread,   \* history: the last removal was a failed query, the disc still there
  attached,  \* drives that are plugged in
  media,     \* media[d]: the disc in drive d
  inserted   \* number of insertions so far

program == <<options, pc, device, seen, asked, held, result, ejected, ripped, misread>>
world == <<attached, media, inserted>>
vars == <<program, world>>

DiscIn(d) == d \in attached /\ media[d] # Empty

Options == [auto: Switch, repeat: Switch, eject: Switch, device: Drive \cup {NoDrive}, tty: Switch]

(* What detections may report: nothing of a drive that is not plugged in,   *)
(* and a drive with a disc as empty if opening it or asking for the disc    *)
(* mode fails.  A disc that is not there is never reported.                 *)
Detected ==
  {found \in [attached -> {"empty", "media"}] : \A d \in attached : found[d] = "media" => DiscIn(d)}

(* lookup_drive_status: what a detection says of one drive. *)
HasMedia(found, d) == d \in DOMAIN found /\ found[d] = "media"

Init ==
  /\ options \in Options
  /\ pc = IF options.auto = "on" THEN "wait" ELSE "select"
  /\ device = options.device
  /\ seen = <<>> /\ asked = NoDrive
  /\ held = {} /\ result = "none" /\ ejected = "none" /\ ripped = Empty /\ misread = FALSE
  /\ attached \in SUBSET Drive
  /\ inserted \in 0..MaxDiscs
  /\ media \in [Drive -> 0..inserted]
  /\ \A d, e \in Drive : media[d] = media[e] /\ d # e => media[d] = Empty

-----------------------------------------------------------------------------
(* Choosing a drive. *)

(* Every way out of the selection and waiting loops that finds no drive. *)
GiveUp == pc' = "exit1" /\ UNCHANGED <<device, seen>>

(* The selection loop of the interactive mode, up to the prompt. *)
Select ==
  /\ pc = "select"
  /\ \E found \in Detected :
       \/ attached = {} /\ GiveUp
       \/ device # NoDrive /\ device \notin attached /\ GiveUp
       \/ /\ \E d \in attached :
               /\ device = d \/ (device = NoDrive /\ attached = {d})
               /\ device' = d
               /\ pc' = IF HasMedia(found, d) THEN "open" ELSE "wait"
          /\ UNCHANGED seen
       \/ /\ device = NoDrive
          /\ Cardinality(attached) > 1
          /\ seen' = found
          /\ pc' = "prompt"
          /\ UNCHANGED device
  /\ UNCHANGED <<options, asked, held, result, ejected, ripped, misread, world>>

FirstSeen == Min(DOMAIN seen)
SeenMedia == {d \in DOMAIN seen : HasMedia(seen, d)}

(* The choice starts as index 0, which is the first drive and also means    *)
(* that nothing was chosen.  An empty or invalid line leaves it there, and   *)
(* then the first drive with media is taken.                                *)
ChosenDrive(typed) ==
  IF typed \in {NoDrive, FirstSeen} /\ SeenMedia # {} THEN Min(SeenMedia)
  ELSE IF typed = NoDrive THEN FirstSeen ELSE typed

(* Somebody answers the prompt, perhaps long after it was printed. *)
Choose ==
  /\ pc = "prompt"
  /\ \E typed \in DOMAIN seen \cup {NoDrive} :
       /\ asked' = typed
       /\ device' = ChosenDrive(typed)
       /\ pc' = IF HasMedia(seen, device') THEN "open" ELSE "wait"
  /\ seen' = <<>>
  /\ UNCHANGED <<options, held, result, ejected, ripped, misread, world>>

(* The drives whose disc ends a wait_for_media, by what a detection says. *)
Awaited(found) == {d \in DOMAIN found : HasMedia(found, d) /\ device \in {d, NoDrive}}

(* One round of wait_for_media before the first disc: for the chosen drive, *)
(* or in automatic mode without -d for any drive.  The interactive mode     *)
(* then goes through the selection loop again.                              *)
WaitForMedia ==
  /\ pc = "wait"
  /\ \E found \in Detected :
       \/ attached = {} /\ GiveUp
       \/ device # NoDrive /\ device \notin attached /\ GiveUp
       \/ /\ Awaited(found) # {}
          /\ device' = Min(Awaited(found))
          /\ pc' = IF options.auto = "on" THEN "open" ELSE "select"
          /\ UNCHANGED seen
  /\ UNCHANGED <<options, asked, held, result, ejected, ripped, misread, world>>

-----------------------------------------------------------------------------
(* One disc. *)

(* open_drive, which needs a disc.  Nothing is held when it fails. *)
OpenDrive ==
  /\ pc = "open"
  /\ \/ DiscIn(device) /\ held' = {"drive"} /\ pc' = "reader"
     \/ held' = {} /\ pc' = "exit1"
  /\ UNCHANGED <<options, device, seen, asked, result, ejected, ripped, misread, world>>

(* Mutant: the drive is not closed when there is no reader. *)
CreateReaderLeaks ==
  /\ pc = "reader"
  /\ \/ held' = {"drive", "reader"} /\ pc' = "toc"
     \/ held' = held /\ pc' = "exit1"
  /\ UNCHANGED <<options, device, seen, asked, result, ejected, ripped, misread, world>>

(* set_drive_speed and create_reader; if either fails the drive is closed. *)
CreateReader ==
  /\ pc = "reader"
  /\ \/ held' = {"drive", "reader"} /\ pc' = "toc"
     \/ held' = {} /\ pc' = "exit1"
  /\ UNCHANGED <<options, device, seen, asked, result, ejected, ripped, misread, world>>

(* With -a the first candidate is taken; otherwise a person is asked. *)
AfterToc == IF options.auto = "on" THEN "art" ELSE "pick"

(* Mutant: a disc that cannot be read is tried again. *)
ReadTocRetries ==
  /\ pc = "toc"
  /\ DiscIn(device) /\ pc' = AfterToc /\ ripped' = media[device]
  /\ UNCHANGED <<options, device, seen, asked, held, result, ejected, misread, world>>

(* The table of contents and the metadata, up to the prompt for the         *)
(* candidates.  Without a table of contents or a list the handle is closed  *)
(* without ejecting and the process ends.                                   *)
ReadToc ==
  /\ pc = "toc"
  /\ \/ DiscIn(device) /\ pc' = AfterToc /\ ripped' = media[device]
     \/ pc' = "abandon" /\ UNCHANGED ripped
  /\ UNCHANGED <<options, device, seen, asked, held, result, ejected, misread, world>>

(* Somebody types the numbers of candidates, while the drive is open. *)
PickEntries ==
  /\ pc = "pick"
  /\ pc' = "art"
  /\ UNCHANGED <<options, device, seen, asked, held, result, ejected, ripped, misread, world>>

(* The pictures are fetched.  If both sources have one and neither -a nor   *)
(* -r is given, a person is asked.                                          *)
FetchCoverArt ==
  /\ pc = "art"
  /\ \/ pc' = "rip"
     \/ options.auto = "off" /\ options.repeat = "off" /\ pc' = "cover"
  /\ UNCHANGED <<options, device, seen, asked, held, result, ejected, ripped, misread, world>>

(* Somebody chooses one of the two pictures, while the drive is open. *)
ChooseCover ==
  /\ pc = "cover"
  /\ pc' = "rip"
  /\ UNCHANGED <<options, device, seen, asked, held, result, ejected, ripped, misread, world>>

(* The track loop. *)
RipDisc ==
  /\ pc = "rip"
  /\ pc' = "close"
  /\ result' \in {"ok", "failed"}
  /\ UNCHANGED <<options, device, seen, asked, held, ejected, ripped, misread, world>>

(* The exit code of an orderly end. *)
ExitCode == IF result = "ok" THEN "exit0" ELSE "exit1"

(* Mutant: no waiting for the removal of a disc that was kept. *)
AfterCloseInserts == IF options.repeat = "off" THEN ExitCode ELSE "insert"

(* Where main() goes once the handle is closed. *)
AfterClose ==
  IF options.repeat = "off" THEN ExitCode
  ELSE IF options.eject = "off" THEN "remove" ELSE "insert"

(* Mutant: the disc is ejected before the drive is closed. *)
CloseDriveEjectFirst ==
  /\ pc = "close"
  /\ options.eject = "on"
  /\ "reader" \notin held /\ "drive" \in held
  /\ ejected' = "ok" /\ media' = [media EXCEPT ![device] = Empty]
  /\ pc' = AfterClose /\ held' = {}
  /\ UNCHANGED <<options, device, seen, asked, result, ripped, misread, attached, inserted>>

(* cdrip_close: the reader, the drive, and then the tray. *)
DestroyReader ==
  /\ pc \in {"close", "abandon"}
  /\ "reader" \in held
  /\ held' = held \ {"reader"}
  /\ UNCHANGED <<options, pc, device, seen, asked, result, ejected, ripped, misread, world>>

(* Mutant: the drive is closed under the reader. *)
CloseDriveFirst ==
  /\ pc \in {"close", "abandon"}
  /\ "drive" \in held
  /\ held' = held \ {"drive"}
  /\ pc' = IF pc = "abandon" THEN "exit1"
           ELSE IF options.eject = "on" THEN "eject" ELSE AfterClose
  /\ UNCHANGED <<options, device, seen, asked, result, ejected, ripped, misread, world>>

CloseDrive ==
  /\ pc \in {"close", "abandon"}
  /\ "reader" \notin held /\ "drive" \in held
  /\ held' = held \ {"drive"}
  /\ pc' = IF pc = "abandon" THEN "exit1"
           ELSE IF options.eject = "on" THEN "eject" ELSE AfterClose
  /\ UNCHANGED <<options, device, seen, asked, result, ejected, ripped, misread, world>>

(* An eject that fails is reported and otherwise ignored. *)
Eject ==
  /\ pc = "eject"
  /\ \/ /\ device \in attached
        /\ media' = [media EXCEPT ![device] = Empty]
        /\ ejected' = "ok"
     \/ ejected' = "failed" /\ UNCHANGED media
  /\ pc' = AfterClose
  /\ UNCHANGED <<options, device, seen, asked, held, result, ripped, misread, attached, inserted>>

-----------------------------------------------------------------------------
(* The next disc. *)

(* One round of waiting for the removal of a disc that was not ejected.  A   *)
(* query that fails passes for it.                                          *)
PollRemoval ==
  /\ pc = "remove"
  /\ \E found \in Detected :
       \/ device \notin attached /\ pc' = "exit1" /\ UNCHANGED misread
       \/ /\ device \in attached /\ ~HasMedia(found, device)
          /\ pc' = "insert"
          /\ misread' = DiscIn(device)
  /\ UNCHANGED <<options, device, seen, asked, held, result, ejected, ripped, world>>

(* Mutant: the wait for the next disc does not look at the disc. *)
PollInsertBlind ==
  /\ pc = "insert"
  /\ device \notin attached
  /\ pc' = "exit1"
  /\ UNCHANGED <<options, device, seen, asked, held, result, ejected, ripped, misread, world>>

(* One round of waiting for the next disc. *)
PollInsert ==
  /\ pc = "insert"
  /\ \E found \in Detected :
       \/ device \notin attached /\ pc' = "exit1"
       \/ HasMedia(found, device) /\ pc' = "open"
  /\ UNCHANGED <<options, device, seen, asked, held, result, ejected, ripped, misread, world>>

(* Mutant: quitting always counts as success. *)
QuitIsSuccess ==
  /\ pc \in {"remove", "insert"}
  /\ options.auto = "off" /\ options.tty = "on"
  /\ pc' = "exit0"
  /\ UNCHANGED <<options, device, seen, asked, held, result, ejected, ripped, misread, world>>

(* Between two rounds somebody types q, or the terminal is gone. *)
Quit ==
  /\ pc \in {"remove", "insert"}
  /\ options.auto = "off" /\ options.tty = "on"
  /\ pc' \in {ExitCode, "exit1"}
  /\ UNCHANGED <<options, device, seen, asked, held, result, ejected, ripped, misread, world>>

-----------------------------------------------------------------------------
(* The world. *)

InsertDisc ==
  /\ inserted < MaxDiscs
  /\ \E d \in attached :
       /\ media[d] = Empty
       /\ media' = [media EXCEPT ![d] = inserted + 1]
  /\ inserted' = inserted + 1
  /\ UNCHANGED <<program, attached>>

RemoveDisc ==
  /\ \E d \in Drive : media[d] # Empty /\ media' = [media EXCEPT ![d] = Empty]
  /\ UNCHANGED <<program, attached, inserted>>

PlugDrive ==
  /\ \E d \in Drive : attached' \in {attached \cup {d}, attached \ {d}} \ {attached}
  /\ UNCHANGED <<program, media, inserted>>

World == InsertDisc \/ RemoveDisc \/ PlugDrive

Work ==
  \/ Select \/ WaitForMedia \/ OpenDrive \/ CreateReader \/ ReadToc \/ FetchCoverArt \/ RipDisc
  \/ DestroyReader \/ CloseDrive \/ Eject \/ PollRemoval \/ PollInsert

Person == Choose \/ PickEntries \/ ChooseCover \/ Quit

Next == Work \/ Person \/ World

Spec == Init /\ [][Next]_vars

(* A step of main() that needs no person is taken, and of the polls that are *)
(* repeated for a disc that stays one succeeds in the end.  Nothing says    *)
(* that anybody ever answers a prompt or inserts a disc.                    *)
FairSpec == Spec /\ WF_vars(Work)

-----------------------------------------------------------------------------

Place == {"select", "prompt", "wait", "open", "reader", "toc", "pick", "art", "cover",
          "rip", "close", "abandon", "eject", "remove", "insert", "exit0", "exit1"}

TypeOK ==
  /\ options \in Options
  /\ pc \in Place
  /\ device \in Drive \cup (IF pc \in {"select", "prompt", "wait", "exit1"} THEN {NoDrive} ELSE {})
  /\ seen \in UNION {[S -> {"empty", "media"}] : S \in SUBSET Drive}
  /\ asked \in Drive \cup {NoDrive}
  /\ held \subseteq {"drive", "reader"}
  /\ result \in {"none", "ok", "failed"}
  /\ ejected \in {"none", "ok", "failed"}
  /\ ripped \in 0..MaxDiscs
  /\ misread \in BOOLEAN
  /\ attached \subseteq Drive
  /\ media \in [Drive -> 0..MaxDiscs]
  /\ inserted \in 0..MaxDiscs

Idle == {"select", "prompt", "wait", "open", "eject", "remove", "insert", "exit0", "exit1"}
AtDisc == {"toc", "pick", "art", "cover", "rip"}

(* The drive is held exactly while a disc is worked on, however the opening *)
(* or the ripping ended: the waits for a drive and for a disc, the eject    *)
(* and every way out of main() find it released.  The two prompts about a   *)
(* disc, for the candidates and the cover art, wait with it open.  And the  *)
(* reader never outlives the drive that it reads from.                      *)
HeldOnlyForADisc ==
  /\ pc \in Idle => held = {}
  /\ pc \in AtDisc => held = {"drive", "reader"}
  /\ "reader" \in held => "drive" \in held

(* The tray moves by the program's hand only when ejecting was asked for,   *)
(* nothing is open, and the disc in it has been through the track loop.     *)
EjectsOnlyWhenReleased ==
  [][media' # media /\ program' # program =>
       options.eject = "on" /\ held = {} /\ result # "none"]_vars

(* No disc is ripped twice without having been taken out in between,        *)
(* unless something failed unnoticed: the drive did not eject it, or, when  *)
(* it was kept, a failed query passed for its removal.                      *)
RipsAgainOnlyByFault ==
  [][pc = "toc" /\ pc' \in AtDisc \ {"toc"} => ripped' # ripped \/ ejected = "failed" \/ misread]_vars

(* The drive stays the one that was named, or chosen once. *)
StaysWithItsDrive ==
  /\ [][device # NoDrive => device' = device]_vars
  /\ [](options.device # NoDrive => device = options.device)

(* Exit code 0 says that the last disc was ripped without errors, and in    *)
(* automatic mode with -r the process does not end that way.                *)
ExitCodeIsTruthful ==
  pc = "exit0" => result = "ok" /\ ripped # Empty /\ ~(options.auto = "on" /\ options.repeat = "on")

(* A disc that lies in an awaited drive and stays there ends the waiting,   *)
(* although any single query may miss it.                                   *)
Offered == \E d \in Drive : DiscIn(d) /\ device \in {d, NoDrive}
DiscIsNoticed ==
  pc \in {"wait", "insert"} /\ Offered ~> ~Offered \/ pc \notin {"wait", "insert"}

(* Without -r a process that works on a disc comes to its end, or waits for *)
(* an answer about the disc, which with -a it never does; once the last     *)
(* answer is given it comes to its end.                                     *)
AtWork == {"open", "reader", "toc", "art", "rip", "close", "abandon", "eject"}
OneDiscRunEnds ==
  options.repeat = "off" /\ pc \in AtWork
    ~> \/ pc \in {"exit0", "exit1"}
       \/ options.auto = "off" /\ pc \in {"pick", "cover"}
=============================================================================
