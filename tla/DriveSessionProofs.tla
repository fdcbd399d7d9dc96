------------------------- MODULE DriveSessionProofs -------------------------
(***************************************************************************)
(* The safety of DriveSession for any number of drives and insertions.     *)
(*                                                                         *)
(* The inductive invariant IInv says, for every place of main(), what the  *)
(* handle holds, what is known of the last disc, and, from the moment the  *)
(* program waits for the next disc until it has read its table of          *)
(* contents, that the disc in the drive is not the one it ripped last      *)
(* unless an eject or a query of the drive failed.                         *)
(***************************************************************************)
EXTENDS DriveSession, FiniteSetTheorems, WellFoundedInduction, TLAPS

Choosing == {"select", "prompt", "wait"}
Awaiting == {"insert", "open", "reader", "toc"}

(* What the handle holds, also in the places between. *)
HeldInv ==
  /\ HeldOnlyForADisc
  /\ pc = "reader" => held = {"drive"}
  /\ pc \in {"close", "abandon"} => "drive" \in held

(* What has happened by the time the program is at a place. *)
PlaceInv ==
  /\ pc \in Choosing => ripped = Empty
  /\ pc = "prompt" => device = NoDrive /\ DOMAIN seen # {}
  /\ result # "none" \/ pc \in {"pick", "art", "cover", "rip"} => ripped # Empty
  /\ pc \in {"close", "eject", "remove", "insert"} => result # "none"
  /\ pc = "eject" => options.eject = "on"
  /\ pc \in {"pick", "cover"} => options.auto = "off"
  /\ pc = "exit0" => result = "ok" /\ ~(options.auto = "on" /\ options.repeat = "on")

(* The drive that was named is the one that is used. *)
DriveInv == options.device # NoDrive => device = options.device

(* Discs are numbered as they are inserted, and the one that was ripped is  *)
(* not awaited unless its eject or the query for its removal failed.        *)
DiscInv ==
  /\ ripped <= inserted
  /\ \A d \in Drive : media[d] <= inserted
  /\ pc \in Awaiting /\ ejected # "failed" /\ ~misread /\ ripped # Empty => media[device] # ripped

IInv == TypeOK /\ HeldInv /\ PlaceInv /\ DriveInv /\ DiscInv

-----------------------------------------------------------------------------

(* The smallest drive of a set of drives is one of them. *)
LEMMA MinDrive == \A S \in SUBSET Drive : S # {} => Min(S) \in S
  <1> SUFFICES ASSUME NEW S \in SUBSET Drive, S # {} PROVE Min(S) \in S
    OBVIOUS
  <1>1. S \subseteq Nat
    BY DriveSessionAssumption DEF Drive
  <1> DEFINE Less == {ss \in Nat \X Nat : ss[1] < ss[2]}
  <1>2. IsWellFoundedOn(Less, Nat)
    BY NatLessThanWellFounded, Zenon DEF OpToRel
  <1>3. PICK x \in S : \A y \in S : ~(<<y, x>> \in Less)
    BY <1>1, <1>2, WFMin, Zenon
  <1>4. ASSUME NEW y \in S PROVE x <= y
    <2>1. x \in Nat /\ y \in Nat
      BY <1>1
    <2>2. y < x => <<y, x>> \in Less
      BY <2>1
    <2>3. ~(y < x)
      BY <1>3, <2>2, Zenon
    <2> QED
      BY <2>1, <2>3
  <1> QED
    BY <1>4 DEF Min

(* The drive taken from the prompt is one that was listed. *)
LEMMA ChosenIsListed ==
  ASSUME TypeOK, DOMAIN seen # {}, NEW typed \in DOMAIN seen \cup {NoDrive}
  PROVE  ChosenDrive(typed) \in DOMAIN seen
  <1>1. DOMAIN seen \in SUBSET Drive /\ SeenMedia \in SUBSET Drive /\ SeenMedia \subseteq DOMAIN seen
    BY DEF TypeOK, SeenMedia
  <1>2. FirstSeen \in DOMAIN seen
    BY <1>1, MinDrive DEF FirstSeen
  <1>3. SeenMedia # {} => Min(SeenMedia) \in DOMAIN seen
    BY <1>1, MinDrive
  <1> QED
    BY <1>2, <1>3 DEF ChosenDrive

(* The invariant holds when the process starts. *)
LEMMA InitIInv == Init => IInv
  <1> SUFFICES ASSUME Init PROVE IInv
    OBVIOUS
  <1> USE DriveSessionAssumption DEF Init
  <1>1. options.device \in Drive \cup {NoDrive}
    BY DEF Options
  <1>2. media \in [Drive -> 0..MaxDiscs] /\ \A d \in Drive : media[d] <= inserted
    OBVIOUS
  <1>3. seen \in UNION {[S -> {"empty", "media"}] : S \in SUBSET Drive}
    <2>1. seen \in [{} -> {"empty", "media"}]
      OBVIOUS
    <2> QED
      BY <2>1
  <1>4. pc \in {"select", "wait"}
    OBVIOUS
  <1>5. device \in Drive \cup (IF pc \in {"select", "prompt", "wait", "exit1"} THEN {NoDrive} ELSE {})
    BY <1>1, <1>4
  <1>6. misread \in BOOLEAN
    BY Zenon
  <1>7. /\ options \in Options /\ asked = NoDrive /\ device = options.device
        /\ held = {} /\ result = "none" /\ ejected = "none" /\ ripped = 0
        /\ attached \subseteq Drive /\ inserted \in 0..MaxDiscs
    BY DEF Empty
  <1> HIDE DEF Init
  <1>8. TypeOK
    BY <1>2, <1>3, <1>4, <1>5, <1>6, <1>7 DEF TypeOK, Place
  <1> QED
    BY <1>2, <1>4, <1>7, <1>8
       DEF IInv, HeldInv, HeldOnlyForADisc, Idle, AtDisc, PlaceInv, DriveInv, DiscInv, Choosing, Awaiting, Empty

-----------------------------------------------------------------------------
(* Each part of the invariant is kept by every step. *)

(* What a detection reports is a list of drives. *)
LEMMA DetectedIsAList ==
  ASSUME TypeOK, NEW found \in Detected
  PROVE  /\ found \in UNION {[S -> {"empty", "media"}] : S \in SUBSET Drive}
         /\ DOMAIN found = attached
  <1>1. found \in [attached -> {"empty", "media"}] /\ attached \in SUBSET Drive
    BY DEF Detected, TypeOK
  <1> QED
    BY <1>1

(* A disc that a detection reports is there. *)
LEMMA ReportedIsThere ==
  ASSUME NEW found \in Detected, NEW d, HasMedia(found, d)
  PROVE  DiscIn(d)
  BY DEF Detected, HasMedia

(* The drive that a round of waiting finds is a drive, and the chosen one if *)
(* one was chosen.                                                          *)
LEMMA FoundIsADrive ==
  ASSUME TypeOK, NEW found \in Detected, Awaited(found) # {}
  PROVE  Min(Awaited(found)) \in Drive /\ device \in {Min(Awaited(found)), NoDrive}
  <1>1. Awaited(found) \in SUBSET Drive
    BY DetectedIsAList DEF Awaited, TypeOK
  <1>2. Min(Awaited(found)) \in Awaited(found)
    BY <1>1, MinDrive
  <1> QED
    BY <1>1, <1>2 DEF Awaited

(* Types. *)
LEMMA TypeStep == IInv /\ Next => TypeOK'
  <1> SUFFICES ASSUME IInv, Next PROVE TypeOK'
    OBVIOUS
  <1> USE DEF IInv, TypeOK, Place, world
  <1>1. NoDrive \notin Drive
    BY DriveSessionAssumption DEF Drive, NoDrive
  <1>2. CASE Select
    BY <1>1, <1>2, DetectedIsAList DEF Select, GiveUp
  <1>3. CASE Choose
    <2>1. seen' \in UNION {[S -> {"empty", "media"}] : S \in SUBSET Drive}
      <3>1. seen' \in [{} -> {"empty", "media"}]
        BY <1>3 DEF Choose
      <3> QED
        BY <3>1
    <2>2. DOMAIN seen \in SUBSET Drive
      OBVIOUS
    <2>3. asked' \in Drive \cup {NoDrive} /\ device' \in Drive
      BY <1>3, <2>2, ChosenIsListed DEF Choose, PlaceInv
    <2> QED
      BY <1>3, <2>1, <2>3 DEF Choose
  <1>4. CASE WaitForMedia
    BY <1>1, <1>4, FoundIsADrive DEF WaitForMedia, GiveUp
  <1>5. CASE OpenDrive \/ CreateReader \/ RipDisc \/ DestroyReader
    BY <1>5 DEF OpenDrive, CreateReader, RipDisc, DestroyReader
  <1>6. CASE ReadToc \/ PickEntries \/ FetchCoverArt \/ ChooseCover
    BY <1>6 DEF ReadToc, AfterToc, PickEntries, FetchCoverArt, ChooseCover
  <1>7. CASE CloseDrive
    BY <1>7 DEF CloseDrive, AfterClose, ExitCode
  <1>8. CASE Eject
    BY <1>8, DriveSessionAssumption DEF Eject, AfterClose, ExitCode, Empty
  <1>9. CASE PollRemoval \/ PollInsert \/ Quit
    BY <1>9 DEF PollRemoval, DiscIn, PollInsert, Quit, ExitCode
  <1>10. CASE World
    <2>1. CASE InsertDisc
      <3>1. inserted + 1 \in 0..MaxDiscs
        BY <2>1, DriveSessionAssumption DEF InsertDisc
      <3> QED
        BY <2>1, <3>1 DEF InsertDisc, program
    <2>2. CASE RemoveDisc
      BY <2>2, DriveSessionAssumption DEF RemoveDisc, program, Empty
    <2>3. CASE PlugDrive
      <3>1. attached' \subseteq Drive
        BY <2>3 DEF PlugDrive
      <3> QED
        BY <2>3, <3>1 DEF PlugDrive, program
    <2> QED
      BY <1>10, <2>1, <2>2, <2>3 DEF World
  <1> QED
    BY <1>2, <1>3, <1>4, <1>5, <1>6, <1>7, <1>8, <1>9, <1>10 DEF Next, Work, Person

(* The handle. *)
LEMMA HeldStep == IInv /\ Next => HeldInv'
  <1> SUFFICES ASSUME IInv, Next PROVE HeldInv'
    OBVIOUS
  <1> USE DEF IInv, HeldInv, HeldOnlyForADisc, Idle, AtDisc
  <1>1. held \subseteq {"drive", "reader"} /\ pc \in Place
    BY DEF TypeOK
  <1>2. CASE Select \/ Choose \/ WaitForMedia
    BY <1>2 DEF Select, Choose, WaitForMedia, GiveUp
  <1>3. CASE OpenDrive \/ CreateReader
    BY <1>3 DEF OpenDrive, CreateReader
  <1>4. CASE ReadToc \/ PickEntries \/ FetchCoverArt \/ ChooseCover \/ RipDisc
    BY <1>4 DEF ReadToc, AfterToc, PickEntries, FetchCoverArt, ChooseCover, RipDisc
  <1>5. CASE DestroyReader
    BY <1>5 DEF DestroyReader
  <1>6. CASE CloseDrive
    BY <1>1, <1>6 DEF CloseDrive, AfterClose, ExitCode
  <1>7. CASE Eject
    BY <1>7 DEF Eject, AfterClose, ExitCode
  <1>8. CASE PollRemoval \/ PollInsert \/ Quit
    BY <1>8 DEF PollRemoval, PollInsert, Quit, ExitCode
  <1>9. CASE World
    BY <1>9 DEF World, InsertDisc, RemoveDisc, PlugDrive, program
  <1> QED
    BY <1>2, <1>3, <1>4, <1>5, <1>6, <1>7, <1>8, <1>9 DEF Next, Work, Person

(* The last disc. *)
LEMMA PlaceStep == IInv /\ Next => PlaceInv'
  <1> SUFFICES ASSUME IInv, Next PROVE PlaceInv'
    OBVIOUS
  <1> USE DEF IInv, PlaceInv, Choosing
  <1>1. CASE Select
    <2>1. Cardinality(attached) > 1 => attached # {}
      BY FS_EmptySet
    <2> QED
      BY <1>1, <2>1, DetectedIsAList DEF Select, GiveUp
  <1>2. CASE Choose \/ WaitForMedia
    BY <1>2 DEF Choose, WaitForMedia, GiveUp
  <1>3. CASE OpenDrive \/ CreateReader \/ DestroyReader
    BY <1>3 DEF OpenDrive, CreateReader, DestroyReader
  <1>4. CASE ReadToc \/ PickEntries \/ FetchCoverArt \/ ChooseCover \/ RipDisc
    <2>1. options.auto \in Switch
      BY DEF TypeOK, Options
    <2> QED
      BY <1>4, <2>1 DEF ReadToc, AfterToc, PickEntries, FetchCoverArt, ChooseCover, RipDisc, DiscIn, Switch
  <1>5. CASE CloseDrive \/ Eject
    BY <1>5 DEF CloseDrive, Eject, AfterClose, ExitCode
  <1>6. CASE PollRemoval \/ PollInsert \/ Quit
    BY <1>6 DEF PollRemoval, PollInsert, Quit, ExitCode
  <1>7. CASE World
    BY <1>7 DEF World, InsertDisc, RemoveDisc, PlugDrive, program
  <1> QED
    BY <1>1, <1>2, <1>3, <1>4, <1>5, <1>6, <1>7 DEF Next, Work, Person

(* A drive that is chosen stays chosen. *)
LEMMA DeviceStep == IInv /\ Next => (device # NoDrive => device' = device)
  <1> SUFFICES ASSUME IInv, Next, device # NoDrive PROVE device' = device
    OBVIOUS
  <1>1. CASE WaitForMedia
    BY <1>1, FoundIsADrive DEF WaitForMedia, GiveUp, IInv
  <1>2. CASE Select \/ Choose
    BY <1>2 DEF Select, Choose, GiveUp, IInv, PlaceInv
  <1>3. CASE OpenDrive \/ CreateReader \/ DestroyReader \/ CloseDrive \/ Eject
    BY <1>3 DEF OpenDrive, CreateReader, DestroyReader, CloseDrive, Eject
  <1>4. CASE ReadToc \/ PickEntries \/ FetchCoverArt \/ ChooseCover \/ RipDisc
    BY <1>4 DEF ReadToc, PickEntries, FetchCoverArt, ChooseCover, RipDisc
  <1>5. CASE PollRemoval \/ PollInsert \/ Quit \/ World
    BY <1>5 DEF PollRemoval, PollInsert, Quit, World, InsertDisc, RemoveDisc, PlugDrive, program
  <1> QED
    BY <1>1, <1>2, <1>3, <1>4, <1>5 DEF Next, Work, Person

(* The options are never changed. *)
LEMMA OptionsStep == Next => options' = options
  BY DEF Next, Work, Person, Select, Choose, WaitForMedia, OpenDrive, CreateReader, ReadToc,
         PickEntries, FetchCoverArt, ChooseCover, RipDisc, DestroyReader, CloseDrive, Eject,
         PollRemoval, PollInsert, Quit, World, InsertDisc, RemoveDisc, PlugDrive, program

(* The named drive. *)
LEMMA DriveStep == IInv /\ Next => DriveInv'
  BY DeviceStep, OptionsStep DEF IInv, DriveInv

(* The awaited disc. *)
LEMMA DiscStep == IInv /\ Next => DiscInv'
  <1> SUFFICES ASSUME IInv, Next PROVE DiscInv'
    OBVIOUS
  <1> USE DEF IInv, DiscInv, Awaiting, world
  <1>1. /\ ripped \in Nat /\ inserted \in Nat /\ media \in [Drive -> Nat]
        /\ pc \in Awaiting \cup {"eject", "remove"} => device \in Drive
    BY DriveSessionAssumption DEF TypeOK
  <1>2. CASE Select \/ Choose \/ WaitForMedia
    BY <1>2 DEF Select, Choose, WaitForMedia, GiveUp, PlaceInv, Choosing
  <1>3. CASE OpenDrive \/ CreateReader \/ RipDisc \/ DestroyReader
    BY <1>3 DEF OpenDrive, CreateReader, RipDisc, DestroyReader
  <1>4. CASE ReadToc \/ PickEntries \/ FetchCoverArt \/ ChooseCover
    BY <1>1, <1>4 DEF ReadToc, AfterToc, PickEntries, FetchCoverArt, ChooseCover, DiscIn
  <1>5. CASE CloseDrive
    <2>1. options.eject \in Switch
      BY DEF TypeOK, Options
    <2> QED
      BY <1>5, <2>1 DEF CloseDrive, AfterClose, ExitCode, Switch
  <1>6. CASE Eject
    BY <1>1, <1>6 DEF Eject, AfterClose, ExitCode, PlaceInv, Empty
  <1>7. CASE PollRemoval
    <2>1. misread' = misread \/ misread' = DiscIn(device)
      BY <1>7 DEF PollRemoval
    <2>2. pc' = "insert" => misread' = DiscIn(device) /\ device \in attached
      BY <1>7 DEF PollRemoval
    <2>3. pc' = "insert" /\ ~misread' => media[device] = Empty
      BY <2>2 DEF DiscIn
    <2>4. pc' \in {"exit1", "insert"} /\ UNCHANGED <<ripped, ejected, device, media, inserted>>
      BY <1>7 DEF PollRemoval
    <2> QED
      BY <2>3, <2>4
  <1>11. CASE PollInsert \/ Quit
    BY <1>11 DEF PollInsert, Quit, ExitCode
  <1>8. CASE InsertDisc
    BY <1>1, <1>8 DEF InsertDisc, program
  <1>9. CASE RemoveDisc
    BY <1>1, <1>9 DEF RemoveDisc, program, Empty
  <1>10. CASE PlugDrive
    BY <1>10 DEF PlugDrive, program
  <1> QED
    BY <1>2, <1>3, <1>4, <1>5, <1>6, <1>7, <1>8, <1>9, <1>10, <1>11 DEF Next, Work, Person, World

(* The inductive invariant holds in every reachable state. *)
THEOREM Invariance == Spec => []IInv
  <1>1. IInv /\ UNCHANGED vars => IInv'
    BY DEF vars, program, world, IInv, TypeOK, HeldInv, HeldOnlyForADisc, PlaceInv, DriveInv, DiscInv
  <1>2. IInv /\ [Next]_vars => IInv'
    BY <1>1, TypeStep, HeldStep, PlaceStep, DriveStep, DiscStep DEF IInv
  <1> QED
    BY InitIInv, <1>2, PTL DEF Spec

-----------------------------------------------------------------------------

(* Every variable keeps its type. *)
THEOREM TypeCorrect == Spec => []TypeOK
  <1>1. IInv => TypeOK
    BY DEF IInv
  <1> QED
    BY Invariance, <1>1, PTL

(* While the process waits for a drive or a disc, ejects or ends, the drive *)
(* is released; from the reading of its table of contents to the end of     *)
(* the track loop, at the prompts too, it is held; and the reader is gone   *)
(* before the drive is.                                                     *)
THEOREM HeldCorrect == Spec => []HeldOnlyForADisc
  <1>1. IInv => HeldOnlyForADisc
    BY DEF IInv, HeldInv
  <1> QED
    BY Invariance, <1>1, PTL

(* Exit code 0 says that the last disc was ripped without errors. *)
THEOREM ExitCorrect == Spec => []ExitCodeIsTruthful
  <1>1. IInv => ExitCodeIsTruthful
    BY DEF IInv, PlaceInv, ExitCodeIsTruthful
  <1> QED
    BY Invariance, <1>1, PTL

(* The program moves the tray only if it was asked to, with nothing open,   *)
(* and after the track loop.                                                *)
THEOREM EjectCorrect == Spec => EjectsOnlyWhenReleased
  <1>1. ASSUME IInv, [Next]_vars, media' # media, program' # program
        PROVE  options.eject = "on" /\ held = {} /\ result # "none"
    <2>1. Eject
      BY <1>1 DEF Next, Work, Person, vars, world, Select, Choose, WaitForMedia, OpenDrive, CreateReader, ReadToc,
                  PickEntries, FetchCoverArt, ChooseCover, RipDisc, DestroyReader, CloseDrive, PollRemoval,
                  PollInsert, Quit, World, InsertDisc, RemoveDisc, PlugDrive
    <2> QED
      BY <1>1, <2>1 DEF Eject, IInv, HeldInv, HeldOnlyForADisc, Idle, PlaceInv
  <1> QED
    BY <1>1, Invariance, PTL DEF Spec, EjectsOnlyWhenReleased

(* The same disc is ripped again only if it should have been ejected and    *)
(* was not, or if a failed query passed for its removal.                    *)
THEOREM RipsAgainCorrect == Spec => RipsAgainOnlyByFault
  <1>1. ASSUME IInv, [Next]_vars, pc = "toc", pc' \in AtDisc \ {"toc"}
        PROVE  ripped' # ripped \/ ejected = "failed" \/ misread
    <2>1. pc' # pc /\ pc' # "abandon"
      BY <1>1 DEF AtDisc
    <2>2. ~World
      BY <2>1 DEF World, InsertDisc, RemoveDisc, PlugDrive, program
    <2>3. ReadToc
      BY <1>1, <2>1, <2>2 DEF Next, Work, Person, vars, program, Select, Choose, WaitForMedia, OpenDrive, CreateReader,
            PickEntries, FetchCoverArt, ChooseCover, RipDisc, DestroyReader, CloseDrive, Eject, PollRemoval,
            PollInsert, Quit
    <2> QED
      BY <1>1, <2>1, <2>3 DEF ReadToc, DiscIn, IInv, DiscInv, Awaiting
  <1> QED
    BY <1>1, Invariance, PTL DEF Spec, RipsAgainOnlyByFault

(* The drive that was named, or was chosen, is the one that is used. *)
THEOREM DriveCorrect == Spec => StaysWithItsDrive
  <1>1. IInv /\ [Next]_vars => (device # NoDrive => device' = device)
    BY DeviceStep DEF vars, program
  <1>2. IInv => (options.device # NoDrive => device = options.device)
    BY DEF IInv, DriveInv
  <1> QED
    BY <1>1, <1>2, Invariance, PTL DEF Spec, StaysWithItsDrive
-----------------------------------------------------------------------------
(* How far a disc has come, from the opening of its drive on.              *)

Asking == {"pick", "cover"}
Busy == AtWork \cup Asking

(* The steps left at a place, with the reader still open or not. *)
LeftAt(place, reader) ==
  CASE place = "open" -> 10 [] place = "reader" -> 9 [] place = "toc" -> 8 [] place = "pick" -> 7
    [] place = "art" -> 6 [] place = "cover" -> 5 [] place = "rip" -> 4
    [] place \in {"close", "abandon"} -> (IF reader THEN 3 ELSE 2) [] place = "eject" -> 1 [] OTHER -> 0

StepsLeft == LeftAt(pc, "reader" \in held)

(* main() can take a step: elsewhere one needs nothing but its place. *)
CanGoOn == pc \in {"close", "abandon"} => "reader" \in held \/ "drive" \in held

(* main() is left alone by the world, or brings the disc nearer to its end. *)
(* At the prompts the step is the answer of a person.                       *)
Onward ==
  pc \in Busy =>
    \/ World /\ StepsLeft' = StepsLeft
    \/ /\ StepsLeft' < StepsLeft
       /\ options.repeat = "off" => pc' \in Busy \cup {"exit0", "exit1"}
       /\ pc \in Asking => Person

(* Whatever fails, and whatever is done to the drives meanwhile, main() is done with a     *)
(* disc after ten steps at most, of which two at most are answers of a person, and none    *)
(* with -a.  It can always take the next of its own.  Without -r the steps lead to an exit *)
(* only.                                                                                   *)
THEOREM DiscRunsOut ==
  Spec => /\ [](StepsLeft \in 0..10 /\ (pc \in AtWork => CanGoOn) /\ (options.auto = "on" => pc \notin Asking))
          /\ [][Onward]_vars
  <1>1. IInv => StepsLeft \in 0..10 /\ (pc \in AtWork => CanGoOn) /\ (options.auto = "on" => pc \notin Asking)
    BY DEF IInv, HeldInv, PlaceInv, StepsLeft, LeftAt, CanGoOn, Asking
  <1>2. ASSUME IInv, Next PROVE Onward
    <2> USE DEF Onward, Busy, AtWork, Asking, StepsLeft, LeftAt
    <2>1. CASE World
      BY <2>1 DEF World, InsertDisc, RemoveDisc, PlugDrive, program
    <2>2. CASE Select \/ WaitForMedia \/ PollRemoval \/ PollInsert \/ Choose \/ Quit
      BY <2>2 DEF Select, WaitForMedia, PollRemoval, PollInsert, Choose, Quit
    <2>3. CASE OpenDrive
      BY <2>3 DEF OpenDrive
    <2>4. CASE CreateReader
      BY <2>4 DEF CreateReader
    <2>5. CASE ReadToc
      BY <2>5 DEF ReadToc, AfterToc
    <2>6. CASE RipDisc
      BY <2>6, <1>2 DEF RipDisc, IInv, HeldInv, HeldOnlyForADisc, AtDisc
    <2>7. CASE DestroyReader
      BY <2>7 DEF DestroyReader
    <2>8. CASE CloseDrive
      BY <2>8 DEF CloseDrive, AfterClose, ExitCode
    <2>9. CASE Eject
      BY <2>9 DEF Eject, AfterClose, ExitCode
    <2>10. CASE PickEntries
      BY <2>10 DEF PickEntries, Person
    <2>11. CASE FetchCoverArt
      BY <2>11 DEF FetchCoverArt
    <2>12. CASE ChooseCover
      BY <2>12 DEF ChooseCover, Person
    <2> QED
      BY <1>2, <2>1, <2>2, <2>3, <2>4, <2>5, <2>6, <2>7, <2>8, <2>9, <2>10, <2>11, <2>12 DEF Next, Work, Person
  <1>3. IInv /\ [Next]_vars => [Onward]_vars
    BY <1>2
  <1> QED
    BY <1>1, <1>3, Invariance, PTL DEF Spec

=============================================================================
