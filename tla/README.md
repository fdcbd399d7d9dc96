# A TLA+ model of cdrip

cdrip is a command line CD ripper in C++: it reads the audio tracks of a disc,
encodes them to FLAC, asks CDDB servers and MusicBrainz for tags, fetches cover
art, computes ReplayGain and publishes the files to a local or remote
destination; in update mode it renews the tags of files it finds. This directory
holds TLA+ models of the parts of it where order, failure and concurrency
matter, configurations that check them with TLC, and proofs for TLAPS. Paths are
those of the repository below `src/`: `src/src/main.cpp` is the command line
program, `src/src/cdrip/` the library it uses.

Contents: [1 Inventory](#1-inventory), [2 Modules](#2-modules),
[3 Runs](#3-runs), [4 Findings](#4-findings), [5 Fairness](#5-fairness),
[6 Proofs](#6-proofs), [7 Limits](#7-what-is-not-modelled-or-not-proved),
[8 Plan](#8-plan). `PROJECT.json` has the same in machine-readable form: the
source lines of every definition, the hazards with the properties that cover
them, and for every property a mutant of the model that violates it.

## 1 Inventory

### Components

| Component | Source | State it keeps | Operations | Model |
|---|---|---|---|---|
| Album ripping and publishing | `main.cpp:3288-3475`, `rip.cpp`, `replaygain.cpp` | staged files and their tags, album ReplayGain state, the destination and its `.tmp` siblings | `cdrip_rip_track`, `finalize_replaygain_scan`, tagging, `publish_local_file_to_destination` | `AlbumRip`, `SafeReplace` |
| Drive session | `main.cpp:2458-2707, 3060-3250, 3519-3546`, `drive_handle.cpp`, `drives.cpp`, `drive_backend.cpp` | the chosen drive, the `CdRip` handle, the result of the last disc | selecting, waiting, `cdrip_open`, `cdrip_close`, eject, repeat | `DriveSession` |
| Metadata fetch | `cddb_entries.cpp:1488-1734`, `album_extractor.cpp` | one answer per server, the completed count, the observer's snapshot, the seen keys of the title search | `cdrip_fetch_cddb_entries`, its tasks and the title search | `MetadataFetch` |
| Cover art | `main.cpp:1833-2132`, `cover_art.cpp` | the picture of each entry, the pictures in the metadata cache | `ensure_cover_art_merged`, `cdrip_fetch_cover_art`, `cdrip_fetch_discogs_cover_art` | `CoverArt` |
| HTTP downloads | `http_retry.h` | attempt, redirection count, pause, error | `http_get_bytes_with_retry` | `HttpRetry` |
| Table of contents and requery tags | `disc_toc.cpp`, `flac_metadata.cpp`, `internal.h:462-519` | `CdRipDiscToc`, the Vorbis comments of a file | `cdrip_build_disc_toc`, `append_requery_seed_tags`, `cdrip_collect_cddb_queries_from_path`, `cdrip_update_flac_with_cddb_entry` | `Requery` |
| MusicBrainz media matching | `cddb_entries.cpp:298-534` | none | `select_matching_media`, `track_lengths_match_for_recrawl` | `Requery` |
| Update mode | `main.cpp:2794-2904`, `flac_metadata.cpp` | collected targets, the metadata cache, the tags of the files | `run_update_mode` and what it calls | `UpdateMode`; tags in detail in `Requery`, pictures in `CoverArt` |
| Entry selection and merging | `main.cpp:1629-1831, 2134-2456` | the list, the menu, the chosen entries | filter, sort, parse the numbers, merge | `UpdateMode`; parts in `CoverArt`, `Requery` |
| Spinners | `main.cpp:354-673` | a snapshot, the drawn line and its width, `running_`, a render thread | start, update, print a message, stop, destroy | `Spinner`, `StatusLine` |
| CDDB protocol client | `cddb_entries.cpp:1361-1482` | one connection | a sequence of libcddb calls | its outcome, in `MetadataFetch` |
| File names and tag formatting | `track_tags.cpp`, `format_value.h` | none | pure text | its outcome, in `AlbumRip` |
| Configuration, command line, terminal pictures, helpers, public header, build, tests | the rest | none that other parts change | | options chosen in each `Init` |

### How they interact

`main()` is one thread. It opens a drive (drive session), builds the table of
contents, fetches metadata (one thread per server, all joined before the call
returns; they call back into an observer that feeds the spinner's thread), lets
a person choose entries, fetches cover art (each picture through the HTTP
downloads), and then runs the track loop. What the loop publishes carries the
requery tags that a later process in update mode reads back, asks the servers
with, and writes again. The components thus share no memory but the observer's
snapshot; they share files: the destination across runs and the tags across
processes. That is why most models are one component whose neighbours are
outcomes: `DriveSession` sees one disc as success or failure, `AlbumRip` sees
tags as paths that may collide, `CoverArt` sees a download as found or failed.

### What is hard here, and what makes each part correct

* **Partial failure in a long loop.** Fifteen early returns in
  `rip_track_with_options`, two loops over the tracks, publishing through a
  sibling name: no album with a half-applied ReplayGain, nothing published after
  a failure, success only when everything is there, and never a lost file because
  of one fault.
* **Crash and restart.** A killed process leaves `.tmp` siblings and a gap
  between deleting the old file and moving the new one in.
* **A world that moves between polls.** Discs and drives come and go while
  `main()` waits for a person or sleeps: no leaked handle, the right disc, the
  right drive, a truthful exit code.
* **Answers in any order.** One thread per server: the numbering that the user
  chooses by, the error that is reported and the progress must not depend on it.
* **Retries over several sources.** Preferences must survive retries, caches and
  failures; a retry loop in which redirections give their attempt back must end.
* **One row, two writers.** While the caller waits, a thread redraws the last row of
  the terminal; the caller prints messages in between and takes the row back.
* **One list, many files.** In update mode the list that the servers gave for one
  file is offered to the others, filtered, sorted, numbered, merged and changed on
  the way: a file must not get what belongs to another disc, or to another line.
* **Round trips.** The disc's identity goes into tags in units of its own (whole
  seconds, with and without 150 sectors of lead-in) and back, over any number of
  updates from different releases.

`PROJECT.json` lists 40 such hazards, each at its line.

## 2 Modules

Every module names the code it models in its header; each action is one handler
or one step between two points at which something else (a crash, another
thread, a person) can intervene. Definitions whose comment begins with "Mutant:"
are not part of the specification: each one changes the definition of the same
subject below it as a plausible bug would, and shows that a property notices.

**SafeReplace** is the abstract specification of publishing: every path has a
sibling; the sibling may be spoiled or filled at any time, but the path is
withdrawn only while a finished copy stands in the sibling, and gets its content
in one step. `NeverBrokenOff` follows: no file under its final name is one whose copy
was broken off. A file whose encoder lost its end counts as finished here (section 4 has
the run about it).

**AlbumRip** is one pass of the disc loop after another. `pc` is where the
process stands, `stage` which of the two loops (`"rip"`: over the tracks,
`"album"`: over `staged_tracks`), `file`/`part` the files under their names and
under `<name>.tmp`, both in the staging directory and at the destination; staged
names are track numbers, so that the same copy actions serve both publications,
as the one function does in the code. `Encode` is the whole ripping of a track up to
`encoder.finish()`, whose unread result is a nondeterministic field of the file;
`BeginCopy`, `EndCopy`, `DeleteOld`, `MoveIn` are the steps of
`publish_local_file_to_destination`; `FinishRipping` is the album gain,
`TagStaged` the tags of one staged file; `Fail` is any of the early returns,
`Crash` the end of the process between two steps. `faults` counts failed and killed
runs, `owned` the paths that ever had a file (history variables).

**DriveSession** is `main()` around it: `Select`/`Choose` (the drive prompt, with
the list of drives as it was when it was printed), the two polling waits,
`OpenDrive`/`CreateReader` (the failing steps of `cdrip_open`), `ReadToc`, the prompt for
the candidates (`PickEntries`), `FetchCoverArt` and its prompt (`ChooseCover`), `RipDisc`,
`DestroyReader`/`CloseDrive` (`cdrip_close`), `Eject`, and the repeat loop. The prompts
are actions of `Person`, at places of their own. The world (`InsertDisc`,
`RemoveDisc`, `PlugDrive`) moves at any moment. What the program sees of it is
`Detected`: a drive whose disc cannot be opened or identified looks empty
(`drive_backend.cpp:31-37`), so any query may miss a disc, and a missed disc in the
wait for removal passes for a removal (`misread`, a history variable). Discs are
insertion numbers, so that "the same disc again" can be said; `ripped` is the one whose table of
contents was read last.

**MetadataFetch**: a `worker` per server with the five steps of its lambda
(`Start`, `Report`, `Fetch`, `Count`, `Report`), and the caller (`Launch`, `Join`
in server order, `Plan`, `BeginTitle`, `SearchTitle`, `EndTitle`, `MergeServer`,
`Return`). That counting and reporting are two steps is kept, because the observer
sees them in any order. `SetError` keeps the first error, and the merge that gives
it the errors goes through the servers one by one.

**CoverArt**: `SelectEntries`, the phases of `ensure_cover_art_merged` (`Begin`,
one `Fetch` per entry asked, `EndPhase` with the retry phase, `Offer` where a
person chooses), and `UpdateFile`, which embeds the picture and keeps it in the
cache for the next file. `denied` records which source had nothing for which
entry, so that preference can be stated about the whole call.

**UpdateMode** is `run_update_mode`: `Collect` reads what identifies the disc from the
tags of a target's files, `Hit` and `Fetch` are the two ways to a list, `Show`
filters and sorts it, `Pick` and `IgnoreAll` take the numbers typed, `Update` writes
the tags of one entry or of several merged (`Merged`, `MergedGenres`), with the file's own
release and medium where no entry has them (`Seeded`); the rest is what may be skipped or fail. `ReadyList` is worth a look: an entry that is taken as it
is gets its missing titles in place, in the list that may be cached again. Tags are
numbers; a track's title stands for all that is tagged per track, a medium is named
by its disc. `CacheKey` distinguishes the four kinds of keys.

**StatusLine** is the abstract specification of the last row of a terminal: it shows nothing
or one whole frame, and text that stays is only written to an empty row. A picture
is the exception it names (`Overprint`).

**Spinner** is the renderer behind all three spinners, column by column: the render
thread (`Check`, `Build`, `BeginDraw`, `Draw`, `Leave`; a line is built before the
mutex is taken, as in the code), and the caller (`Start`, `Update`, `BeginMessage` and
`EndMessage` under the mutex, `Stop`, `Join`, the three ways through
`finalize_render`, `Destroy` for the second stop in the destructor). `PictureRow` is
printed without the mutex, as the code does.

**HttpRetry**: `Send` with its disjuncts in the order of the code (`Follow`, `Accept`,
`Retry`, `GiveUp`) and `Pause`. Responses are all combinations of status,
error class, body, Location and Retry-After that libsoup can return.

**Requery**: `ReadDisc`, `Select` (which MusicBrainz media survive
`select_matching_media`), `WriteTags` and `Collect` (update mode reading a file
back), in a cycle. The arithmetic is the code's: sectors, whole seconds, the
150-sector lead-in, rounded milliseconds, the rounded-up percentage with its
minimum of a second. The disc ID, a hash, is represented by what is hashed.

The `MC...` modules extend these and only define values for constants.
The `...Proofs` modules, one for each of the eight machines, hold the theorems.

## 3 Runs

Each module has one passing run that checks everything said of it, and one run
for every statement of a document or comment that the code does not keep
(section 4). `CHECK_DEADLOCK` is off in all of them because all of them may stop:
a process exits, a call returns, a file is not readable.

| Run | Configuration | Distinct states | Bounds |
|---|---|---|---|
| `album_rip` | `MCAlbumRip.cfg` | 426,560 | 2 tracks, 2 paths, 2 runs |
| `drive_session` | `MCDriveSession.cfg` | 401,800 | 2 drives, 3 insertions |
| `metadata_fetch` | `MCMetadataFetch.cfg` | 617,686 | 3 servers, 1 release, 2 titles of 2 spellings, 2 finds each |
| `cover_art` | `MCCoverArt.cfg` | 1,636,496 | 3 entries, 2 files |
| `update_mode` | `MCUpdateMode.cfg` | 3,260,374 | 2 files in 1 or 3 targets, 2 discs, 2 releases, 4 records |
| `spinner` | `MCSpinner.cfg` | 55,566 | 3 columns, 2 spinners |
| `http_retry` | `MCHttpRetry.cfg` | 5,376 | 3 attempts, 2 redirections |
| `requery` | `MCRequery.cfg` | 2,338 | 25 discs, one of them without audio, 3 releases each; any number of updates |

**album_rip.** `GainCoversAlbum`: a file ripped with ReplayGain reaches the
destination only with a gain computed from every track, whatever failed.
`NothingBeforeLastTrack`: with ReplayGain the destination is untouched until all
tracks are staged. `SuccessPublishesAll`: a successful run leaves every track in
place, and of tracks whose names collide the last. `OneFaultKeepsACopy`: one
failed or killed run never costs the last finished copy of a path: it is under
its name or in its sibling, where a copy is finished if it was not broken off: what the encoder
lost counts as there. (Two can: a kill between deletion and move, and then a
spoiled copy over the sibling.) `FailureStopsPublishing`, `RunEnds`, and
`ReplacesSafely`: AlbumRip implements SafeReplace with `shelf <- file`,
`sibling <- part` at the destination's paths. Two tracks are the fewest that can be
at different stages, and two paths let names be equal or different; two
runs let one meet what a failed, killed or successful one left.

**drive_session.** `HeldOnlyForADisc`: wherever the program waits for a drive
or a disc, ejects or exits, nothing is held; from the table of contents to the end of the
track loop drive and reader are, also while it waits for an answer about the
disc; and the reader never outlives its drive. `EjectsOnlyWhenReleased`, `ExitCodeIsTruthful`,
and `RipsAgainOnlyByFault`: a disc that was not taken out is ripped again only after a failed eject
or a failed query. `DiscIsNoticed` and `OneDiscRunEnds` are its liveness; the latter says
that a run without `-r` exits, or waits for an answer about the disc, which
with `-a` it never does. All 48 combinations of `-a`, `-r`, `-ne`, `-d` and a terminal
are initial states. Two drives are enough for a wrong one to exist; three
insertions let a disc be followed by another while a third is in the other drive.

**metadata_fetch.** `ListedInServerOrder` (the numbering is the same in whatever order
answers arrive), `ErrorIsTheFirst`, `NoReleaseFoundTwice`, `SearchOnlyWhenDue`
(from the answers of all threads, however late, and when no thread is left that
could report to an observer that has gone), `ShownIsHonest` (the display never
runs ahead of the work and ends complete), `FetchReturns`. Three servers, any of which is MusicBrainz,
allow two of one kind with one of the other between them; one release
is enough to be found twice, and entries without identifiers are there as well.

**cover_art.** `PreferenceIsKept` (the source that `-dc` puts second is used only if
the first had nothing for any entry), `EarlierEntryWins`, `FailsOnlyWithNothing`,
`OnePicturePerAlbum` (with `-a`, files updated one after the other agree, unless
`-dc always` asks Discogs anew each time), `PictureIsNeverLost`. Three entries are the
fewest of which one can be first, last or in between, in any order the user types;
two files are the fewest of which one meets what another left.

**update_mode.** `OwnDiscOnly` (a file that names its disc is never offered what
MusicBrainz has of another, however files share lists), `AskedOnce` (per key, whatever
the servers answered), `ChosenTagsAreWritten` (each tag is that of the first line
picked that has it, in what is really written: the numbers typed go through the menu, its order,
the filter and the merge, and if no line has a release or a medium the file keeps its own), `GenresAreMerged` (all genres of the lines picked, none twice whatever its letters, in
zip order). The two discs have one CDDB disc ID and share a release, so that every kind of key
is shared by files it should, and by files it should not, be shared by; the seeds have
every kind of key. Of the records one has no date, two have no title, and genres
are spelt in two ways. The lines typed select one, reorder, repeat, select all, ignore, and
mix what may not be mixed.

**spinner.** `ScreenIsGivenBack` (when `stop` has returned, no thread is left and the cursor stands
in front of an empty row), `StopReturns`, and `RowsAreWhole`: Spinner implements
StatusLine with `row <- Seen(row)`. Three columns are enough for a frame to be shorter
than, as long as and longer than another, with a rest to wipe; two spinners
let the second meet what the first left.

**http_retry.** `RequestsBounded` (attempts plus redirections, although a redirection
takes back the step of the attempt counter), `GivesUpOnlyWhenExhausted`,
`OutcomeIsExplained`, `ServerIsGivenTime` (Retry-After is respected up to an hour),
`CallReturns`. The policy is the one all callers pass; statuses are one of each class
the code distinguishes, Retry-After values lie at the edges of what it parses.

**requery.** `FilesStayUpdatable` (a file written once can be read back for ever),
`SeedsAreOfTheDisc` (offsets, length, lead-out and disc ID survive the round trip),
`ReleaseAndMediumAgree` (no update leaves the release of one with the medium of
another), `OwnMediumIsKept` (the strict length filter never drops the medium the disc
is, although update mode knows the last track only to the second). The discs have
last tracks that end at the first, a middle and the last sector of a second, data
tracks in front and behind, last sectors named by the drive before, at and behind the
audio; the releases have the disc's medium with its disc ID and without, another medium with as
many tracks, and media the disc ID was attached to although they have more tracks, no
lengths or no count. `LongTrack` is where 2 % is just more
than the minimum of a second.

## 4 Findings

Runs that TLC refutes; each checks one statement that the repository makes.

| Run | Statement | What the code does |
|---|---|---|
| `album_rip_readme` | README.md:91: no final file appears before the ReplayGain tags have been written (`AllTaggedBeforeAnyAppears`) | `main.cpp:3431-3454` tags and publishes track by track |
| `album_rip_finish` | cdrip.h:557-568: non-zero on success (`SuccessMeansWholeFiles`) | `rip.cpp:403` ignores `encoder.finish()`; a truncated file is published as a success |
| `cover_art_candidates` | README.md:190: both sources' candidates are shown (`CandidatesAreFromTheirSource`) | for an album's second file the cached Discogs picture is shown as the archive's (`cover_art.cpp:931`) |
| `update_mode_titles` | README.md:103: the first candidate typed takes precedence, then the following ones (`NameIsNotMadeUp`) | "Track N", made up when the first candidate was taken alone for an earlier file, was cached as its title and hides the title of the second (`main.cpp:1434`, `2878`) |

All four are safety properties and need no fairness. None of the statements is an
assumption anywhere else.

Other disagreements, which the models contain but no run is made for:

* After a failed eject the disc in the drive is the next one: with `-r` it is ripped again
  without the prompt of README.md:74, in automatic mode without end (`main.cpp:3512`).
  With `-r -ne` a query that fails (`drive_backend.cpp:31-37`) while the removal is awaited does the same.
  `RipsAgainOnlyByFault` says that there is no other way to it.
* At the drive prompt 1 means "nothing chosen": if drive 1 is empty, another one that has a disc is
  used (`main.cpp:3146`; the prompt at `main.cpp:3130` numbers the drives from 1).
* `http_retry.h:55` says that hard failures are not retried; they leave status 0, which
  is retryable (`http_retry.h:180`).
* README.md:165 says that `musicbrainz_discid` and `musicbrainz_leadout` are removed when a fetch succeeds;
  the code and `test_requery_seed_tags.cpp` keep them (`internal.h:501`).
* With `-dc no` the interactive mode asks Discogs and offers its picture (`main.cpp:2052`). README.md:201 says
  that Discogs is not used then; README.md:192 gives `no` a default among the two.
* Unless `-na` is given, a picture is printed while its spinner runs (`main.cpp:2033`): the exception of `StatusLine`.
* In update mode a list cached for a disc is offered to a file of that disc whose tags name another
  release, although README.md:157 calls the release the primary key.

## 5 Fairness

* **AlbumRip**: `WF(Work)`. `main()` runs on one thread and every step of it returns,
  with success or failure. Nothing is assumed of `StartRun` or `Crash`.
* **DriveSession**: `WF(Work)`. The steps of `main()` that need no person; the polling
  loops sleep for a second and look again without end. A round that sees nothing new, a failed
  query among them, changes nothing; that not every query of a disc that stays fails is
  assumed, since a drive that can never be read offers no disc. The prompts (`Choose`,
  `PickEntries`, `ChooseCover`, `Quit`) have no fairness: that anybody types, inserts or
  removes a disc is not assumed, so that only discs that stay are promised to be noticed, and
  `OneDiscRunEnds` lets a run wait at a prompt for ever.
* **MetadataFetch**: weak fairness of the caller and of each thread: `std::async` with
  `std::launch::async` gives each a thread of its own, and each request is answered,
  refused or times out in the client library.
* **Spinner**: `WF(Worker)`: the render thread runs, and each of its waits is timed.
  `WF(Stopping)`: the steps of the caller once it stops the spinner or is printing a
  line. That the caller ever stops is not assumed. Weak fairness is enough for
  the mutex, since the caller that stops takes it only after the join, when nobody competes for it.
* **HttpRetry**: `WF(Next)`. The call is sequential and the session has a timeout.
* **CoverArt**, **Requery**, **UpdateMode**: none, as nothing is claimed that would need it.

## 6 Proofs

The TLAPS theorems hold for all values of the constants that meet the named
assumption of the module, which TLC evaluates in each run. Every proof has the
same shape: an inductive invariant `IInv`, one lemma per conjunct or per action for
its step, a theorem `Invariance`, and the properties as consequences.

The library's induction theorems cannot be instantiated, and what takes induction is
proved otherwise: a set of numbers that is not empty has a least element (`MinIsLeast`, from
`NatLessThanWellFounded`), so that a set of numbers that has 0 and with each number the next has
them all (`Stepwise` in UpdateModeProofs), and a function defined by recursion on 0..n exists and
has its equations (`Recursion`).

**AlbumRipProofs** proves `TypeOK`, `GainCoversAlbum`, `SuccessPublishesAll`,
`OneFaultKeepsACopy`, `NothingBeforeLastTrack`, `FailureStopsPublishing`,
`ReplacesSafely` and `Replace!NeverBrokenOff`, that is, every property of the run except
`RunEnds`, for any number of tracks, paths and runs. None of the
properties is inductive: that a file with a full gain arrives depends on what the
loops have achieved before. `IInv` therefore says, for each place of the process,
which tracks have been scanned (`ScanInv`), what the staging directory holds
(`StageInv`), that the sibling equals the source once the copy is complete (`CopyInv`),
which tracks are at the destination (`PublishInv`: all before the current one, except
under a path being replaced; of those that collide the last), and where the finished
copy of every owned path is, by number of faults (`OwnedInv`). The refinement follows
by a step lemma (`ReplaceStep`) from `IInv`: `CopyInv` is what allows the
withdrawal, because it says that the sibling is complete by then. `RunRunsOut` (see below): each
track takes six steps in either loop, so that a run has at most `12 * N + 19`.

**DriveSessionProofs** proves `TypeOK`, `HeldOnlyForADisc`, `ExitCodeIsTruthful`,
`EjectsOnlyWhenReleased`, `RipsAgainOnlyByFault` and `StaysWithItsDrive` (the drive that
was named, or chosen once, is used to the end; no run checks it), for
any number of drives and insertions. `IInv` adds what has happened by the
time the program is at a place (`PlaceInv`), what it holds in the places between
(`HeldInv`), and that discs are numbered as they come, so that the awaited drive does
not hold the disc that was ripped unless an eject or a query failed (`DiscInv`). `DiscRunsOut`: from the
opening of the drive `main()` takes ten steps at most, whatever is plugged, inserted and
removed meanwhile, and without `-r` they lead to an exit. At most two of the ten are answers of a person,
and with `-a` none is.

**MetadataFetchProofs** proves `TypeOK`, `ListedInServerOrder`, `ErrorIsTheFirst`,
`NoReleaseFoundTwice`, `SearchOnlyWhenDue` and `ShownIsHonest` for any number of servers, releases
and titles. `JoinInv` says that the caller has the answers of the servers joined, whose threads are
done; `MergeInv` that what has been merged is in order and that the entries of each
server, and of the search, are one piece of it; `ErrorInv` that the error is the
first of those merged; `CountInv` that `completed` is the number of threads counted plus the
titles searched, from which `ShownInv` bounds what was reported, however late;
`FoundInv` that the search has no key twice. That appending a piece keeps pieces and
order are lemmas on sequences (`IsPieceOf`). `FetchRunsOut` counts what the workers and the titles
have left; `FetchIsNeverStuck` needs that every thread has been launched when the joins
begin (`LaunchInv`).

**CoverArtProofs** proves `TypeOK`, `PreferenceIsKept`, `EarlierEntryWins`,
`FailsOnlyWithNothing`, `OnePicturePerAlbum` (as in the run only with `-a` and `-dc` other than `always`) and
`PictureIsNeverLost` for any number of entries and files. `DeniedInv` relates the position in the loops (`phase`, `next`) to what has
been denied: all of the earlier phases, and of this one the entries before the next; `AttemptInv`
says that a picture put aside is of the first entry not denied, `OwnInv` that an
entry's picture is its own, `AlbumInv` that what the files have is what the cache has. `CallRunsOut`:
a step that does not end the file brings the call to a later place, phase or entry.

**UpdateModeProofs** proves `TypeOK`, `OwnDiscOnly`, `AskedOnce`, `ChosenTagsAreWritten` and
`GenresAreMerged` for any files, discs, records and lines typed. `CacheInv` says that what is cached under the key of a
disc is of that disc, also after an entry was made ready in it; `AskedInv` that whatever was asked for is
cached; `MenuInv` how the order, the menu, the numbers and the entries selected hang
together, which with the lemma `FirstNonEmptyIsFirst` on merging gives the tags written. The genres
are gathered by two loops, `Rows` around `Row`. Their common invariant is `MergedUpto(entries, kept, p, n)`:
what is kept are the genres at the places seen so far (all entries' up to place `p - 1`, and the first `n`
entries' at `p`), each once and in the order in which they were met. Taking one more genre keeps it
(`TakenKeepsMerged`), so a row does (`RowKeepsMerged`), so the whole does (`MergedGenresAreMerged`), by
`Stepwise` over each. `UpdateRunsOut`: a step goes to the next target, to the
target's next file, or on with the file. `MenuIsNeverMissing` shows that the orders which the actions choose from
exist for every list and line: a finite set with a total order can be listed in it (`LinearOrder`),
each element at the place given by the number of those before it.

**SpinnerProofs** proves `TypeOK`, `ScreenIsGivenBack` and `RowsAreWhole`, the
refinement of StatusLine, for a terminal of any width. `LockInv` and `ThreadInv` say who
can hold the mutex where; `WidthInv` that nothing stands behind the width drawn last; `RowInv`
that the row is empty unless `rendered_` is set; `FrameInv` that it otherwise shows
one frame. A thread that draws does so under the mutex, so that none of it can change
between clearing the row and writing to it. `StopRunsOut` and `StopIsNeverStuck` rest on
`StopInv`: by the time the thread is joined it has been told to leave, so that it does not go
round its loop again.

**HttpRetryProofs** proves `TypeOK`, `RequestsBounded`, `OutcomeIsExplained`,
`GivesUpOnlyWhenExhausted` and `ServerIsGivenTime` for every policy, every set of statuses
and every Retry-After value. The heart is `CountInv`: before a request
`requests = attempt + redirects` and `failures = attempt`, which is how the bound and the
exhaustion follow from a counter that is taken back; `WaitInv` relates the clock to the
pause that the last response asked for. `CallRunsOut`: attempts and redirections are counted
apart, and each step uses up some of one or the other.

**RequeryProofs** proves `SeedsAreOfTheDisc`, `ReleaseAndMediumAgree`,
`FilesStayUpdatable` and `OwnMediumIsKept` for every disc, tolerance and set of releases. `IInv` says
what the table of contents in hand, the entry and the file share (`TocInv`, `EntryInv`,
`FileInv`) and, for a disc without gaps, where the tracks end (`EndInv`), by lemmas on the
conversions: the lead-out comes back from its tag, and whole
seconds are never less than the last start. The last step to `OwnMediumIsKept` is arithmetic:
the rebuilt last track is at most 74 sectors short, which is at most 988 ms with rounding, less
than the second that is always allowed. `RequeryAssumption` is about the disc: audio
tracks in order, with natural last sectors, the last with at least a second until the lead-out (the CD
standard requires four), and identifiers on what MusicBrainz returns. It speaks of the
filtered sequence of starts directly, since facts about `SelectSeq` on all sequences need
induction. `UpdateIsIdempotent` says more than that what identifies the disc stays: a file that is read back
and updated to the entry it was written with gets exactly the tags it has. It rests on what
was written being what the entry gives to the disc at hand (`WrittenInv`).

**Ends.** Liveness under fairness is out of the prover's reach, but its other half is not: that the
steps run out. Each `...RunsOut` theorem names a natural number that every step lowers, or several
bounded numbers of which the first that changes always moves the same way, and so excludes endless loops,
retries and livelocks for all values of the constants. Steps that are not the program's own way forward are
named in the theorem: a new run in AlbumRip, the world and the answers of a person in DriveSession, what the caller prints in
Spinner. Requery has none, since files may be updated for ever. The two theorems `...IsNeverStuck` exclude, for the
components with threads, that all wait: they state the guards of the actions explicitly instead of
`ENABLED`. What is left to TLC is the fairness: that a step which can be taken is.

## 7 What is not modelled, or not proved

Only model-checked: liveness under fairness (`RunEnds`, `DiscIsNoticed`, `OneDiscRunEnds`, `FetchReturns`,
`CallReturns`, `StopReturns`), which with `ENABLED` is out of the prover's reach; of all but `DiscIsNoticed`
it is proved that the steps run out (section 6). Every other property of the passing runs is a
theorem.

Not modelled, because it is text, layout or computation in a library without state of
its own: file-name formatting, configuration and command line parsing, the title filter's regular
expression, loudness arithmetic, picture decoding and scaling, terminal pictures, the CDDB
client's call sequence, JSON. Each appears in the models as its set of
outcomes where something depends on it. The spinners are modelled on a terminal (elsewhere there is no
thread) and with lines that fit the row. Bounds that exist only for TLC are `MaxRuns`,
`MaxDiscs`, `MaxTitles`, `MaxVariants`, `MaxFinds` and `MaxSpinners`, the sets `Seeds`, `Plans`, `Filters` and
`Lines` of update mode, and `Cap` in `HttpRetry`, one above the bound it helps to check.

Below the level of the models, but seen while reading: if the picture block cannot be built, the Vorbis
comment that the chain already owns is deleted and freed again with the chain
(`flac_metadata.cpp:232`); a directory that cannot be read while its files are collected throws through
`main()` (`flac_metadata.cpp:284`, the action `CollectThrows`); a killed process leaves its staging
directory behind (`main.cpp:63`, the end of a run by `Crash`).

What some properties do not say: `FailureStopsPublishing` takes the early returns of the track loop as one
step, `Fail`, so it does not examine each of them. `OwnDiscOnly` is about sharing lists: that a query by a disc answers with
entries of that disc is an assumption about MusicBrainz here, and what `select_matching_media` lets pass is in
Requery. `AskedOnce` says nothing for or against caching an empty list. The files that `Requery` starts from
have a disc ID only together with a lead-out tag.

Hazards without a property each have the reason in `PROJECT.json`.

## 8 Plan

Done, in this order, most important behaviour first: SafeReplace and AlbumRip, DriveSession, MetadataFetch,
CoverArt, HttpRetry, Requery, Spinner and StatusLine, UpdateMode, all with their proofs.

Left:

1. **Composition of DriveSession and AlbumRip**: `RipDisc` refined by the runs of `AlbumRip`, so that
   the exit code speaks about files at the destination.
2. **Composition of UpdateMode and CoverArt**: one cache with both lists and pictures. Apart
   they each abstract the other's part of `selection.entries`.
3. **A type invariant for Requery**, which so far has the structural parts of `IInv` instead.
4. **Configuration**: which of the files and options wins, against a reference definition.
