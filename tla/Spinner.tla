------------------------------ MODULE Spinner ------------------------------
(***************************************************************************)
(* The spinners of the command line (SpinnerRenderer, ActivitySpinner and  *)
(* RipProgressSpinner, src/src/main.cpp) on a terminal.                    *)
(*                                                                         *)
(* While the caller waits for servers, for a picture or for a track, a     *)
(* thread of its own redraws the last row of the terminal.  The caller     *)
(* prints messages in between, stops the thread, and clears the row or     *)
(* leaves the line of the finished track in it.  Both take output_mutex_   *)
(* around what they write; a picture is printed without it.                *)
(*                                                                         *)
(* A line is its kind and its width; the row holds, in every column, the   *)
(* line the character there was written for.  Lines fit the row.           *)
(***************************************************************************)
EXTENDS Naturals

CONSTANTS
  Columns,      \* the width of the terminal
  MaxSpinners   \* bound: spinners started one after the other

ASSUME SpinnerAssumption == Columns \in Nat \ {0} /\ MaxSpinners \in Nat

Width == 1..Columns
Frame(w) == [what |-> "frame", width |-> w]       \* build_spinner_line
Message(w) == [what |-> "message", width |-> w]   \* a line of std::cerr or std::cout
Done(w) == [what |-> "done", width |-> w]         \* build_completed_line
PictureLine(w) == [what |-> "picture", width |-> w]
Blank == [what |-> "blank", width |-> 0]
Line == [what : {"frame", "message", "done", "picture"}, width : Width]

BlankRow == [c \in Width |-> Blank]

(* The row after line l, padded with blanks to the width pad, was written from its start. *)
Drawn(r, l, pad) ==
  [c \in Width |-> IF c <= l.width THEN l ELSE IF c <= pad THEN Blank ELSE r[c]]

(* The row after line l was written behind column from. *)
Appended(r, from, l) ==
  [c \in Width |-> IF from < c /\ c <= from + l.width THEN l ELSE r[c]]

Showing(l) == Drawn(BlankRow, l, 0)

VARIABLES
  main,       \* where the caller is
  kind,       \* what it waits for: "fetch", "cover" (pictures) or "rip"
  spinners,   \* spinners started so far
  scope,      \* the spinner's object: "open", or "closing" from its destructor on
  running,    \* running_
  worker,     \* where the thread is
  warm,       \* kInitialDelay is over
  snapshot,   \* the width of the line the snapshot builds, 0 without one
  line,       \* the line the thread has built
  lock,       \* output_mutex_: who holds it
  rendered,   \* rendered_
  lastWidth,  \* last_render_width_
  lastLine,   \* last_visible_line_
  keep,       \* stop_mode is KeepWithNewline
  final,      \* final_line
  row,        \* the last row of the terminal
  cursor,     \* the column the cursor stands behind
  above       \* the row above

render == <<rendered, lastWidth, lastLine>>
screen == <<row, cursor, above>>
thread == <<running, worker, warm, line>>
stopping == <<keep, final>>
object == <<kind, spinners, scope>>
vars == <<main, object, thread, snapshot, lock, render, stopping, screen>>

Init ==
  /\ main = "idle" /\ kind = "fetch" /\ spinners = 0 /\ scope = "closing"
  /\ running = FALSE /\ worker = "none" /\ warm = FALSE /\ line = 0
  /\ snapshot = 0 /\ lock = "free"
  /\ rendered = FALSE /\ lastWidth = 0 /\ lastLine = 0
  /\ keep = FALSE /\ final = 0
  /\ row = BlankRow /\ cursor = 0 /\ above = BlankRow

-----------------------------------------------------------------------------
(* Writing to the terminal. *)

(* "\r", blanks for the width that was drawn last, "\r". *)
ClearRow ==
  /\ row' = Drawn(row, Blank, lastWidth)
  /\ cursor' = 0
  /\ UNCHANGED above

(* A line and the newline after it. *)
PrintLine(l) ==
  /\ above' = Appended(row, cursor, l)
  /\ row' = BlankRow
  /\ cursor' = 0

Forget == rendered' = FALSE /\ lastWidth' = 0 /\ lastLine' = 0

-----------------------------------------------------------------------------
(* The thread: render_loop. *)

Check ==
  /\ worker = "check" /\ running
  /\ \E w \in {warm, TRUE} :
       /\ warm' = w
       /\ worker' = IF w THEN "build" ELSE "check"
  /\ UNCHANGED <<main, object, running, line, snapshot, lock, render, stopping, screen>>

Leave ==
  /\ worker = "check" /\ ~running
  /\ worker' = "gone"
  /\ UNCHANGED <<main, object, running, warm, line, snapshot, lock, render, stopping, screen>>

(* The snapshot is copied under mutex_, which nobody else waits under. *)
Build ==
  /\ worker = "build"
  /\ line' = snapshot
  /\ worker' = "lock"
  /\ UNCHANGED <<main, object, running, warm, snapshot, lock, render, stopping, screen>>

(* Nothing to show yet: nothing was shown before either. *)
SkipEmpty ==
  /\ worker = "lock" /\ lock = "free" /\ line = 0
  /\ worker' = "check"
  /\ IF rendered THEN ClearRow /\ Forget ELSE UNCHANGED <<render, screen>>
  /\ UNCHANGED <<main, object, running, warm, line, snapshot, lock, stopping>>

PaddedWidth == IF line < lastWidth THEN lastWidth ELSE line

BeginDraw ==
  /\ worker = "lock" /\ lock = "free" /\ line # 0
  /\ lock' = "worker" /\ worker' = "draw"
  /\ lastLine' = line /\ lastWidth' = PaddedWidth
  /\ UNCHANGED <<main, object, running, warm, line, snapshot, rendered, stopping, screen>>

Draw ==
  /\ worker = "draw"
  /\ row' = Drawn(row, Frame(line), lastWidth) /\ cursor' = lastWidth
  /\ rendered' = TRUE
  /\ lock' = "free" /\ worker' = "check"
  /\ UNCHANGED <<main, object, running, warm, line, snapshot, lastWidth, lastLine, stopping, above>>

Worker == Check \/ Leave \/ Build \/ SkipEmpty \/ BeginDraw \/ Draw

-----------------------------------------------------------------------------
(* The caller, and the threads that report to it. *)

Start ==
  /\ main = "idle" /\ spinners < MaxSpinners
  /\ main' = "calling" /\ scope' = "open" /\ spinners' = spinners + 1
  /\ \E k \in {"fetch", "cover", "rip"} :
       /\ kind' = k
       /\ snapshot' \in IF k = "rip" THEN {0} ELSE Width
  /\ running' = TRUE /\ worker' = "check" /\ warm' = FALSE /\ line' = 0
  /\ UNCHANGED <<lock, render, stopping, screen>>

(* An activity report of any server's thread, or the progress of the track. *)
Update ==
  /\ main = "calling"
  /\ snapshot' \in Width
  /\ UNCHANGED <<main, object, thread, lock, render, stopping, screen>>

(* Mutant: output_mutex_ is not taken. *)
BeginMessageUnlocked ==
  /\ main = "calling" /\ kind = "fetch"
  /\ main' = "printing" /\ UNCHANGED lock
  /\ IF rendered THEN ClearRow ELSE UNCHANGED screen
  /\ UNCHANGED <<object, thread, snapshot, render, stopping>>

(* print_external_line: the row is cleared, then the message is printed. *)
BeginMessage ==
  /\ main = "calling" /\ kind = "fetch" /\ lock = "free"
  /\ main' = "printing" /\ lock' = "main"
  /\ IF rendered THEN ClearRow ELSE UNCHANGED screen
  /\ UNCHANGED <<object, thread, snapshot, render, stopping>>

EndMessage ==
  /\ main = "printing"
  /\ \E w \in Width : PrintLine(Message(w))
  /\ Forget
  /\ main' = "calling" /\ lock' = "free"
  /\ UNCHANGED <<object, thread, snapshot, stopping>>

(* maybe_print_cover_art_ascii, called before the spinner is stopped, and without the mutex. *)
BeginPicture ==
  /\ main = "calling" /\ kind = "cover"
  /\ main' = "picture"
  /\ UNCHANGED <<object, thread, snapshot, lock, render, stopping, screen>>

PictureRow ==
  /\ main = "picture"
  /\ \E w \in 0..Columns : PrintLine(PictureLine(w))
  /\ UNCHANGED <<main, object, thread, snapshot, lock, render, stopping>>

(* Mutant: stop takes output_mutex_ before it joins the thread. *)
StopLocked ==
  /\ main \in {"calling", "picture"} /\ lock = "free"
  /\ keep' \in IF kind = "rip" THEN BOOLEAN ELSE {FALSE}
  /\ final' = IF keep' THEN snapshot ELSE 0
  /\ running' = FALSE
  /\ main' = "joining" /\ lock' = "main"
  /\ UNCHANGED <<object, worker, warm, line, snapshot, render, screen>>

(* finish and stop: the completed line is built, running_ is cleared. *)
Stop ==
  /\ main \in {"calling", "picture"}
  /\ keep' \in IF kind = "rip" THEN BOOLEAN ELSE {FALSE}
  /\ final' = IF keep' THEN snapshot ELSE 0
  /\ running' = FALSE
  /\ main' = "joining"
  /\ UNCHANGED <<object, worker, warm, line, snapshot, lock, render, screen>>

(* Mutant: the thread is not joined. *)
JoinNobody ==
  /\ main = "joining"
  /\ main' = "finalizing"
  /\ UNCHANGED <<object, thread, snapshot, lock, render, stopping, screen>>

Join ==
  /\ main = "joining" /\ worker = "gone"
  /\ worker' = "none" /\ main' = "finalizing"
  /\ UNCHANGED <<object, running, warm, line, snapshot, lock, render, stopping, screen>>

Visible == IF final = 0 THEN lastLine ELSE final
Finished == IF scope = "closing" THEN "idle" ELSE "stopped"

(* finalize_render. *)
SkipFinalize ==
  /\ main = "finalizing" /\ lock = "free"
  /\ ~rendered /\ Visible = 0
  /\ main' = Finished
  /\ UNCHANGED <<object, thread, snapshot, lock, render, stopping, screen>>

BeginFinalize ==
  /\ main = "finalizing" /\ lock = "free"
  /\ rendered \/ Visible # 0
  /\ main' = "keeping" /\ lock' = "main"
  /\ IF rendered THEN ClearRow ELSE UNCHANGED screen
  /\ UNCHANGED <<object, thread, snapshot, render, stopping>>

EndFinalize ==
  /\ main = "keeping"
  /\ IF keep /\ Visible # 0
     THEN PrintLine(IF final = 0 THEN Frame(lastLine) ELSE Done(final))
     ELSE UNCHANGED screen
  /\ Forget
  /\ main' = Finished /\ lock' = "free"
  /\ UNCHANGED <<object, thread, snapshot, stopping>>

(* The destructor stops the spinner again, in the mode that clears. *)
Destroy ==
  /\ main = "stopped"
  /\ scope' = "closing" /\ main' = "finalizing"
  /\ keep' = FALSE /\ final' = 0
  /\ UNCHANGED <<kind, spinners, thread, snapshot, lock, render, screen>>

(* What the caller prints when its spinner has stopped. *)
Say ==
  /\ main \in {"idle", "stopped"}
  /\ \E w \in Width : PrintLine(Message(w))
  /\ UNCHANGED <<main, object, thread, snapshot, lock, render, stopping>>

Stopping == EndMessage \/ Join \/ SkipFinalize \/ BeginFinalize \/ EndFinalize \/ Destroy
Main ==
  \/ Stopping
  \/ Start \/ Update \/ BeginMessage \/ BeginPicture \/ PictureRow \/ Stop \/ Say

Next == Worker \/ Main
Spec == Init /\ [][Next]_vars
FairSpec == Spec /\ WF_vars(Worker) /\ WF_vars(Stopping)

-----------------------------------------------------------------------------
(* The types of the variables. *)
TypeOK ==
  /\ main \in {"idle", "calling", "printing", "picture", "joining", "finalizing", "keeping", "stopped"}
  /\ kind \in {"fetch", "cover", "rip"} /\ spinners \in 0..MaxSpinners
  /\ scope \in {"open", "closing"}
  /\ running \in BOOLEAN /\ warm \in BOOLEAN
  /\ worker \in {"none", "check", "build", "lock", "draw", "gone"}
  /\ snapshot \in 0..Columns /\ line \in 0..Columns
  /\ lock \in {"free", "main", "worker"}
  /\ rendered \in BOOLEAN /\ lastWidth \in 0..Columns /\ lastLine \in 0..Columns
  /\ keep \in BOOLEAN /\ final \in 0..Columns
  /\ row \in [Width -> Line \cup {Blank}] /\ above \in [Width -> Line \cup {Blank}]
  /\ cursor \in 0..Columns

(* When the spinner's stop has returned the terminal belongs to the caller again: no       *)
(* thread is left that could draw, and the next text starts in the first column of an      *)
(* empty row.  SpinnerRenderer::stop joins before it finalizes.                            *)
ScreenIsGivenBack ==
  main \in {"idle", "stopped"} =>
    /\ worker = "none" /\ lock = "free"
    /\ row = BlankRow /\ cursor = 0

(* The row of the terminal as StatusLine sees it. *)
Torn == [what |-> "torn", width |-> 0]
Seen(r) ==
  IF r = BlankRow THEN Blank
  ELSE IF \E l \in Line : r = Showing(l)
  THEN r[1]
  ELSE Torn

Promise == INSTANCE StatusLine WITH
  Frames <- {Frame(w) : w \in Width},
  Texts <- {Message(w) : w \in Width} \cup {Done(w) : w \in Width}
           \cup {PictureLine(w) : w \in Width},
  Nothing <- Blank,
  row <- Seen(row), above <- Seen(above), picture <- main = "picture"

(* Whatever the thread and the caller do, a row never shows parts of two lines, and a      *)
(* message never continues a frame: frames are padded over their longer predecessors, and  *)
(* every text but a picture goes to a cleared row.                                         *)
RowsAreWhole == Promise!Spec

(* A spinner that is told to stop does: the thread sees running_ and ends, and the row is  *)
(* cleared.                                                                                *)
StopReturns == main = "joining" ~> main = "idle"
=============================================================================
