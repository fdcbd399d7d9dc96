--------------------------- MODULE SpinnerProofs ---------------------------
(***************************************************************************)
(* The safety of Spinner for terminals of any width and any number of      *)
(* spinners, and that it implements StatusLine.                            *)
(*                                                                         *)
(* The inductive invariant IInv says who holds output_mutex_, when there   *)
(* is a thread, and what the row holds: nothing behind last_render_width_, *)
(* nothing at all unless rendered_ is set, and otherwise one frame.        *)
(***************************************************************************)
EXTENDS Spinner, TLAPS

Rows == [Width -> Line \cup {Blank}]

(* The holder of output_mutex_ is where it can be seen. *)
LockInv ==
  /\ lock = "main" <=> main \in {"printing", "keeping"}
  /\ lock = "worker" <=> worker = "draw"

(* There is a thread from start to the end of the join. *)
ThreadInv == worker = "none" <=> main \in {"idle", "finalizing", "keeping", "stopped"}

(* What the thread draws is inside the width that will be cleared. *)
WidthInv ==
  /\ worker = "draw" => line # 0 /\ line <= lastWidth
  /\ \A c \in Width : c > lastWidth => row[c] = Blank

(* When the row is empty. *)
RowInv ==
  /\ main \in {"printing", "keeping"} \/ ~rendered => row = BlankRow /\ cursor = 0
  /\ main \in {"idle", "stopped"} => ~rendered

(* Without a snapshot there is nothing to keep. *)
KeepInv ==
  /\ snapshot = 0 => line = 0 /\ lastLine = 0
  /\ main \in {"idle", "stopped"} => lastLine = 0
  /\ main \in {"joining", "finalizing", "keeping"} /\ keep => final = snapshot

(* The row shows one frame, or nothing. *)
FrameInv == row = BlankRow \/ \E w \in Width : row = Showing(Frame(w))

IInv == TypeOK /\ LockInv /\ ThreadInv /\ WidthInv /\ RowInv /\ KeepInv /\ FrameInv

-----------------------------------------------------------------------------
(* What writing does to a row. *)

(* Clearing the width that was drawn last empties the row. *)
LEMMA ClearedIsBlank ==
  ASSUME TypeOK, WidthInv
  PROVE  Drawn(row, Blank, lastWidth) = BlankRow
  <1>1. ASSUME NEW c \in Width
        PROVE  (IF c <= Blank.width THEN Blank ELSE IF c <= lastWidth THEN Blank ELSE row[c]) = Blank
    BY SpinnerAssumption DEF TypeOK, WidthInv, Width
  <1> QED
    BY <1>1 DEF Drawn, BlankRow

(* A frame padded over the last one leaves nothing of it. *)
LEMMA DrawnIsShowing ==
  ASSUME TypeOK, WidthInv, worker = "draw"
  PROVE  Drawn(row, Frame(line), lastWidth) = Showing(Frame(line))
  <1> DEFINE old(c) == IF c <= Frame(line).width THEN Frame(line)
                       ELSE IF c <= lastWidth THEN Blank ELSE row[c]
             new(c) == IF c <= Frame(line).width THEN Frame(line)
                       ELSE IF c <= 0 THEN Blank ELSE BlankRow[c]
  <1>1. ASSUME NEW c \in Width PROVE old(c) = new(c)
    BY SpinnerAssumption DEF TypeOK, WidthInv, Width, Frame, BlankRow
  <1>2. Drawn(row, Frame(line), lastWidth) = [c \in Width |-> old(c)]
    BY DEF Drawn
  <1>3. Showing(Frame(line)) = [c \in Width |-> new(c)]
    BY DEF Showing, Drawn
  <1> HIDE DEF old, new
  <1> QED
    BY <1>1, <1>2, <1>3

(* A line written to an empty row stands there alone. *)
LEMMA AppendedIsShowing ==
  ASSUME NEW l \in Line
  PROVE  Appended(BlankRow, 0, l) = Showing(l)
  <1> DEFINE old(c) == IF 0 < c /\ c <= 0 + l.width THEN l ELSE BlankRow[c]
             new(c) == IF c <= l.width THEN l ELSE IF c <= 0 THEN Blank ELSE BlankRow[c]
  <1>1. ASSUME NEW c \in Width PROVE old(c) = new(c)
    BY SpinnerAssumption DEF Width, Line
  <1>2. Appended(BlankRow, 0, l) = [c \in Width |-> old(c)]
    BY DEF Appended
  <1>3. Showing(l) = [c \in Width |-> new(c)]
    BY DEF Showing, Drawn
  <1> HIDE DEF old, new
  <1> QED
    BY <1>1, <1>2, <1>3

(* A row keeps its type whatever is written. *)
LEMMA AppendedType ==
  ASSUME NEW r \in Rows, NEW l, NEW from \in 0..Columns,
         l \in Line \/ l.width = 0
  PROVE  Appended(r, from, l) \in Rows
  <1>1. ASSUME NEW c \in Width
        PROVE  (IF from < c /\ c <= from + l.width THEN l ELSE r[c]) \in Line \cup {Blank}
    <2>1. CASE l \in Line
      BY <2>1 DEF Rows
    <2>2. CASE l.width = 0
      <3>1. ~(from < c /\ c <= from + l.width)
        BY <2>2, SpinnerAssumption DEF Width
      <3> QED
        BY <3>1 DEF Rows
    <2> QED
      BY <2>1, <2>2
  <1> QED
    BY <1>1 DEF Appended, Rows

(* The lines. *)
LEMMA LineTypes ==
  ASSUME NEW w \in Width
  PROVE  /\ Frame(w) \in Line /\ Message(w) \in Line /\ Done(w) \in Line /\ PictureLine(w) \in Line
         /\ w # 0 /\ w \in 0..Columns
  BY SpinnerAssumption DEF Frame, Message, Done, PictureLine, Line, Width

(* An empty row, and a row that shows a line, keep their type. *)
LEMMA ShowingType ==
  /\ BlankRow \in Rows
  /\ \A l \in Line : Showing(l) \in Rows
  BY DEF BlankRow, Rows, Showing, Drawn

(* How a row is seen. *)
LEMMA SeenBlank == Seen(BlankRow) = Blank
  BY DEF Seen

LEMMA SeenShowing ==
  ASSUME NEW l \in Line
  PROVE  Seen(Showing(l)) = l
  <1>1. 1 \in Width /\ 1 <= l.width /\ l # Blank
    BY SpinnerAssumption DEF Width, Line, Blank
  <1>2. Showing(l)[1] = l
    BY <1>1 DEF Showing, Drawn
  <1>3. BlankRow[1] = Blank
    BY <1>1 DEF BlankRow
  <1>4. Showing(l) # BlankRow
    BY <1>1, <1>2, <1>3
  <1> QED
    BY <1>2, <1>4, Zenon DEF Seen

LEMMA SeenType ==
  ASSUME NEW r
  PROVE  Seen(r) \in Line \cup {Blank, Torn}
  <1>1. CASE r = BlankRow
    BY <1>1, SeenBlank
  <1>2. CASE r # BlankRow /\ \E l \in Line : r = Showing(l)
    BY <1>2, SeenShowing
  <1>3. CASE r # BlankRow /\ ~\E l \in Line : r = Showing(l)
    BY <1>3 DEF Seen
  <1> QED
    BY <1>1, <1>2, <1>3, Zenon

-----------------------------------------------------------------------------
(* The inductive invariant.                                                 *)

LEMMA InitIInv == Init => IInv
  <1> SUFFICES ASSUME Init PROVE IInv
    OBVIOUS
  <1>1. TypeOK
    <2>1. 0 \in 0..Columns /\ 0 \in 0..MaxSpinners
      BY SpinnerAssumption
    <2>2. row \in Rows /\ above \in Rows
      BY ShowingType DEF Init
    <2> QED
      BY <2>1, <2>2, Zenon DEF Init, TypeOK, Rows
  <1>2. LockInv /\ ThreadInv /\ RowInv /\ KeepInv /\ FrameInv
    BY DEF Init, LockInv, ThreadInv, RowInv, KeepInv, FrameInv
  <1>3. WidthInv
    BY DEF Init, WidthInv, BlankRow
  <1> QED
    BY <1>1, <1>2, <1>3 DEF IInv

(* A step that leaves the terminal and what is remembered of it alone. *)
LEMMA QuietStep ==
  ASSUME IInv, UNCHANGED <<render, screen>>, TypeOK', LockInv', ThreadInv', KeepInv',
         worker' = "draw" => worker = "draw" /\ line' = line,
         main' \in {"printing", "keeping"} => main \in {"printing", "keeping"} \/ ~rendered,
         main' \in {"idle", "stopped"} => ~rendered
  PROVE  IInv'
  <1>1. WidthInv'
    BY DEF IInv, WidthInv, render, screen
  <1>2. RowInv'
    BY DEF IInv, RowInv, render, screen
  <1>3. FrameInv'
    BY DEF IInv, FrameInv, render, screen
  <1> QED
    BY <1>1, <1>2, <1>3 DEF IInv

(* A step that leaves the row empty. *)
LEMMA EmptyingStep ==
  ASSUME IInv, row' = BlankRow, cursor' = 0, TypeOK', LockInv', ThreadInv', KeepInv',
         worker' = "draw" => line' # 0 /\ line' <= lastWidth',
         main' \in {"idle", "stopped"} => ~rendered'
  PROVE  IInv'
  <1>1. WidthInv'
    BY DEF IInv, WidthInv, BlankRow
  <1>2. RowInv'
    BY DEF IInv, RowInv
  <1>3. FrameInv'
    BY DEF IInv, FrameInv
  <1> QED
    BY <1>1, <1>2, <1>3 DEF IInv

-----------------------------------------------------------------------------
(* Clearing the row, and writing a line under a cleared row. *)

LEMMA ClearRowEmpties ==
  ASSUME IInv, ClearRow
  PROVE  row' = BlankRow /\ row' \in Rows /\ cursor' = 0 /\ cursor' \in 0..Columns /\ above' = above
  BY ClearedIsBlank, ShowingType, SpinnerAssumption DEF IInv, ClearRow

LEMMA PrintLineEmpties ==
  ASSUME IInv, NEW l, l \in Line \/ l.width = 0, PrintLine(l)
  PROVE  /\ row' = BlankRow /\ row' \in Rows /\ cursor' = 0 /\ cursor' \in 0..Columns
         /\ above' \in Rows
  <1>1. row \in Rows /\ cursor \in 0..Columns
    BY DEF IInv, TypeOK, Rows
  <1>2. Appended(row, cursor, l) \in Rows
    BY <1>1, AppendedType
  <1> QED
    BY <1>2, ShowingType, SpinnerAssumption DEF PrintLine

LEMMA ForgetType ==
  ASSUME Forget
  PROVE  rendered' = FALSE /\ lastWidth' \in 0..Columns /\ lastLine' \in 0..Columns
  BY SpinnerAssumption DEF Forget

-----------------------------------------------------------------------------
(* The steps of the thread. *)

LEMMA WorkerIInv ==
  ASSUME IInv, Worker
  PROVE  IInv'
  <1>1. CASE Check
    <2>1. TypeOK'
      BY <1>1, Zenon DEF Check, IInv, TypeOK, object, render, screen, stopping
    <2>2. LockInv' /\ ThreadInv' /\ KeepInv'
      BY <1>1 DEF Check, IInv, LockInv, ThreadInv, KeepInv, object, render, screen, stopping
    <2> QED
      BY <1>1, <2>1, <2>2, QuietStep DEF Check, IInv, RowInv
  <1>2. CASE Leave
    <2>1. TypeOK'
      BY <1>2, Zenon DEF Leave, IInv, TypeOK, object, render, screen, stopping
    <2>2. LockInv' /\ ThreadInv' /\ KeepInv'
      BY <1>2 DEF Leave, IInv, LockInv, ThreadInv, KeepInv, object, render, screen, stopping
    <2> QED
      BY <1>2, <2>1, <2>2, QuietStep DEF Leave, IInv, RowInv
  <1>3. CASE Build
    <2>1. TypeOK'
      BY <1>3, Zenon DEF Build, IInv, TypeOK, object, render, screen, stopping
    <2>2. LockInv' /\ ThreadInv' /\ KeepInv'
      BY <1>3 DEF Build, IInv, LockInv, ThreadInv, KeepInv, object, render, screen, stopping
    <2> QED
      BY <1>3, <2>1, <2>2, QuietStep DEF Build, IInv, RowInv
  <1>4. CASE SkipEmpty /\ ~rendered
    <2>1. TypeOK'
      BY <1>4, Zenon DEF SkipEmpty, IInv, TypeOK, object, render, screen, stopping
    <2>2. LockInv' /\ ThreadInv' /\ KeepInv'
      BY <1>4 DEF SkipEmpty, IInv, LockInv, ThreadInv, KeepInv, object, render, screen, stopping
    <2> QED
      BY <1>4, <2>1, <2>2, QuietStep DEF SkipEmpty, IInv, RowInv
  <1>5. CASE SkipEmpty /\ rendered
    <2>1. /\ row' = BlankRow /\ row' \in Rows /\ cursor' = 0 /\ cursor' \in 0..Columns /\ above' = above
          /\ rendered' = FALSE /\ lastWidth' \in 0..Columns /\ lastLine' \in 0..Columns
      BY <1>5, ClearRowEmpties, ForgetType DEF SkipEmpty
    <2>2. TypeOK'
      BY <1>5, <2>1, Zenon DEF SkipEmpty, IInv, TypeOK, object, stopping, Rows
    <2>3. LockInv' /\ ThreadInv' /\ KeepInv'
      BY <1>5 DEF SkipEmpty, Forget, IInv, LockInv, ThreadInv, KeepInv, object, stopping
    <2> QED
      BY <1>5, <2>1, <2>2, <2>3, EmptyingStep DEF SkipEmpty
  <1>6. CASE BeginDraw
    <2>1. PaddedWidth \in 0..Columns /\ PaddedWidth >= lastWidth /\ PaddedWidth >= line
      BY DEF IInv, TypeOK, PaddedWidth
    <2>2. TypeOK'
      BY <1>6, <2>1, Zenon DEF BeginDraw, IInv, TypeOK, object, screen, stopping
    <2>3. LockInv' /\ ThreadInv' /\ KeepInv'
      BY <1>6 DEF BeginDraw, IInv, TypeOK, LockInv, ThreadInv, KeepInv, object, screen, stopping
    <2>4. WidthInv'
      <3>1. ASSUME NEW c \in Width, c > lastWidth' PROVE row'[c] = Blank
        <4>1. c > lastWidth
          BY <1>6, <2>1, <3>1, SpinnerAssumption DEF BeginDraw, IInv, TypeOK, Width
        <4> QED
          BY <1>6, <4>1 DEF BeginDraw, IInv, WidthInv, screen
      <3>2. line' # 0 /\ line' <= lastWidth'
        BY <1>6, <2>1 DEF BeginDraw
      <3> QED
        BY <3>1, <3>2 DEF WidthInv
    <2>5. RowInv' /\ FrameInv'
      BY <1>6 DEF BeginDraw, IInv, RowInv, FrameInv, screen
    <2> QED
      BY <2>2, <2>3, <2>4, <2>5 DEF IInv
  <1>7. CASE Draw
    <2>1. line \in Width /\ lastWidth \in 0..Columns
      BY <1>7, SpinnerAssumption DEF Draw, IInv, TypeOK, WidthInv, Width
    <2>2. row' = Showing(Frame(line))
      BY <1>7, DrawnIsShowing DEF Draw, IInv
    <2>3. row' \in Rows
      BY <2>1, <2>2, LineTypes, ShowingType
    <2>4. TypeOK'
      BY <1>7, <2>1, <2>3, Zenon DEF Draw, IInv, TypeOK, Rows, object, stopping
    <2>5. LockInv' /\ ThreadInv' /\ KeepInv'
      BY <1>7 DEF Draw, IInv, LockInv, ThreadInv, KeepInv, object, stopping
    <2>6. WidthInv'
      <3>1. ASSUME NEW c \in Width, c > lastWidth PROVE row'[c] = Blank
        <4>1. ~(c <= line) /\ ~(c <= lastWidth) /\ row[c] = Blank
          BY <1>7, <2>1, <3>1, SpinnerAssumption DEF Draw, IInv, WidthInv, Width
        <4> QED
          BY <1>7, <4>1 DEF Draw, Drawn, Frame
      <3> QED
        BY <1>7, <3>1 DEF WidthInv, Draw
    <2>7. RowInv'
      BY <1>7 DEF Draw, IInv, RowInv, LockInv, ThreadInv, object
    <2>8. FrameInv'
      BY <2>1, <2>2 DEF FrameInv
    <2> QED
      BY <2>4, <2>5, <2>6, <2>7, <2>8 DEF IInv
  <1> QED
    BY <1>1, <1>2, <1>3, <1>4, <1>5, <1>6, <1>7 DEF Worker

-----------------------------------------------------------------------------
(* The steps of the caller. *)

LEMMA MainIInv ==
  ASSUME IInv, Main
  PROVE  IInv'
  <1> USE DEF object
  <1>1. CASE EndMessage
    <2>1. PICK w \in Width : PrintLine(Message(w))
      BY <1>1 DEF EndMessage
    <2>2. /\ row' = BlankRow /\ row' \in Rows /\ cursor' = 0 /\ cursor' \in 0..Columns /\ above' \in Rows
          /\ rendered' = FALSE /\ lastWidth' \in 0..Columns /\ lastLine' \in 0..Columns
      BY <1>1, <2>1, LineTypes, PrintLineEmpties, ForgetType DEF EndMessage
    <2>3. TypeOK'
      BY <1>1, <2>2, Zenon DEF EndMessage, IInv, TypeOK, Rows, thread, stopping
    <2>4. LockInv' /\ ThreadInv' /\ KeepInv' /\ worker' # "draw"
      BY <1>1 DEF EndMessage, Forget, IInv, LockInv, ThreadInv, KeepInv, thread, stopping
    <2> QED
      BY <2>2, <2>3, <2>4, EmptyingStep
  <1>2. CASE Join
    <2>1. TypeOK'
      BY <1>2, Zenon DEF Join, IInv, TypeOK, render, screen, stopping
    <2>2. LockInv' /\ ThreadInv' /\ KeepInv'
      BY <1>2 DEF Join, IInv, LockInv, ThreadInv, KeepInv, render, screen, stopping
    <2> QED
      BY <1>2, <2>1, <2>2, QuietStep DEF Join, IInv, RowInv
  <1>3. CASE SkipFinalize
    <2>1. main' \in {"idle", "stopped"}
      BY <1>3 DEF SkipFinalize, Finished
    <2>2. TypeOK'
      BY <1>3, <2>1, Zenon DEF SkipFinalize, IInv, TypeOK, thread, render, screen, stopping
    <2>3. LockInv' /\ ThreadInv' /\ KeepInv'
      BY <1>3, <2>1 DEF SkipFinalize, Visible, IInv, LockInv, ThreadInv, KeepInv, thread, render, screen, stopping
    <2> QED
      BY <1>3, <2>1, <2>2, <2>3, QuietStep DEF SkipFinalize, thread
  <1>4. CASE BeginFinalize /\ rendered
    <2>1. row' = BlankRow /\ row' \in Rows /\ cursor' = 0 /\ cursor' \in 0..Columns /\ above' = above
      BY <1>4, ClearRowEmpties DEF BeginFinalize
    <2>2. TypeOK'
      BY <1>4, <2>1, Zenon DEF BeginFinalize, IInv, TypeOK, Rows, thread, render, stopping
    <2>3. LockInv' /\ ThreadInv' /\ KeepInv' /\ worker' # "draw" /\ main' = "keeping"
      BY <1>4 DEF BeginFinalize, IInv, LockInv, ThreadInv, KeepInv, thread, render, stopping
    <2> QED
      BY <2>1, <2>2, <2>3, EmptyingStep
  <1>5. CASE BeginFinalize /\ ~rendered
    <2>1. TypeOK'
      BY <1>5, Zenon DEF BeginFinalize, IInv, TypeOK, thread, render, screen, stopping
    <2>2. LockInv' /\ ThreadInv' /\ KeepInv' /\ worker' # "draw" /\ main' = "keeping"
      BY <1>5 DEF BeginFinalize, IInv, LockInv, ThreadInv, KeepInv, thread, render, stopping
    <2> QED
      BY <1>5, <2>1, <2>2, QuietStep DEF BeginFinalize
  <1>6. CASE EndFinalize
    <2> DEFINE l == IF final = 0 THEN Frame(lastLine) ELSE Done(final)
    <2>1. ASSUME keep /\ Visible # 0 PROVE l \in Line
      <3>1. lastLine \in 0..Columns /\ final \in 0..Columns /\ (final = 0 => lastLine # 0)
        BY <2>1 DEF IInv, TypeOK, Visible
      <3>2. final # 0 => final \in Width
        BY <3>1, SpinnerAssumption DEF Width
      <3>3. final = 0 => lastLine \in Width
        BY <3>1, SpinnerAssumption DEF Width
      <3> QED
        BY <3>2, <3>3, LineTypes
    <2>2. row' = BlankRow /\ row' \in Rows /\ cursor' = 0 /\ cursor' \in 0..Columns /\ above' \in Rows
      <3>1. CASE keep /\ Visible # 0
        <4>1. PrintLine(l)
          BY <1>6, <3>1 DEF EndFinalize
        <4> HIDE DEF l
        <4> QED
          BY <2>1, <3>1, <4>1, PrintLineEmpties
      <3>2. CASE ~(keep /\ Visible # 0)
        BY <1>6, <3>2, ShowingType, SpinnerAssumption DEF EndFinalize, IInv, RowInv, TypeOK, Rows, screen
      <3> QED
        BY <3>1, <3>2
    <2>3. rendered' = FALSE /\ lastWidth' \in 0..Columns /\ lastLine' \in 0..Columns
      BY <1>6, ForgetType DEF EndFinalize
    <2>4. main' \in {"idle", "stopped"}
      BY <1>6 DEF EndFinalize, Finished
    <2>5. TypeOK'
      BY <1>6, <2>2, <2>3, <2>4, Zenon DEF EndFinalize, IInv, TypeOK, Rows, thread, stopping
    <2>6. LockInv' /\ ThreadInv' /\ KeepInv' /\ worker' # "draw"
      BY <1>6, <2>4 DEF EndFinalize, Forget, IInv, LockInv, ThreadInv, KeepInv, thread, stopping
    <2> QED
      BY <2>2, <2>3, <2>5, <2>6, EmptyingStep
  <1>7. CASE Destroy
    <2>1. 0 \in 0..Columns
      BY SpinnerAssumption
    <2>2. TypeOK'
      BY <1>7, <2>1, Zenon DEF Destroy, IInv, TypeOK, thread, render, screen
    <2>3. LockInv' /\ ThreadInv' /\ KeepInv'
      BY <1>7 DEF Destroy, IInv, LockInv, ThreadInv, KeepInv, thread, render, screen
    <2> QED
      BY <1>7, <2>2, <2>3, QuietStep DEF Destroy, thread
  <1>8. CASE Start
    <2>1. 0 \in 0..Columns /\ Width \subseteq 0..Columns /\ spinners' \in 0..MaxSpinners
      BY <1>8, SpinnerAssumption DEF Start, Width, IInv, TypeOK
    <2>2. kind' \in {"fetch", "cover", "rip"} /\ snapshot' \in 0..Columns
      BY <1>8, <2>1 DEF Start
    <2>3. TypeOK'
      BY <1>8, <2>1, <2>2, Zenon DEF Start, IInv, TypeOK, render, screen, stopping
    <2>4. LockInv' /\ ThreadInv' /\ KeepInv' /\ worker' # "draw" /\ main' = "calling"
      BY <1>8 DEF Start, IInv, LockInv, ThreadInv, KeepInv, render, stopping
    <2> QED
      BY <1>8, <2>3, <2>4, QuietStep DEF Start
  <1>9. CASE Update
    <2>1. snapshot' \in 0..Columns /\ snapshot' # 0
      BY <1>9, LineTypes DEF Update
    <2>2. TypeOK'
      BY <1>9, <2>1, Zenon DEF Update, IInv, TypeOK, thread, render, screen, stopping
    <2>3. LockInv' /\ ThreadInv' /\ KeepInv'
      BY <1>9, <2>1 DEF Update, IInv, LockInv, ThreadInv, KeepInv, thread, render, screen, stopping
    <2> QED
      BY <1>9, <2>2, <2>3, QuietStep DEF Update, thread
  <1>10. CASE BeginMessage /\ rendered
    <2>1. row' = BlankRow /\ row' \in Rows /\ cursor' = 0 /\ cursor' \in 0..Columns /\ above' = above
      BY <1>10, ClearRowEmpties DEF BeginMessage
    <2>2. TypeOK'
      BY <1>10, <2>1, Zenon DEF BeginMessage, IInv, TypeOK, Rows, thread, render, stopping
    <2>3. LockInv' /\ ThreadInv' /\ KeepInv' /\ worker' # "draw" /\ main' = "printing"
      BY <1>10 DEF BeginMessage, IInv, LockInv, ThreadInv, KeepInv, thread, render, stopping
    <2> QED
      BY <2>1, <2>2, <2>3, EmptyingStep
  <1>11. CASE BeginMessage /\ ~rendered
    <2>1. TypeOK'
      BY <1>11, Zenon DEF BeginMessage, IInv, TypeOK, thread, render, screen, stopping
    <2>2. LockInv' /\ ThreadInv' /\ KeepInv' /\ worker' # "draw" /\ main' = "printing"
      BY <1>11 DEF BeginMessage, IInv, LockInv, ThreadInv, KeepInv, thread, render, stopping
    <2> QED
      BY <1>11, <2>1, <2>2, QuietStep DEF BeginMessage
  <1>12. CASE BeginPicture
    <2>1. TypeOK'
      BY <1>12, Zenon DEF BeginPicture, IInv, TypeOK, thread, render, screen, stopping
    <2>2. LockInv' /\ ThreadInv' /\ KeepInv' /\ main' = "picture"
      BY <1>12 DEF BeginPicture, IInv, LockInv, ThreadInv, KeepInv, thread, render, screen, stopping
    <2> QED
      BY <1>12, <2>1, <2>2, QuietStep DEF BeginPicture, thread
  <1>13. CASE PictureRow
    <2>1. PICK w \in 0..Columns : PrintLine(PictureLine(w))
      BY <1>13 DEF PictureRow
    <2>2. PictureLine(w) \in Line \/ PictureLine(w).width = 0
      BY SpinnerAssumption DEF PictureLine, Line, Width
    <2>3. row' = BlankRow /\ row' \in Rows /\ cursor' = 0 /\ cursor' \in 0..Columns /\ above' \in Rows
      BY <2>1, <2>2, PrintLineEmpties
    <2>4. TypeOK'
      BY <1>13, <2>3, Zenon DEF PictureRow, IInv, TypeOK, Rows, thread, render, stopping
    <2>5. /\ LockInv' /\ ThreadInv' /\ KeepInv' /\ main' = "picture"
          /\ worker' = "draw" => line' # 0 /\ line' <= lastWidth'
      BY <1>13 DEF PictureRow, IInv, LockInv, ThreadInv, KeepInv, WidthInv, thread, render, stopping
    <2> QED
      BY <2>3, <2>4, <2>5, EmptyingStep
  <1>14. CASE Stop
    <2>1. keep' \in BOOLEAN /\ final' \in 0..Columns /\ (keep' => final' = snapshot)
      <3>1. keep' \in BOOLEAN
        BY <1>14, Zenon DEF Stop
      <3>2. final' = IF keep' THEN snapshot ELSE 0
        BY <1>14 DEF Stop
      <3>3. snapshot \in 0..Columns /\ 0 \in 0..Columns
        BY SpinnerAssumption DEF IInv, TypeOK
      <3> QED
        BY <3>1, <3>2, <3>3, Zenon
    <2>2. TypeOK'
      BY <1>14, <2>1, Zenon DEF Stop, IInv, TypeOK, render, screen
    <2>3. LockInv' /\ ThreadInv'
      BY <1>14 DEF Stop, IInv, LockInv, ThreadInv, render, screen
    <2>4. KeepInv'
      BY <1>14, <2>1 DEF Stop, IInv, KeepInv, render, screen
    <2> QED
      BY <1>14, <2>2, <2>3, <2>4, QuietStep DEF Stop
  <1>15. CASE Say
    <2>1. PICK w \in Width : PrintLine(Message(w))
      BY <1>15 DEF Say
    <2>2. row' = BlankRow /\ row' \in Rows /\ cursor' = 0 /\ cursor' \in 0..Columns /\ above' \in Rows
      BY <2>1, LineTypes, PrintLineEmpties
    <2>3. TypeOK'
      <3>1. UNCHANGED <<main, object, thread, snapshot, lock, render, stopping>>
        BY <1>15 DEF Say
      <3> QED
        BY <2>2, <3>1 DEF IInv, TypeOK, Rows, thread, render, stopping
    <2>4. /\ LockInv' /\ ThreadInv' /\ KeepInv' /\ worker' # "draw" /\ ~rendered'
      BY <1>15 DEF Say, IInv, LockInv, ThreadInv, KeepInv, RowInv, thread, render, stopping
    <2> QED
      BY <2>2, <2>3, <2>4, EmptyingStep
  <1> QED
    BY <1>1, <1>2, <1>3, <1>4, <1>5, <1>6, <1>7, <1>8, <1>9, <1>10, <1>11, <1>12, <1>13, <1>14, <1>15
       DEF Main, Stopping

(* A stuttering step. *)
LEMMA StutterIInv ==
  ASSUME IInv, UNCHANGED vars
  PROVE  IInv'
  <1>1. TypeOK'
    BY DEF vars, IInv, TypeOK, object, thread, render, stopping, screen
  <1>2. LockInv' /\ ThreadInv' /\ KeepInv'
    BY DEF vars, IInv, LockInv, ThreadInv, KeepInv, object, thread, render, stopping, screen
  <1> QED
    BY <1>1, <1>2, QuietStep DEF IInv, RowInv, vars, thread

(* IInv is an invariant, for every terminal and any number of spinners. *)
THEOREM Invariance == Spec => []IInv
  <1>1. IInv /\ [Next]_vars => IInv'
    BY WorkerIInv, MainIInv, StutterIInv DEF Next
  <1> QED
    BY <1>1, InitIInv, PTL DEF Spec

(* Every variable keeps its type: no width leaves the terminal, and no row gets a line     *)
(* that is none.                                                                           *)
THEOREM TypeCorrect == Spec => []TypeOK
  <1>1. IInv => TypeOK
    BY DEF IInv
  <1> QED
    BY <1>1, Invariance, PTL

(* Once stop() has returned no thread can draw, and the row is the caller's and empty. *)
THEOREM GivenBackCorrect == Spec => []ScreenIsGivenBack
  <1>1. IInv => ScreenIsGivenBack
    BY DEF IInv, TypeOK, ThreadInv, LockInv, RowInv, ScreenIsGivenBack
  <1> QED
    BY <1>1, Invariance, PTL

-----------------------------------------------------------------------------
(* Spinner implements StatusLine: what every step does to the rows.         *)

Picture == main = "picture"
PromiseNext == [Promise!Next]_(Promise!vars)

(* Steps that change no row and begin or end no picture. *)
LEMMA UnseenStep ==
  ASSUME UNCHANGED <<row, above>>, Picture' = Picture
  PROVE  PromiseNext
  BY DEF PromiseNext, Promise!vars, Picture, Seen

(* A step that empties the row. *)
LEMMA ClearedStep ==
  ASSUME row' = BlankRow, above' = above, Picture' = Picture
  PROVE  PromiseNext
  <1>1. Seen(row)' = Blank
    BY SeenBlank DEF Seen
  <1>2. Seen(above)' = Seen(above)
    BY DEF Seen
  <1>3. Promise!Clear
    BY <1>1, <1>2 DEF Promise!Clear, Picture
  <1> QED
    BY <1>3 DEF PromiseNext, Promise!Next

(* A text that is written to an empty row. *)
LEMMA PrintedStep ==
  ASSUME IInv, row = BlankRow, cursor = 0, NEW l, PrintLine(l), Picture' = Picture,
         l \in {Message(w) : w \in Width} \cup {Done(w) : w \in Width} \cup {PictureLine(w) : w \in Width}
  PROVE  PromiseNext
  <1>1. l \in Line
    BY LineTypes
  <1>2. above' = Showing(l) /\ row' = BlankRow
    BY <1>1, AppendedIsShowing DEF PrintLine
  <1>3. Seen(above)' = l
    <2>1. Seen(Showing(l)) = l
      BY <1>1, SeenShowing
    <2> QED
      BY <1>2, <2>1 DEF Seen
  <1>4. Seen(row) = Blank /\ Seen(row)' = Blank
    BY <1>2, SeenBlank DEF Seen
  <1>5. Promise!PrintLine
    BY <1>3, <1>4 DEF Promise!PrintLine, Picture
  <1> QED
    BY <1>5 DEF PromiseNext, Promise!Next

(* What the thread does to the rows. *)
LEMMA WorkerShows ==
  ASSUME IInv, Worker
  PROVE  PromiseNext
  <1>1. main' = main
    BY DEF Worker, Check, Leave, Build, SkipEmpty, BeginDraw, Draw
  <1>2. CASE Check \/ Leave \/ Build \/ BeginDraw
    BY <1>1, <1>2, UnseenStep DEF Check, Leave, Build, BeginDraw, screen, Picture
  <1>3. CASE SkipEmpty
    <2>1. CASE rendered
      BY <1>1, <1>3, <2>1, ClearRowEmpties, ClearedStep DEF SkipEmpty, Picture
    <2>2. CASE ~rendered
      BY <1>1, <1>3, <2>2, UnseenStep DEF SkipEmpty, screen, Picture
    <2> QED
      BY <2>1, <2>2
  <1>4. CASE Draw
    <2>1. line \in Width
      BY <1>4, SpinnerAssumption DEF Draw, IInv, TypeOK, WidthInv, Width
    <2>2. row' = Showing(Frame(line)) /\ Frame(line) \in Line
      BY <1>4, <2>1, DrawnIsShowing, LineTypes DEF Draw, IInv
    <2>3. Seen(row)' = Frame(line)
      <3>1. Seen(Showing(Frame(line))) = Frame(line)
        BY <2>2, SeenShowing
      <3> QED
        BY <2>2, <3>1 DEF Seen
    <2>4. Seen(above)' = Seen(above)
      BY <1>4 DEF Draw, Seen
    <2>5. Promise!Show
      BY <1>1, <2>1, <2>3, <2>4 DEF Promise!Show
    <2> QED
      BY <2>5 DEF PromiseNext, Promise!Next
  <1> QED
    BY <1>2, <1>3, <1>4 DEF Worker

(* What the caller does to the rows. *)
LEMMA MainShows ==
  ASSUME IInv, Main
  PROVE  PromiseNext
  <1>1. CASE EndMessage
    <2>1. PICK w \in Width : PrintLine(Message(w))
      BY <1>1 DEF EndMessage
    <2>2. row = BlankRow /\ cursor = 0 /\ Picture' = Picture
      BY <1>1 DEF EndMessage, IInv, RowInv, Picture
    <2> QED
      BY <2>1, <2>2, PrintedStep
  <1>2. CASE Join \/ SkipFinalize \/ Destroy \/ Start \/ Update
    <2>1. UNCHANGED <<row, above>>
      BY <1>2 DEF Join, SkipFinalize, Destroy, Start, Update, screen
    <2>2. Picture' = Picture
      BY <1>2 DEF Join, SkipFinalize, Finished, Destroy, Start, Update, Picture
    <2> QED
      BY <2>1, <2>2, UnseenStep
  <1>3. CASE BeginMessage \/ BeginFinalize
    <2>1. Picture' = Picture
      BY <1>3 DEF BeginMessage, BeginFinalize, Picture
    <2>2. CASE rendered
      BY <1>3, <2>1, <2>2, ClearRowEmpties, ClearedStep DEF BeginMessage, BeginFinalize
    <2>3. CASE ~rendered
      BY <1>3, <2>1, <2>3, UnseenStep DEF BeginMessage, BeginFinalize, screen
    <2> QED
      BY <2>2, <2>3
  <1>4. CASE EndFinalize
    <2>1. Picture' = Picture
      BY <1>4 DEF EndFinalize, Finished, Picture
    <2>2. CASE keep /\ Visible # 0
      <3>1. final \in Width
        BY <1>4, <2>2, SpinnerAssumption DEF EndFinalize, IInv, TypeOK, KeepInv, Visible, Width
      <3>2. PrintLine(Done(final))
        BY <1>4, <2>2, <3>1, LineTypes DEF EndFinalize
      <3>3. row = BlankRow /\ cursor = 0
        BY <1>4 DEF EndFinalize, IInv, RowInv
      <3> QED
        BY <2>1, <3>1, <3>2, <3>3, PrintedStep
    <2>3. CASE ~(keep /\ Visible # 0)
      BY <1>4, <2>1, <2>3, UnseenStep DEF EndFinalize, screen
    <2> QED
      BY <2>2, <2>3
  <1>5. CASE BeginPicture \/ Stop
    <2>1. Seen(row)' = Seen(row) /\ Seen(above)' = Seen(above)
      BY <1>5 DEF BeginPicture, Stop, screen, Seen
    <2>2. Promise!Picture
      BY <2>1 DEF Promise!Picture
    <2> QED
      BY <2>2 DEF PromiseNext, Promise!Next
  <1>6. CASE PictureRow
    <2>1. PICK w \in 0..Columns : PrintLine(PictureLine(w))
      BY <1>6 DEF PictureRow
    <2>2. Seen(row)' = Blank
      BY <2>1, SeenBlank DEF PrintLine, Seen
    <2>3. Seen(above') \in Line \cup {Blank, Torn}
      BY SeenType
    <2>4. Line \subseteq {Frame(v) : v \in Width} \cup {Message(v) : v \in Width} \cup {Done(v) : v \in Width}
                         \cup {PictureLine(v) : v \in Width}
      BY DEF Line, Frame, Message, Done, PictureLine
    <2>5. main = "picture" /\ main' = main
      BY <1>6 DEF PictureRow
    <2>6. Promise!Overprint
      BY <2>2, <2>3, <2>4, <2>5 DEF Promise!Overprint, Seen
    <2> QED
      BY <2>6 DEF PromiseNext, Promise!Next
  <1>7. CASE Say
    <2>1. PICK w \in Width : PrintLine(Message(w))
      BY <1>7 DEF Say
    <2>2. row = BlankRow /\ cursor = 0 /\ Picture' = Picture
      BY <1>7 DEF Say, IInv, RowInv, Picture
    <2> QED
      BY <2>1, <2>2, PrintedStep
  <1> QED
    BY <1>1, <1>2, <1>3, <1>4, <1>5, <1>6, <1>7 DEF Main, Stopping

(* The terminal starts empty. *)
LEMMA InitShows == Init => Promise!Init
  BY SeenBlank DEF Init, Promise!Init

(* No frame is torn, no text continues a frame and no text is overwritten: Spinner         *)
(* implements StatusLine.                                                                  *)
THEOREM StatusLineImplemented == Spec => RowsAreWhole
  <1>1. IInv /\ [Next]_vars => PromiseNext
    <2>1. ASSUME UNCHANGED vars PROVE PromiseNext
      BY <2>1, UnseenStep DEF vars, screen, Picture
    <2> QED
      BY <2>1, WorkerShows, MainShows DEF Next
  <1> QED
    BY <1>1, InitShows, Invariance, PTL DEF Spec, RowsAreWhole, Promise!Spec, PromiseNext

-----------------------------------------------------------------------------
(* How far it is to the end of a stop: the caller must pass through        *)
(* finalize_render twice, and waits in the first pass for the thread.      *)

Closing == {"joining", "finalizing", "keeping", "stopped"}

(* What the caller and the thread have before them. *)
CallerLeft(place, object_) ==
  (IF object_ = "open" THEN 4 ELSE 0)
    + CASE place = "joining" -> 4 [] place = "finalizing" -> 3 [] place = "keeping" -> 2
        [] place = "stopped" -> 1 [] OTHER -> 0
ThreadLeft(place) ==
  CASE place = "build" -> 4 [] place = "lock" -> 3 [] place = "draw" -> 2 [] place = "check" -> 1 [] OTHER -> 0

StepsLeft == CallerLeft(main, scope) + ThreadLeft(worker)

(* The thread is told to leave before it is waited for. *)
StopInv == (main = "joining" => ~running) /\ (main = "stopped" => scope = "open")

LEMMA StopInvariance == Spec => []StopInv
  <1>1. Init => StopInv
    BY DEF Init, StopInv
  <1>2. IInv /\ StopInv /\ [Next]_vars => StopInv'
    <2> SUFFICES ASSUME IInv, StopInv, [Next]_vars PROVE StopInv'
      OBVIOUS
    <2> USE DEF object, thread
    <2>1. CASE Worker
      <3>1. main' = main /\ scope' = scope /\ running' = running
        BY <2>1 DEF Worker, Check, Leave, Build, SkipEmpty, BeginDraw, Draw
      <3> QED
        BY <3>1 DEF StopInv
    <2>2. CASE EndMessage \/ Join \/ BeginFinalize \/ Destroy \/ Start \/ Update \/ BeginMessage
                 \/ BeginPicture \/ PictureRow \/ Stop \/ Say
      BY <2>2 DEF StopInv, EndMessage, Join, BeginFinalize, Destroy, Start, Update, BeginMessage,
                  BeginPicture, PictureRow, Stop, Say
    <2>3. CASE SkipFinalize \/ EndFinalize
      BY <2>3 DEF IInv, TypeOK, StopInv, SkipFinalize, EndFinalize, Finished
    <2>4. CASE UNCHANGED vars
      BY <2>4 DEF StopInv, vars
    <2> QED
      BY <2>1, <2>2, <2>3, <2>4 DEF Next, Main, Stopping
  <1> QED
    BY <1>1, <1>2, Invariance, PTL DEF Spec

(* From stop() on nobody can go on for ever: every step of the thread and of the caller,   *)
(* but for what the caller prints between two passes, leaves fewer to take.                *)
THEOREM StopRunsOut ==
  Spec => /\ [](StepsLeft \in 0..12)
          /\ [][(main \in Closing /\ ~Say) => StepsLeft' < StepsLeft]_vars
  <1>1. StepsLeft \in 0..12
    BY DEF StepsLeft, CallerLeft, ThreadLeft
  <1>2. ASSUME IInv, StopInv, Next, main \in Closing, ~Say
        PROVE  StepsLeft' < StepsLeft
    <2> USE DEF object, thread, Closing
    <2>1. CASE Worker
      <3>1. main' = main /\ scope' = scope
        BY <2>1 DEF Worker, Check, Leave, Build, SkipEmpty, BeginDraw, Draw
      <3>2. ~Check
        BY <1>2 DEF Check, StopInv, IInv, ThreadInv
      <3>3. ThreadLeft(worker') < ThreadLeft(worker)
        BY <2>1, <3>2 DEF Worker, Leave, Build, SkipEmpty, BeginDraw, Draw, ThreadLeft
      <3>4. CallerLeft(main', scope') = CallerLeft(main, scope) /\ CallerLeft(main, scope) \in Nat
            /\ ThreadLeft(worker) \in Nat /\ ThreadLeft(worker') \in Nat
        BY <3>1 DEF CallerLeft, ThreadLeft
      <3> QED
        BY <3>3, <3>4 DEF StepsLeft
    <2>2. CASE Main
      <3>1. ThreadLeft(worker) = 0 /\ ThreadLeft(worker') = 0
        BY <1>2, <2>2 DEF IInv, ThreadInv, Main, Stopping, EndMessage, Join, SkipFinalize, BeginFinalize,
                          EndFinalize, Destroy, Start, Update, BeginMessage, BeginPicture, PictureRow, Stop, ThreadLeft
      <3>2. CallerLeft(main', scope') < CallerLeft(main, scope)
        <4> USE <1>2 DEF CallerLeft
        <4>1. CASE Join
          BY <4>1 DEF Join
        <4>2. CASE SkipFinalize
          BY <4>2 DEF SkipFinalize, Finished
        <4>3. CASE BeginFinalize
          BY <4>3 DEF BeginFinalize
        <4>4. CASE EndFinalize
          BY <4>4 DEF EndFinalize, Finished
        <4>5. CASE Destroy
          BY <4>5 DEF Destroy, StopInv
        <4> QED
          BY <2>2, <4>1, <4>2, <4>3, <4>4, <4>5 DEF Main, Stopping, EndMessage, Start, Update, BeginMessage,
                                                    BeginPicture, PictureRow, Stop
      <3>3. CallerLeft(main, scope) \in Nat /\ CallerLeft(main', scope') \in Nat
        BY DEF CallerLeft
      <3> QED
        BY <3>1, <3>2, <3>3 DEF StepsLeft
    <2> QED
      BY <1>2, <2>1, <2>2 DEF Next
  <1>3. IInv /\ StopInv /\ [Next]_vars => [(main \in Closing /\ ~Say) => StepsLeft' < StepsLeft]_vars
    BY <1>2
  <1> QED
    BY <1>1, <1>3, Invariance, StopInvariance, PTL DEF Spec

(* Where a step can be taken: the thread's, and the caller's. *)
ThreadCanGoOn ==
  \/ worker = "check" /\ ~running
  \/ worker \in {"build", "draw"}
  \/ worker = "lock" /\ lock = "free"
CallerCanGoOn ==
  \/ main = "joining" /\ worker = "gone"
  \/ main = "finalizing" /\ lock = "free"
  \/ main \in {"keeping", "stopped"}

(* And nobody waits for the other for ever: until the spinner is gone the thread can take  *)
(* a step or the caller can, whoever holds output_mutex_ and wherever the thread was met.  *)
THEOREM StopIsNeverStuck == Spec => [](main \in Closing => ThreadCanGoOn \/ CallerCanGoOn)
  <1>1. IInv /\ StopInv => (main \in Closing => ThreadCanGoOn \/ CallerCanGoOn)
    BY DEF IInv, TypeOK, LockInv, ThreadInv, StopInv, Closing, ThreadCanGoOn, CallerCanGoOn
  <1> QED
    BY <1>1, Invariance, StopInvariance, PTL

=============================================================================
