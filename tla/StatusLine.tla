----------------------------- MODULE StatusLine -----------------------------
(***************************************************************************)
(* What the spinners of the command line promise about the terminal        *)
(* (SpinnerRenderer, src/src/main.cpp).  The last row shows nothing or one *)
(* frame, whole and alone.  Text that stays is written to an empty row     *)
(* only, and becomes the row above.  The exception is a picture that is    *)
(* printed while a spinner runs: nothing is promised of its rows.          *)
(***************************************************************************)
CONSTANTS
  Frames,   \* lines a spinner may show for a while
  Texts,    \* lines that stay: messages and the line of a finished track
  Nothing,  \* an empty row
  Torn      \* a row that shows parts of several lines

VARIABLES
  row,      \* the last row
  above,    \* the row above it
  picture   \* a picture is being printed

vars == <<row, above, picture>>

Init == row = Nothing /\ above = Nothing /\ picture = FALSE

Show ==
  /\ row' \in Frames
  /\ UNCHANGED <<above, picture>>

Clear ==
  /\ row' = Nothing
  /\ UNCHANGED <<above, picture>>

PrintLine ==
  /\ row = Nothing
  /\ above' \in Texts
  /\ UNCHANGED <<row, picture>>

Picture ==
  /\ picture' \in BOOLEAN
  /\ UNCHANGED <<row, above>>

Overprint ==
  /\ picture
  /\ row' = Nothing
  /\ above' \in Frames \cup Texts \cup {Nothing, Torn}
  /\ UNCHANGED picture

Next == Show \/ Clear \/ PrintLine \/ Picture \/ Overprint
Spec == Init /\ [][Next]_vars
=============================================================================
