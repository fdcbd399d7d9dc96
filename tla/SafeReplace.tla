---------------------------- MODULE SafeReplace ----------------------------
(***************************************************************************)
(* What publishing a file promises to whoever looks at the destination.    *)
(* Every path has a sibling "<path>.tmp".  Content is written to the       *)
(* sibling only, the path itself is withdrawn only while a finished copy   *)
(* stands in the sibling, and it gets its new content in one step.         *)
(* Writers may come and go between any two steps.                          *)
(***************************************************************************)

CONSTANTS
  Paths,     \* the names at the destination
  Finished,  \* the files a writer may publish, as they were closed
  Absent,    \* there is no file of that name
  Broken     \* what a writing under way, or broken off, has left so far

VARIABLES
  shelf,     \* shelf[p]: what stands at path p
  sibling    \* sibling[p]: what stands at p.tmp

vars == <<shelf, sibling>>

Init ==
  /\ shelf \in [Paths -> Finished \cup {Absent}]
  /\ sibling = [p \in Paths |-> Absent]

(* A copy to p.tmp begins, or ends badly. *)
Spoil(p) ==
  /\ \E c \in {Absent, Broken} : sibling' = [sibling EXCEPT ![p] = c]
  /\ UNCHANGED shelf

(* A copy to p.tmp is complete. *)
Fill(p) ==
  /\ \E c \in Finished : sibling' = [sibling EXCEPT ![p] = c]
  /\ UNCHANGED shelf

(* The file that stood at p makes room for its replacement. *)
Withdraw(p) ==
  /\ sibling[p] \in Finished
  /\ shelf' = [shelf EXCEPT ![p] = Absent]
  /\ UNCHANGED sibling

(* The replacement takes its place. *)
Promote(p) ==
  /\ sibling[p] \in Finished
  /\ shelf' = [shelf EXCEPT ![p] = sibling[p]]
  /\ sibling' = [sibling EXCEPT ![p] = Absent]

Next == \E p \in Paths : Spoil(p) \/ Fill(p) \/ Withdraw(p) \/ Promote(p)

Spec == Init /\ [][Next]_vars

(* What stands at a path is never a writing under way or broken off.  It is *)
(* as whole as it was when it was closed, and no more than that.            *)
NeverBrokenOff == \A p \in Paths : shelf[p] # Broken
=============================================================================
