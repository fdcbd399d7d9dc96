--------------------------- MODULE MCDriveSession ---------------------------
(* DriveSession with two drives, so that there is something to choose, and  *)
(* as many insertions as two discs and one that comes back need.            *)
EXTENDS DriveSession
=============================================================================
