----------------------------- MODULE MCAlbumRip -----------------------------
(* AlbumRip on two tracks and two paths, so that names can collide, and two *)
(* runs, so that one meets what a failed or killed one left behind.         *)
EXTENDS AlbumRip
=============================================================================
