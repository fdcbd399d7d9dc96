----------------------------- MODULE MCCoverArt -----------------------------
(* CoverArt with two entries, so that there is an order between them and    *)
(* they can be merged, and two files, so that one meets the other's cache.  *)
EXTENDS CoverArt
=============================================================================
