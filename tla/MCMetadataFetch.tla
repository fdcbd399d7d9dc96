-------------------------- MODULE MCMetadataFetch --------------------------
(* MetadataFetch with three servers, any of which may be MusicBrainz.       *)
EXTENDS MetadataFetch
=============================================================================
