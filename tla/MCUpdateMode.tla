---------------------------- MODULE MCUpdateMode ----------------------------
(* UpdateMode with two files, and two discs that have one CDDB disc ID.     *)
(* Release 1 has both discs, release 2 the first; the second disc is in no  *)
(* CDDB.                                                                    *)
EXTENDS UpdateMode

MCCddbId == [d \in {1, 2} |-> 7]

Genre(n) == [word |-> n, case |-> "lower"]
Loud(n) == [word |-> n, case |-> "upper"]
Held(source, disc, release, album, date, title, genres) ==
  [source |-> source, disc |-> disc, release |-> release, medium |-> IF release = 0 THEN 0 ELSE disc,
   album |-> album, date |-> date, title |-> title, genres |-> genres]

MCRecords ==
  {Held("musicbrainz", 1, 1, 3, 0, 2, <<Genre(1), Genre(2)>>),
   Held("musicbrainz", 1, 2, 2, 5, 0, <<Genre(3)>>),
   Held("musicbrainz", 2, 1, 2, 4, 0, <<>>),
   Held("cddb", 1, 0, 1, 6, 3, <<Loud(3), Loud(1)>>)}

MCSeed(disc, linked, release, medium) ==
  [valid |-> TRUE, disc |-> disc, linked |-> linked, release |-> release, medium |-> medium]
MCSeeds ==
  {MCSeed(1, TRUE, 0, 0), MCSeed(1, TRUE, 2, 1), MCSeed(2, TRUE, 1, 2),
   MCSeed(1, FALSE, 0, 0), MCSeed(2, FALSE, 0, 0), MCSeed(1, FALSE, 1, 1), MCSeed(2, FALSE, 1, 0),
   [MCSeed(1, FALSE, 0, 0) EXCEPT !.valid = FALSE]}

MCPlans == {<<<<1, 2>>>>, <<<<1>>, <<>>, <<2, 1>>>>}
MCFilters == {1..3, {1, 3}}
MCLines == {<<>>, <<0>>, <<2>>, <<3, 3, 1>>, <<0, 1>>, <<1, 2, 3>>}
=============================================================================
