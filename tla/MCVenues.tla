------------------------------ MODULE MCVenues ------------------------------
(* Small instances of Venues.  Slugs are what venues are told apart by, and  *)
(* are interchangeable.  Every two kinds of request that write the same row  *)
(* or table are together in a mix.                                           *)
EXTENDS Venues, TLC

VenueSymmetry == Permutations(Slug)

Everywhere == {"create", "update", "decide", "restart"}
VenueMixes == {Everywhere \cup {"rename", "day"},
               Everywhere \cup {"default", "remove"},
               Everywhere \cup {"logo", "default"},
               {"create", "decide", "restart", "child", "book", "remove"},
               Everywhere \cup {"rename", "remove"}}
=============================================================================
