------------------------------- MODULE MCListing -------------------------------
(* Listing for TLC: up to four rows in pages of one or two, sizes out of range.  *)
EXTENDS Listing

MCSizes == 0..3
=============================================================================
