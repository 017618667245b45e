---------------------------- MODULE MCLinkTrack ----------------------------
EXTENDS LinkTrack, TLC

CONSTANTS p1, p2, l1, e1

MCCabling == p1 :> 1 @@ p2 :> 2
=============================================================================
