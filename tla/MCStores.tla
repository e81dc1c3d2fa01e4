------------------------------- MODULE MCStores -------------------------------
(* BidderStore on a small instance: three submissions of one bidder, two of   *)
(* them with the same document, and engines that may find nothing, what a     *)
(* rule raises, or the same flag by two ways and another.                     *)
EXTENDS BidderStore, TLC

CONSTANTS s1, s2, s3, f1, f2, r1, c1, c2

Found == {{}, {<<r1, f1>>}, {<<r1, f1>>, <<AI, f1>>, <<AI, f2>>}}
Documents == s1 :> c1 @@ s2 :> c1 @@ s3 :> c2
===============================================================================
