--------------------------- MODULE MCPingRouting ----------------------------
(***************************************************************************)
(* Two legacy clients behind one address, one after the other or at once,  *)
(* and one with an id; four of their threads, which is enough for a queue  *)
(* of four to overflow; pings enough for two at one socket and one at the  *)
(* other.                                                                  *)
(***************************************************************************)
EXTENDS PingRouting, TLC

CONSTANTS s1, s2, s3, a1

MCAddrOf == s1 :> a1 @@ s2 :> a1 @@ s3 :> a1

MCStarted ==
    {<<s1, "video">>, <<s2, "video">>, <<s3, "video">>, <<s3, "audio">>}

\* The two legacy sessions differ in nothing but their name.
Symmetry == Permutations({s1, s2})
=============================================================================
