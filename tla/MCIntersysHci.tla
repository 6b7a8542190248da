--------------------------- MODULE MCIntersysHci ---------------------------
(***************************************************************************)
(* IntersysHci with packets of every kind that the core sends, with and    *)
(* without data; their other bytes look like the type of an SCO packet.    *)
(***************************************************************************)
EXTENDS IntersysHci

MCPackets == { <<4, 3, 0>>, <<4, 3, 2, 3, 3>>, <<2, 3, 3, 1, 0, 3>>, <<3, 3, 3, 1, 3>>, <<3, 3, 3, 0>> }
=============================================================================
