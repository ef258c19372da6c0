--------------------------- MODULE MCKeyedRequests ---------------------------
(***************************************************************************)
(* Instances of KeyedRequests for TLC: two copies of one request, and a    *)
(* third client that uses the key for another body.                        *)
(***************************************************************************)
EXTENDS KeyedRequests

CONSTANTS c1, c2, c3, one, other

OneDiffers == [c \in Clients |-> IF c = c3 THEN other ELSE one]
=============================================================================
