--------------------------- MODULE MCWebSocketPool ---------------------------
(* Two users, the first of which connects twice, and a thread that calls. *)
EXTENDS WebSocketPool, TLC

CONSTANTS u1, u2, s1, s2, s3, t1

MCUserOf == s1 :> u1 @@ s2 :> u1 @@ s3 :> u2
=============================================================================
