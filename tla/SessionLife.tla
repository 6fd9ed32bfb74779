----------------------------- MODULE SessionLife -----------------------------
(***************************************************************************)
(* What a pool of sessions keyed by user promises: a session enters the    *)
(* pool at most once, never while another session of its user is in it,    *)
(* and once it has left it never comes back.                               *)
(***************************************************************************)
CONSTANTS Users, Sessions, UserOf

VARIABLE life

Stages == {"idle", "registered", "dropped"}

Init == life = [s \in Sessions |-> "idle"]

\* A session enters the pool and displaces the one its user had there, if any.
Register(s) ==
  /\ life[s] = "idle"
  /\ life' = [x \in Sessions |->
                IF x = s THEN "registered"
                ELSE IF UserOf[x] = UserOf[s] /\ life[x] = "registered"
                     THEN "dropped" ELSE life[x]]

\* A session leaves the pool.
Drop(s) ==
  /\ life[s] = "registered"
  /\ life' = [life EXCEPT ![s] = "dropped"]

Next == \E s \in Sessions : Register(s) \/ Drop(s)

Spec == Init /\ [][Next]_life
=============================================================================
