--------------------------- MODULE MCTeammateMailbox ---------------------------
(* A peer's letter and a structured message of the leader, in the inbox of a   *)
(* session, whose polls may overlap, and of a teammate in process.             *)
EXTENDS TeammateMailbox

Kinds == {[p1 |-> {"poll"}, p2 |-> {"poll"}, t |-> {"turn"}], [w |-> {"wait", "turn"}]}
================================================================================
