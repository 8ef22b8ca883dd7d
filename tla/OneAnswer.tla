------------------------------- MODULE OneAnswer -------------------------------
(* What createResolveOnce promises the caller of canUseTool: of everybody who  *)
(* may answer a permission request the first to claim it wins, the claim is    *)
(* never lost or taken over, and the promise is resolved once, with an answer  *)
(* the winner can give, at the claim or after it.                              *)

CONSTANTS Requests, Voices

Says(v) ==
  CASE v = "classifier" -> {"allow"}
    [] v = "abort" -> {"reject"}
    [] OTHER -> {"allow", "reject"}

VARIABLES winner, answer
vars == <<winner, answer>>

Init ==
  /\ winner = [r \in Requests |-> "none"]
  /\ answer = [r \in Requests |-> "none"]

Claims(r, v) ==
  /\ winner[r] = "none"
  /\ winner' = [winner EXCEPT ![r] = v]
  /\ UNCHANGED answer

Delivers(r) ==
  /\ winner[r] # "none" /\ answer[r] = "none"
  /\ \E a \in Says(winner[r]) : answer' = [answer EXCEPT ![r] = a]
  /\ UNCHANGED winner

Decides(r, v) ==
  /\ winner[r] = "none"
  /\ winner' = [winner EXCEPT ![r] = v]
  /\ \E a \in Says(v) : answer' = [answer EXCEPT ![r] = a]

Next == \E r \in Requests : Delivers(r) \/ \E v \in Voices : Claims(r, v) \/ Decides(r, v)

Safety == Init /\ [][Next]_vars
Spec == Safety /\ \A r \in Requests : WF_vars(Delivers(r))
================================================================================
