------------------------------- MODULE MCTaskList ------------------------------
(* The calls each run makes, over two agents and a few tasks. *)
EXTENDS TaskList, TLC

Updating(ids, sets) == [kind : {"update"}, id : ids, set : sets]
Beginning == [status |-> "in_progress"]
Completing == [status |-> "completed"]
Claims(ids) == [kind : {"claim"}, id : ids, follow : {{Beginning}, {[owner |-> None]}, {}}]
Calls(kinds) == [kind : kinds]
Deletes(ids) == [kind : {"delete"}, id : ids]
Unassigns(who) == [kind : {"unassign"}, who : who]
Blocks(pairs) == {[kind |-> "block", id |-> e[1], to |-> e[2]] : e \in pairs}

CallJobs ==
  Calls({"create", "hide"}) \cup Deletes({1}) \cup Claims({1, 2}) \cup Unassigns(Agents)
    \cup Updating({1}, {Completing}) \cup Blocks({<<1, 2>>})
IdJobs == Calls({"create", "reset", "hide"}) \cup Updating({1}, {Completing})

NoEdge == {}
OneEdge == {<<1, 2>>}

Alike == Permutations(Agents)
================================================================================
