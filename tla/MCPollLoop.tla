----------------------------- MODULE MCPollLoop -----------------------------
(* Instances of PollLoop: a milestone with two issues and a single issue,   *)
(* for the tick; two single issues, for restarts and for the sweep.         *)
EXTENDS PollLoop, TLC

Three == 1..3
TwoAndOne == (1 :> 1) @@ (2 :> 1) @@ (3 :> 0)
Calls == {"gates", "marker", "list", "labels", "edit", "members", "unit", "worktrees", "issue"}
Acts  == {"term", "kill", "greenlight", "ungreenlight", "block", "close"}
AllTroubles == Calls \cup Acts
CleanOnly == {{"tree"}}

Two == 1..2
BothAlone == (1 :> 0) @@ (2 :> 0)
ProcessTroubles == {"gates", "marker", "term", "kill"}
SweepTroubles   == {"worktrees", "issue", "status", "ahead", "stray", "close"}
RestartTroubles == ProcessTroubles \cup SweepTroubles
Anything == {{"tree"} \cup kinds : kinds \in SUBSET Unsaved}
=============================================================================
