---------------------------- MODULE Transitions ----------------------------
(***************************************************************************)
(* The state-transition tables of missions and tasks                       *)
(* (mission_engine/states/transitions.py).                                 *)
(***************************************************************************)

MissionStatus == {"draft", "ready", "running", "paused", "completed", "failed", "cancelled"}
\* "none" stands for a task row that does not exist yet.
TaskStatus == {"none", "queued", "running", "waiting", "completed", "failed", "cancelled"}

MissionTransitions(s) ==
  CASE s = "draft"   -> {"ready", "cancelled"}
    [] s = "ready"   -> {"running", "cancelled"}
    [] s = "running" -> {"paused", "completed", "failed", "cancelled"}
    [] s = "paused"  -> {"running", "cancelled"}
    [] OTHER         -> {}

TaskTransitions(s) ==
  CASE s = "queued"  -> {"running", "cancelled"}
    [] s = "running" -> {"waiting", "completed", "failed", "cancelled"}
    [] s = "waiting" -> {"running", "failed", "cancelled"}
    [] s = "failed"  -> {"queued"}
    [] OTHER         -> {}

=============================================================================
