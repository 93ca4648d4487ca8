-------------------------- MODULE MissionLifecycle --------------------------
(***************************************************************************)
(* What a mission with its one task promises: it is started once, its task *)
(* is taken up, and mission and task end together, the same way, for good.  *)
(***************************************************************************)
EXTENDS Transitions

CONSTANT Task   \* tasks, and their missions

VARIABLES mStatus, tStatus

lifecycle == <<mStatus, tStatus>>

\* Missions as create_mission leaves them.
Init ==
  /\ mStatus = [t \in Task |-> "draft"]
  /\ tStatus = [t \in Task |-> "none"]

Start(t) ==
  /\ mStatus[t] = "draft"
  /\ mStatus' = [mStatus EXCEPT ![t] = "running"]
  /\ tStatus' = [tStatus EXCEPT ![t] = "queued"]

TakeUp(t) ==
  /\ tStatus[t] = "queued"
  /\ tStatus' = [tStatus EXCEPT ![t] = "running"]
  /\ UNCHANGED mStatus

\* Both statuses change in one commit, along both tables.
End(t, status) ==
  /\ status \in TaskTransitions(tStatus[t]) \cap MissionTransitions(mStatus[t])
  /\ tStatus' = [tStatus EXCEPT ![t] = status]
  /\ mStatus' = [mStatus EXCEPT ![t] = status]

Ends(t) == \E status \in {"completed", "failed"} : End(t, status)

Next == \E t \in Task : Start(t) \/ TakeUp(t) \/ Ends(t)

Spec == Init /\ [][Next]_lifecycle /\ \A t \in Task : WF_lifecycle(Ends(t))

=============================================================================
