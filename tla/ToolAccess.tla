----------------------------- MODULE ToolAccess -----------------------------
(***************************************************************************)
(* Tool permissions: which tools a call may use under the policies of the   *)
(* platform, the tenant, the agent and, if it has one, the mission; and     *)
(* what the tool registry does with a call.                                *)
(*                                                                         *)
(* The policies are a sequence in that order, of three or four.  A policy   *)
(* has the sets allow and deny of names, among which "*" stands for every   *)
(* tool.                                                                   *)
(***************************************************************************)
EXTENDS Integers, Sequences, TLAPS

CONSTANT Universe \* ALL_TOOLS

Policy   == [allow : SUBSET STRING, deny : SUBSET STRING]
Policies == [1..3 -> Policy] \cup [1..4 -> Policy]

\* ToolPolicy.allow_only.
AllowOnly(tools) == [allow |-> tools, deny |-> {"*"}]

\* effective_tool_set.
Effective(policy) ==
  LET allowed == IF "*" \in policy.allow THEN Universe ELSE policy.allow \cap Universe
      denies  == (policy.deny \ {"*"}) \cap Universe
  IN  allowed \ denies

\* evaluate_tool_access: refused by no scope in particular (0) when the tool is unknown, or
\* else by the first scope that does not permit it.
Refuses(tool, policies, i) == tool \notin Effective(policies[i])

FirstRefusal(tool, policies) ==
  CHOOSE i \in DOMAIN policies :
    Refuses(tool, policies, i) /\ \A j \in 1..i - 1 : ~Refuses(tool, policies, j)

Evaluate(tool, policies) ==
  IF tool \notin Universe THEN [allowed |-> FALSE, by |-> 0]
  ELSE IF \E i \in DOMAIN policies : Refuses(tool, policies, i)
    THEN [allowed |-> FALSE, by |-> FirstRefusal(tool, policies)]
    ELSE [allowed |-> TRUE, by |-> 0]

\* ToolRegistry.execute with these handlers; result is what the handler comes to.  The handler
\* is called only for "output" and "raised".
Execute(tool, policies, handlers, result) ==
  IF ~Evaluate(tool, policies).allowed THEN "denied"
  ELSE IF tool \notin handlers THEN "no handler"
  ELSE result

-----------------------------------------------------------------------------
\* Exactly one scope is named in a refusal of a known tool.
LEMMA FirstExists ==
  ASSUME NEW tool, NEW policies \in Policies, NEW i \in DOMAIN policies, Refuses(tool, policies, i)
  PROVE  LET f == FirstRefusal(tool, policies) IN
         /\ f \in DOMAIN policies /\ Refuses(tool, policies, f)
         /\ \A j \in 1..f - 1 : ~Refuses(tool, policies, j)
<1> DEFINE R(j) == Refuses(tool, policies, j)
           First(j) == R(j) /\ \A k \in 1..j - 1 : ~R(k)
<1>1. DOMAIN policies \in {1..3, 1..4}
  BY DEF Policies
<1>2. \E j \in DOMAIN policies : First(j)
  <2> HIDE DEF R
  <2>1. i \in 1..4 /\ 1..i \subseteq DOMAIN policies
    BY <1>1
  <2>2. R(i)
    BY DEF R
  <2>3. \E j \in 1..i : First(j)
    <3>1. CASE i = 1
      BY <2>2, <3>1
    <3>2. CASE i = 2
      BY <2>2, <3>2
    <3>3. CASE i = 3
      BY <2>2, <3>3
    <3>4. CASE i = 4
      BY <2>2, <3>4
    <3> QED BY <2>1, <3>1, <3>2, <3>3, <3>4
  <2> QED BY <2>1, <2>3
<1> QED BY <1>2 DEF FirstRefusal

\* "Effective access = platform \cap tenant \cap agent \cap mission": a tool is allowed if and
\* only if it is a tool and every scope permits it (evaluate_tool_access).
THEOREM AllowedByAll ==
  ASSUME NEW tool, NEW policies \in Policies
  PROVE  Evaluate(tool, policies).allowed <=>
           tool \in Universe /\ \A i \in DOMAIN policies : tool \in Effective(policies[i])
BY DEF Evaluate, Refuses

\* "Deny always wins": a tool that any scope's deny names is refused, whatever the others allow
\* and even if it is that scope itself (effective_tool_set).
THEOREM DenyWins ==
  ASSUME NEW tool, NEW policies \in Policies, NEW i \in DOMAIN policies,
         tool \in policies[i].deny, tool # "*"
  PROVE  ~Evaluate(tool, policies).allowed
BY AllowedByAll DEF Effective

\* A tool that some scope's allow does not name is refused, unless the scope allows everything;
\* so is one that does not exist, "*" included unless it is a tool.
THEOREM DeniedByDefault ==
  ASSUME NEW tool, NEW policies \in Policies, NEW i \in DOMAIN policies,
         tool \notin policies[i].allow, "*" \notin policies[i].allow \/ tool \notin Universe
  PROVE  ~Evaluate(tool, policies).allowed
BY AllowedByAll DEF Effective

\* The "*" in the deny of allow_only takes nothing away from what it allows.
THEOREM AllowOnlyAllows ==
  ASSUME NEW tools \in SUBSET Universe, "*" \notin tools
  PROVE  Effective(AllowOnly(tools)) = tools
BY DEF Effective, AllowOnly

\* A mission's policy can only take tools away.
THEOREM MissionRestricts ==
  ASSUME NEW tool, NEW policies \in Policies, DOMAIN policies = 1..4,
         Evaluate(tool, policies).allowed
  PROVE  Evaluate(tool, [i \in 1..3 |-> policies[i]]).allowed
<1> DEFINE less == [i \in 1..3 |-> policies[i]]
<1>1. less \in Policies
  BY DEF Policies
<1>2. \A i \in 1..3 : i \in DOMAIN policies /\ less[i] = policies[i]
  OBVIOUS
<1>3. tool \in Universe /\ \A i \in DOMAIN policies : tool \in Effective(policies[i])
  BY AllowedByAll
<1>4. DOMAIN less = 1..3
  OBVIOUS
<1> HIDE DEF less
<1>5. \A i \in DOMAIN less : tool \in Effective(less[i])
  BY Zenon, <1>2, <1>3, <1>4
<1>6. Evaluate(tool, less).allowed
  BY Zenon, <1>1, <1>3, <1>5, AllowedByAll
<1> QED BY Zenon, <1>6 DEF less

\* The refusal of a known tool names the first scope that refuses it (it "goes straight into the
\* `tool.denied` audit event").
THEOREM RefusalNamesFirst ==
  ASSUME NEW tool \in Universe, NEW policies \in Policies, ~Evaluate(tool, policies).allowed
  PROVE  LET by == Evaluate(tool, policies).by IN
         /\ by \in DOMAIN policies /\ Refuses(tool, policies, by)
         /\ \A j \in 1..by - 1 : ~Refuses(tool, policies, j)
<1>1. PICK i \in DOMAIN policies : Refuses(tool, policies, i)
  BY DEF Evaluate
<1>2. Evaluate(tool, policies).by = FirstRefusal(tool, policies)
  BY <1>1 DEF Evaluate
<1> QED BY <1>1, <1>2, FirstExists

\* "The single choke point": a handler is called only for a tool that every scope permits
\* (ToolRegistry.execute).
THEOREM OnlyAllowedRuns ==
  ASSUME NEW tool, NEW policies \in Policies, NEW handlers, NEW result \in {"output", "raised"},
         Execute(tool, policies, handlers, result) = result
  PROVE  tool \in handlers /\ \A i \in DOMAIN policies : tool \in Effective(policies[i])
BY AllowedByAll DEF Execute
=============================================================================
