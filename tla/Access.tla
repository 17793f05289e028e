------------------------------- MODULE Access -------------------------------
(***************************************************************************)
(* Who may do what: role assignments (global, on an agent, on a server),   *)
(* the roles they amount to (lib/permissions.ts), the notification         *)
(* preferences and the recipients of an agent's alerts.  It extends        *)
(* Accounts: every step of an account is a step here, with the cascades to *)
(* these tables.                                                           *)
(*                                                                         *)
(* A change (a grant, a revocation, the deletion of an agent, a new        *)
(* preference) reads in its first steps and writes in later ones, one per  *)
(* statement; changes overlap each other and the requests on accounts.     *)
(* SQL's NULL is "all"; two NULLs are different to a UNIQUE constraint.    *)
(* Left out: the audit log, themes; of the three kinds of alert, whose     *)
(* columns are set alike, one is kept.                                     *)
(***************************************************************************)
EXTENDS Accounts

CONSTANTS
  Agents, Servers,
  Assignments,   \* the ids role assignments may have
  Changes,       \* the changes that may be in progress at once
  SlowChoices    \* whether two new preferences of one user may overlap

ASSUME SlowAssumption == SlowChoices \in BOOLEAN
ASSUME PlacesAssumption == Agents \cap Servers = {} /\ "all" \notin Agents \cup Servers

VARIABLES
  agents,       \* the agents in the table agents
  place,        \* place[s]: the agent of server s, or "none"
  assignments,  \* assignments[i]: the role assignment i, or NoAssignment
  choices,      \* choices[u][a]: the answers in the rows of user u for agent a, or all agents
  changes       \* changes[c]: where change c stands, or Still

accessVars == <<agents, place, assignments, choices, changes>>
allVars == <<vars, accessVars>>

Assignment ==
  [user : Users, role : {"operator", "viewer"}, scope : {"global"}, resource : {"all"}]
  \cup [user : Users, role : {"agent-admin", "operator", "viewer"}, scope : {"agent"}, resource : Agents]
  \cup [user : Users, role : {"operator", "viewer"}, scope : {"server"}, resource : Servers]
NoAssignment == [user |-> "none"]

Still == [op |-> "none"]
Change ==
  {Still}
  \cup [op : {"grant", "insert"}, row : Assignment]
  \cup [op : {"revoke"}, id : Assignments]
  \cup [op : {"revokeAll"}, user : Users, resource : Agents \cup Servers]
  \cup [op : {"deleteAgent", "forgetAgent"}, agent : Agents]
  \cup [op : {"choose"}, user : Users, agent : Agents \cup {"all"}, on : BOOLEAN, found : BOOLEAN]

AccessTypeOK ==
  /\ TypeOK
  /\ agents \subseteq Agents
  /\ place \in [Servers -> Agents \cup {"none"}]
  /\ assignments \in [Assignments -> Assignment \cup {NoAssignment}]
  /\ choices \in [Users -> [Agents \cup {"all"} -> SUBSET BOOLEAN]]
  /\ changes \in [Changes -> Change]

NoChoices == [a \in Agents \cup {"all"} |-> {}]

AccessRest ==
  /\ agents = Agents
  /\ place \in [Servers -> Agents]
  /\ assignments = [i \in Assignments |-> NoAssignment]
  /\ choices = [u \in Users |-> NoChoices]
  /\ changes = [c \in Changes |-> Still]
AccessInit == Init /\ AccessRest

-----------------------------------------------------------------------------
\* Roles and capabilities

Rows == {assignments[i] : i \in Assignments} \ {NoAssignment}
RowsOf(u) == {x \in Rows : x.user = u}
RolesAt(u, resource) == {x.role : x \in {y \in RowsOf(u) : y.resource = resource}}

\* The most specific scope with an assignment wins; several roles of one scope are in no
\* order, and LIMIT 1 takes any of them.
MostSpecific(roles, others) == IF roles # {} THEN roles ELSE others

EffectiveRolesForAgent(u, system, a) ==
  IF system = "admin" THEN {"admin"} ELSE MostSpecific(RolesAt(u, a), RolesAt(u, "all"))

\* Mutant: a server's own assignments only, the agent's and the global ones forgotten.
EffectiveRolesDirect(u, system, s) ==
  IF system = "admin" THEN {"admin"} ELSE IF place[s] = "none" THEN {} ELSE RolesAt(u, s)

EffectiveRoles(u, system, s) ==
  IF system = "admin" THEN {"admin"}
  ELSE IF place[s] = "none" THEN {}
  ELSE MostSpecific(RolesAt(u, s), EffectiveRolesForAgent(u, system, place[s]))

Capabilities(role) ==
  {"view_server", "view_logs"}
  \cup (IF role \in {"operator", "agent-admin", "admin"}
        THEN {"control_server", "use_rcon"} ELSE {})
  \cup (IF role \in {"agent-admin", "admin"} THEN {"create_server", "delete_server"} ELSE {})

\* What canViewServer, canControlServer, canDeleteServer, canUseRcon may answer, and
\* canCreateServer.
May(u, system, s, capability) ==
  \E role \in EffectiveRoles(u, system, s) : capability \in Capabilities(role)
MayCreateServer(u, system, a) ==
  \E role \in EffectiveRolesForAgent(u, system, a) : "create_server" \in Capabilities(role)

\* getUserVisibleServers: the assignments are expanded one by one, whatever their role;
\* a server's own assignment is taken at its word, the server being there or not.
Placed(a) == {s \in Servers : place[s] = a}
Expansion(x) ==
  CASE x.scope = "server" -> {x.resource}
    [] x.scope = "agent"  -> Placed(x.resource)
    [] x.scope = "global" -> {s \in Servers : place[s] # "none"}
VisibleServers(u, system) ==
  IF system = "admin" THEN {s \in Servers : place[s] # "none"}
  ELSE UNION {Expansion(x) : x \in RowsOf(u)}

\* Mutant: whoever sees a server of the agent is told about the agent.
CandidatesOfServers(a) ==
  {u \in Users : Exists(u) /\ (users[u].role = "admin" \/ VisibleServers(u, "none") \cap Placed(a) # {})}

\* getAlertRecipientsForAgent: admins by the role in the table, and who is assigned to the
\* agent or to all; the preference for the agent before the one for all agents, LIMIT 1.
Candidates(a) ==
  {u \in Users : Exists(u) /\ (users[u].role = "admin" \/ RolesAt(u, a) \cup RolesAt(u, "all") # {})}
Choices(u, a) == IF choices[u][a] # {} THEN choices[u][a] ELSE choices[u]["all"]
Recipients(a) == {u \in Candidates(a) : Choices(u, a) = {} \/ TRUE \in Choices(u, a)}

-----------------------------------------------------------------------------
\* The accounts' own steps

\* ON DELETE CASCADE of the rows that refer to a user, an agent or a server.
KeptRows(present) ==
  [i \in Assignments |-> IF assignments[i] # NoAssignment /\ assignments[i].user \notin present
                         THEN NoAssignment ELSE assignments[i]]
ChangedUsers ==
  UNION {CASE changes[c].op \in {"grant", "insert"} -> {changes[c].row.user}
           [] changes[c].op \in {"revokeAll", "choose"} -> {changes[c].user}
           [] OTHER -> {} : c \in Changes}

AccountStep ==
  LET present == {u \in Users : users'[u] # NoUser} IN
  /\ Next
  /\ \A u \in present : ~Exists(u) => u \notin ChangedUsers
  /\ assignments' = KeptRows(present)
  /\ choices' = [u \in Users |-> IF u \in present THEN choices[u] ELSE NoChoices]
  /\ UNCHANGED <<agents, place, changes>>

-----------------------------------------------------------------------------
\* Changes

BeginChange(c, change) ==
  /\ changes[c] = Still
  /\ changes' = [changes EXCEPT ![c] = change]
  /\ UNCHANGED <<vars, agents, place, assignments, choices>>

EndChange(c) == changes' = [changes EXCEPT ![c] = Still]
GoTo(c, op) == changes' = [changes EXCEPT ![c].op = op]
ThrowChange(c) ==
  /\ changes[c] # Still
  /\ EndChange(c)
  /\ UNCHANGED <<vars, agents, place, assignments, choices>>

Present(resource) ==
  resource = "all" \/ resource \in agents \/ (resource \in Servers /\ place[resource] # "none")

\* The grant of a role: not to an admin, nor on what is not there.
BeginGrant(c, t, x) ==
  /\ Admin(t)
  /\ Exists(x.user) /\ users[x.user].role # "admin" /\ Present(x.resource)
  /\ BeginChange(c, [op |-> "grant", row |-> x])

\* grantRoleAssignment: nothing is inserted when the assignment is found.
LookUp(c) ==
  /\ changes[c].op = "grant"
  /\ IF changes[c].row \in Rows THEN EndChange(c) ELSE GoTo(c, "insert")
  /\ UNCHANGED <<vars, agents, place, assignments, choices>>

\* Mutant: no UNIQUE on role_assignments; the look-up before is relied on.
InsertAgain(c) ==
  /\ changes[c].op = "insert"
  /\ Exists(changes[c].row.user)
  /\ \E i \in Assignments :
       /\ assignments[i] = NoAssignment
       /\ assignments' = [assignments EXCEPT ![i] = changes[c].row]
  /\ EndChange(c)
  /\ UNCHANGED <<vars, agents, place, choices>>

\* The user must exist, and UNIQUE (user_id, scope, resource_id, role) must hold.
Insert(c) ==
  LET x == changes[c].row IN
  /\ changes[c].op = "insert"
  /\ Exists(x.user) /\ (x \in Rows => x.resource = "all")
  /\ \E i \in Assignments :
       /\ assignments[i] = NoAssignment
       /\ \A d \in Changes : changes[d].op = "revoke" => changes[d].id # i
       /\ assignments' = [assignments EXCEPT ![i] = x]
  /\ EndChange(c)
  /\ UNCHANGED <<vars, agents, place, choices>>

BeginRevoke(c, t, i) ==
  /\ Admin(t) /\ assignments[i] # NoAssignment
  /\ BeginChange(c, [op |-> "revoke", id |-> i])

Revoke(c) ==
  /\ changes[c].op = "revoke"
  /\ assignments' = [assignments EXCEPT ![changes[c].id] = NoAssignment]
  /\ EndChange(c)
  /\ UNCHANGED <<vars, agents, place, choices>>

BeginRevokeAll(c, t, u, resource) ==
  /\ Admin(t) /\ Exists(u)
  /\ BeginChange(c, [op |-> "revokeAll", user |-> u, resource |-> resource])

DropRows(gone(_)) ==
  assignments' = [i \in Assignments |->
    IF assignments[i] # NoAssignment /\ gone(assignments[i]) THEN NoAssignment ELSE assignments[i]]

RevokeAll(c) ==
  LET q == changes[c]
      OfBoth(x) == x.user = q.user /\ x.resource = q.resource
  IN
  /\ q.op = "revokeAll"
  /\ DropRows(OfBoth)
  /\ EndChange(c)
  /\ UNCHANGED <<vars, agents, place, choices>>

\* DELETE /api/agents/:id: the cascades take the agent's servers and the choices for it;
\* assignments refer to agents by no foreign key and are deleted in a statement of their own.
BeginDeleteAgent(c, t, a) ==
  /\ Admin(t) /\ a \in agents
  /\ BeginChange(c, [op |-> "deleteAgent", agent |-> a])

RemoveAgent(c) ==
  LET a == changes[c].agent IN
  /\ changes[c].op = "deleteAgent"
  /\ agents' = agents \ {a}
  /\ place' = [s \in Servers |-> IF place[s] = a THEN "none" ELSE place[s]]
  /\ choices' = [u \in Users |-> [choices[u] EXCEPT ![a] = {}]]
  /\ GoTo(c, "forgetAgent")
  /\ UNCHANGED <<vars, assignments>>

ForgetAgent(c) ==
  LET OfAgent(x) == x.resource = changes[c].agent IN
  /\ changes[c].op = "forgetAgent"
  /\ DropRows(OfAgent)
  /\ EndChange(c)
  /\ UNCHANGED <<vars, agents, place, choices>>

\* A server is purged: its row goes and the assignments to it stay.
Purge(s) ==
  /\ place[s] # "none"
  /\ place' = [place EXCEPT ![s] = "none"]
  /\ UNCHANGED <<vars, agents, assignments, choices, changes>>

\* A user's preference, for one agent or for all: PATCH / and PUT /agents/:agentId/notifications.
BeginChoose(c, t, a, on) ==
  LET u == sessions[t].user IN
  /\ Live(t) /\ (a = "all" \/ a \in agents)
  /\ SlowChoices \/ \A d \in Changes : changes[d].op = "choose" => changes[d].user # u
  /\ BeginChange(c, [op |-> "choose", user |-> u, agent |-> a, on |-> on,
                     found |-> choices[u][a] # {}])

\* The UPDATE sets every row there is; the INSERT needs the user and the agent, and no row
\* for the agent.
Choose(c) ==
  LET q == changes[c] IN
  /\ q.op = "choose"
  /\ \/ /\ q.found
        /\ choices' = [choices EXCEPT ![q.user][q.agent] = IF @ = {} THEN {} ELSE {q.on}]
     \/ /\ ~q.found
        /\ Exists(q.user) /\ (q.agent # "all" => q.agent \in agents /\ choices[q.user][q.agent] = {})
        /\ choices' = [choices EXCEPT ![q.user][q.agent] = @ \cup {q.on}]
  /\ EndChange(c)
  /\ UNCHANGED <<vars, agents, place, assignments>>

\* DELETE /agents/:agentId/notifications
Unchoose(t, a) ==
  /\ Live(t)
  /\ choices' = [choices EXCEPT ![sessions[t].user][a] = {}]
  /\ UNCHANGED <<vars, agents, place, assignments, changes>>

Begins(c) ==
  \/ \E t \in Tokens : Admin(t) /\ \E x \in Assignment : BeginGrant(c, t, x)
  \/ \E t \in Tokens, i \in Assignments : BeginRevoke(c, t, i)
  \/ \E t \in Tokens, u \in Users, p \in Agents \cup Servers : BeginRevokeAll(c, t, u, p)
  \/ \E t \in Tokens, a \in Agents : BeginDeleteAgent(c, t, a)
  \/ \E t \in Tokens, a \in Agents \cup {"all"}, on \in BOOLEAN : BeginChoose(c, t, a, on)

ChangeStep ==
  \/ \E c \in Changes :
       \/ changes[c] = Still /\ Begins(c)
       \/ LookUp(c) \/ Insert(c) \/ Revoke(c) \/ RevokeAll(c) \/ RemoveAgent(c)
       \/ ForgetAgent(c) \/ Choose(c) \/ ThrowChange(c)
  \/ \E s \in Servers : Purge(s)
  \/ \E t \in Tokens, a \in Agents : Unchoose(t, a)

AccessNext == AccountStep \/ ChangeStep

AccessSpec == AccessInit /\ [][AccessNext]_allVars

-----------------------------------------------------------------------------
\* Properties

\* The list of servers a user is shown and the check each server's page makes agree, though
\* one expands all assignments and the other looks for the most specific: a server that
\* exists is listed just when it may be viewed, whatever has been granted and deleted.
VisibleIsViewable ==
  \A u \in Users, system \in Roles, s \in Servers : place[s] # "none" =>
    (s \in VisibleServers(u, system) <=> May(u, system, s, "view_server"))

\* Whoever an alert about an agent is sent to has a role on that agent, although the
\* recipients are found by a query of their own: no assignment to a single server, and
\* none that is left of a deleted account, makes a recipient.
RecipientsHaveRole ==
  \A a \in agents : \A u \in Recipients(a) :
    /\ Exists(u)
    /\ EffectiveRolesForAgent(u, users[u].role, a) # {}

\* "won't create duplicate assignments": grants that overlap make no assignment twice,
\* except that of a role on everything, whose NULL the UNIQUE constraint does not compare;
\* so revoking what is on an agent or a server leaves nothing of it.
TwinsOnlyGlobal ==
  \A i, j \in Assignments :
    i # j /\ assignments[i] = assignments[j] /\ assignments[i] # NoAssignment =>
      assignments[i].resource = "all"

\* A user's answers about one agent, or about all, never contradict each other.
ChoicesClear ==
  \A u \in Users, a \in Agents \cup {"all"} : Cardinality(choices[u][a]) <= 1

\* Handlers that look for a row before they insert one do not insert it twice, whatever else
\* is inserted in between: accounts by their e-mail, assignments, and answers.
RowsDistinct == EmailsUnique /\ TwinsOnlyGlobal /\ ChoicesClear
=============================================================================
