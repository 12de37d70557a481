------------------------------ MODULE Members ------------------------------
(***************************************************************************)
(* Users, projects and who may deploy what (routers/users.py, the part of  *)
(* routers/projects.py that concerns members, services/permissions.py).    *)
(* A request runs in a thread of its own: it reads and decides, and writes *)
(* in a transaction that it begins later.  A write that breaks a foreign   *)
(* key or a unique index, or finds its row gone, fails as a whole.         *)
(***************************************************************************)
EXTENDS Naturals, FiniteSets

CONSTANTS
  Users, Projects,  \* ids, existing or not
  Threads,          \* requests at once
  MaxRequests       \* bound: requests

ASSUME RequestsAssumption == MaxRequests \in Nat

VARIABLES
  role,      \* users.role, "none" for an id without a row
  projects,  \* projects
  members,   \* project_members
  req,       \* thread -> what it is going to write
  requests, overlap, demoted
             \* history: how many; two at once; an administrator was demoted

memberVars == <<role, projects, members, req, requests, overlap, demoted>>

Roles  == {"admin", "operator", "viewer"}
Exists(u) == role[u] # "none"
Admins == {u \in Users : role[u] = "admin"}
Pairs  == Projects \X Users

Idle == [kind |-> "idle"]
Request ==
  {Idle}
    \cup [kind : {"user"}, id : Users, was : Roles \cup {"none"}, new : Roles,
          grants : SUBSET Projects]
    \cup [kind : {"drop user"}, id : Users]
    \cup [kind : {"project"}, id : Projects, create : BOOLEAN, grants : SUBSET Users]
    \cup [kind : {"drop project"}, id : Projects]

MembersTypeOK ==
  /\ role \in [Users -> Roles \cup {"none"}]
  /\ projects \subseteq Projects
  /\ \A m \in members : m[1] \in projects /\ m[2] \in Users /\ Exists(m[2])  \* foreign keys
  /\ req \in [Threads -> Request]
  /\ requests \in 0..MaxRequests
  /\ overlap \in BOOLEAN /\ demoted \in BOOLEAN

\* require_project_deploy_access, behind role("admin", "operator")
MayDeploy(u, p) ==
  role[u] = "admin" \/ (role[u] = "operator" /\ <<p, u>> \in members)

-----------------------------------------------------------------------------
(* What a request reads, and the refusals.                                   *)

Receive(t, r) ==
  /\ req[t] = Idle /\ requests < MaxRequests
  /\ Admins # {}                                   \* role("admin")
  /\ req' = [req EXCEPT ![t] = r]
  /\ requests' = requests + 1
  /\ overlap' = (overlap \/ \E s \in Threads : req[s] # Idle)
  /\ UNCHANGED <<role, projects, members, demoted>>

\* _validate_project_ids: only an operator has projects, and they exist.
ProjectIds(new) == IF new = "operator" THEN SUBSET projects ELSE {{}}

\* create_user and update_user
UserRequest(t) ==
  \E u \in Users, new \in Roles : \E grants \in ProjectIds(new) :
    Receive(t, [kind |-> "user", id |-> u, was |-> role[u], new |-> new, grants |-> grants])

\* delete_user: not oneself, nor the last administrator.
DropUserRequest(t) ==
  \E u \in Users :
    /\ Exists(u) /\ Admins \ {u} # {}
    /\ role[u] = "admin" => Cardinality(Admins) > 1
    /\ Receive(t, [kind |-> "drop user", id |-> u])

\* validate_project: members are operators.
MemberIds == SUBSET {u \in Users : role[u] = "operator"}

\* create_project and update_project
ProjectRequest(t) ==
  \E p \in Projects, grants \in MemberIds :
    Receive(t, [kind |-> "project", id |-> p, create |-> p \notin projects, grants |-> grants])

DropProjectRequest(t) ==
  \E p \in projects : Receive(t, [kind |-> "drop project", id |-> p])

-----------------------------------------------------------------------------
(* The transactions.                                                         *)

Of(u)     == {m \in members : m[2] = u}
Within(p) == {m \in members : m[1] = p}

Done(t) == req' = [req EXCEPT ![t] = Idle] /\ UNCHANGED <<requests, overlap>>

\* Mutant: the memberships of a user stay when the role changes.
WriteUserOnly(t) ==
  LET r == req[t]
  IN /\ r.kind = "user" /\ Exists(r.id)
     /\ role' = [role EXCEPT ![r.id] = r.new]
     /\ members' = members \cup (r.grants \X {r.id})
     /\ UNCHANGED <<projects, demoted>>
     /\ Done(t)

\* _sync_project_members
Synced(u, grants) == (members \ Of(u)) \cup (grants \X {u})

\* The role is written if it is not the one that was read; the memberships are
\* replaced.
WriteUser(t) ==
  LET r == req[t]
  IN /\ r.kind = "user"
     /\ Exists(r.id) <=> r.was # "none"
     /\ r.grants \subseteq projects
     /\ role' = IF r.new = r.was THEN role ELSE [role EXCEPT ![r.id] = r.new]
     /\ members' = Synced(r.id, r.grants)
     /\ demoted' = (demoted \/ (role[r.id] = "admin" /\ role'[r.id] # "admin"))
     /\ UNCHANGED projects
     /\ Done(t)

\* Mutant: the memberships are not deleted, in a database whose foreign keys are
\* not switched on (config.py:36): otherwise ON DELETE CASCADE removes them.
DropUserOnly(t) ==
  /\ req[t].kind = "drop user"
  /\ role' = [role EXCEPT ![req[t].id] = "none"]
  /\ UNCHANGED <<projects, members, demoted>>
  /\ Done(t)

DropUser(t) ==
  LET u == req[t].id
  IN /\ req[t].kind = "drop user"
     /\ role' = [role EXCEPT ![u] = "none"]
     /\ members' = members \ Of(u)
     /\ UNCHANGED <<projects, demoted>>
     /\ Done(t)

\* save_project
WriteProject(t) ==
  LET r == req[t]
  IN /\ r.kind = "project"
     /\ r.id \in projects <=> ~ r.create
     /\ \A u \in r.grants : Exists(u)
     /\ projects' = projects \cup {r.id}
     /\ members' = (members \ Within(r.id)) \cup ({r.id} \X r.grants)
     /\ UNCHANGED <<role, demoted>>
     /\ Done(t)

\* delete_project, if no deployment restricts it; the memberships cascade.
DropProject(t) ==
  LET p == req[t].id
  IN /\ req[t].kind = "drop project"
     /\ projects' = projects \ {p}
     /\ members' = members \ Within(p)
     /\ UNCHANGED <<role, demoted>>
     /\ Done(t)

\* The transaction fails, or finds deployments of the project.
Refused(t) ==
  /\ req[t] # Idle
  /\ UNCHANGED <<role, projects, members, demoted>>
  /\ Done(t)

Serve ==
  \E t \in Threads :
    \/ UserRequest(t) \/ DropUserRequest(t) \/ ProjectRequest(t) \/ DropProjectRequest(t)
    \/ WriteUser(t) \/ DropUser(t) \/ WriteProject(t) \/ DropProject(t) \/ Refused(t)
=============================================================================
